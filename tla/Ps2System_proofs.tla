-------------------------- MODULE Ps2System_proofs --------------------------
(***************************************************************************)
(* Proofs about Ps2System, for any ports, ring size and byte values, and   *)
(* any edge of the vertical blank: the acknowledge answers the level that  *)
(* was taken, the vertical blank's pulse is never lost, no byte waits for  *)
(* a driver that nothing starts, and every byte arrives once and in order, *)
(* both ways.  The last two hold with the CPU's accesses at one phase of   *)
(* the ports' clock (AnyClock = FALSE).                                    *)
(***************************************************************************)
EXTENDS Ps2System, TLAPS

-----------------------------------------------------------------------------
(* One edge of the interrupt controller.                                   *)

\* The priority chain finds the highest of the levels pending
\* (interrupt_controller.vhd, lines 48-69).
LEMMA HighestPending ==
    ASSUME NEW S \in SUBSET Level, S # {}
    PROVE  Highest(S) \in S /\ \A k \in S : k <= Highest(S)
<1>1. \E n \in S : \A k \in S : k <= n
    <2>. DEFINE top == IF 7 \in S THEN 7 ELSE IF 6 \in S THEN 6 ELSE IF 5 \in S THEN 5
                       ELSE IF 4 \in S THEN 4 ELSE IF 3 \in S THEN 3
                       ELSE IF 2 \in S THEN 2 ELSE 1
    <2>1. \A k \in S : k \in 1 .. 7 BY DEF Level
    <2>2. top \in S BY <2>1, SMT
    <2>3. \A k \in S : k <= top BY <2>1, SMT
    <2>. QED BY <2>2, <2>3
<1>. QED BY <1>1 DEF Highest

\* The registers keep their type over an edge.
LEMMA EdgeType ==
    ASSUME NEW c \in IntState, NEW I \in SUBSET Level, NEW ack \in BOOLEAN
    PROVE  IntTick(c, I, ack) \in IntState
<1>1. c.pending \in SUBSET Level /\ c.int_out \in Level \union {NoLevel} BY DEF IntState
<1>2. Asserts(c, ack) => Highest(c.pending) \in Level BY <1>1, HighestPending DEF Asserts
<1>. QED BY <1>1, <1>2 DEF IntTick, Stored, IntState

\* Without an acknowledge, the level asserted stays, and every pulse is stored.
LEMMA EdgeHolds ==
    ASSUME NEW c \in IntState, NEW I \in SUBSET Level, c.int_out # NoLevel
    PROVE  /\ IntTick(c, I, FALSE).int_out = c.int_out
           /\ IntTick(c, I, FALSE).pending = c.pending \union I
BY DEF IntTick, Stored, Asserts

\* An acknowledge takes the level off, and loses no pulse.
LEMMA EdgeAcknowledged ==
    ASSUME NEW c \in IntState, NEW I \in SUBSET Level
    PROVE  /\ IntTick(c, I, TRUE).int_out = NoLevel
           /\ IntTick(c, I, TRUE).pending = c.pending \union I
BY DEF IntTick, Stored, Asserts

\* Without an acknowledge, a level on record stays on record, and a pulse is
\* put on it, though it meets the assertion of its predecessor.
OnRecord(c, n) == n \in c.pending \/ c.int_out = n
LEMMA EdgeRecords ==
    ASSUME NEW c \in IntState, NEW I \in SUBSET Level, NEW n \in Level,
           OnRecord(c, n) \/ n \in I
    PROVE  OnRecord(IntTick(c, I, FALSE), n)
<1>1. n # NoLevel BY DEF Level, NoLevel
<1>2. CASE Asserts(c, FALSE) BY <1>1, <1>2 DEF IntTick, Stored, Asserts, OnRecord
<1>3. CASE ~Asserts(c, FALSE) BY <1>3 DEF IntTick, Stored, OnRecord
<1>. QED BY <1>2, <1>3

-----------------------------------------------------------------------------
(* The four edges of a slow clock.                                         *)

\* The controller after the fourth edge.
FourEdges(pulses) == Edge(4, ThreeEdges(pulses), pulses)

\* The lines an edge sees are levels.
LEMMA EdgeIsTick ==
    ASSUME NEW n \in 1 .. 4, NEW c, NEW pulses
    PROVE  \E I \in SUBSET Level : /\ Edge(n, c, pulses) = IntTick(c, I, int_ack)
                                   /\ VBLANK \in I <=> n \in pulses
<1>. DEFINE I == (IF ps2_int THEN {PS2_INT} ELSE {}) \union (IF n \in pulses THEN {VBLANK} ELSE {})
<1>1. I \in SUBSET Level BY DEF Level, PS2_INT, VBLANK
<1>2. VBLANK \in I <=> n \in pulses BY DEF PS2_INT, VBLANK
<1>. QED BY <1>1, <1>2 DEF Edge

\* The lemmas above, for the edges of this module.
LEMMA EdgesAcknowledge ==
    ASSUME int_ack = TRUE, NEW n \in 1 .. 4, NEW c \in IntState, NEW pulses
    PROVE  /\ Edge(n, c, pulses).int_out = NoLevel
           /\ c.pending \subseteq Edge(n, c, pulses).pending
           /\ n \in pulses => VBLANK \in Edge(n, c, pulses).pending
<1>1. PICK I \in SUBSET Level : /\ Edge(n, c, pulses) = IntTick(c, I, TRUE)
                                /\ VBLANK \in I <=> n \in pulses
    BY EdgeIsTick
<1>2. /\ IntTick(c, I, TRUE).int_out = NoLevel
      /\ IntTick(c, I, TRUE).pending = c.pending \union I
    BY EdgeAcknowledged
<1>. QED BY <1>1, <1>2

\* Likewise without an acknowledge, while a level is asserted.
LEMMA EdgesHold ==
    ASSUME int_ack = FALSE, NEW n \in 1 .. 4, NEW c \in IntState, NEW pulses, c.int_out # NoLevel
    PROVE  /\ Edge(n, c, pulses).int_out = c.int_out
           /\ c.pending \subseteq Edge(n, c, pulses).pending
           /\ n \in pulses => VBLANK \in Edge(n, c, pulses).pending
<1>1. PICK I \in SUBSET Level : /\ Edge(n, c, pulses) = IntTick(c, I, FALSE)
                                /\ VBLANK \in I <=> n \in pulses
    BY EdgeIsTick
<1>. QED BY <1>1, EdgeHolds

\* The registers keep their type over the slow clock.
LEMMA FourEdgesType ==
    ASSUME ic \in IntState, int_ack \in BOOLEAN, NEW pulses
    PROVE  /\ Edge(1, ic, pulses) \in IntState
           /\ Edge(2, Edge(1, ic, pulses), pulses) \in IntState
           /\ ThreeEdges(pulses) \in IntState
           /\ FourEdges(pulses) \in IntState
<1>1. \A n \in 1 .. 4, c \in IntState : Edge(n, c, pulses) \in IntState
    BY EdgeIsTick, EdgeType
<1>. QED BY <1>1 DEF ThreeEdges, FourEdges

\* What the third edge asserts, the fourth does not take back: the level the
\* CPU sees is the one it acknowledges (SOC_VirtualToplevel.vhd, lines 334-341).
LEMMA SeenStays ==
    ASSUME ic \in IntState, int_ack \in BOOLEAN, NEW pulses, ints(pulses) # NoLevel
    PROVE  FourEdges(pulses).int_out = ints(pulses)
<1>1. ThreeEdges(pulses) \in IntState /\ Edge(2, Edge(1, ic, pulses), pulses) \in IntState
    BY FourEdgesType
<1>2. CASE int_ack = TRUE
    <2>1. ThreeEdges(pulses).int_out = NoLevel
        BY <1>1, <1>2, EdgesAcknowledge DEF ThreeEdges
    <2>. QED BY <2>1 DEF ints
<1>3. CASE int_ack = FALSE
    <2>1. ThreeEdges(pulses).int_out # NoLevel BY DEF ints
    <2>2. \A n \in 1 .. 4, c \in IntState :
              c.int_out # NoLevel => Edge(n, c, pulses).int_out = c.int_out
        BY <1>3, EdgesHold
    <2>. QED BY <1>1, <2>1, <2>2 DEF FourEdges, ints
<1>. QED BY <1>2, <1>3

\* A pulse comes at one of the four edges.
LEMMA OneOfFour ==
    ASSUME NEW pulses \in SUBSET (1 .. 4), pulses # {}
    PROVE  1 \in pulses \/ 2 \in pulses \/ 3 \in pulses \/ 4 \in pulses
<1>1. PICK k : k \in pulses OBVIOUS
<1>2. k \in 1 .. 4 BY <1>1
<1>3. k = 1 \/ k = 2 \/ k = 3 \/ k = 4 BY <1>2
<1>. QED BY <1>1, <1>3

\* A level asserted and not acknowledged stays over the slow clock, and
\* pending levels stay pending.
LEMMA AssertedStays ==
    ASSUME ic \in IntState, int_ack = FALSE, ic.int_out # NoLevel, NEW pulses \in SUBSET (1 .. 4)
    PROVE  /\ FourEdges(pulses).int_out = ic.int_out
           /\ ic.pending \subseteq FourEdges(pulses).pending
           /\ pulses # {} => VBLANK \in FourEdges(pulses).pending
<1>1. \A n \in 1 .. 4, c \in IntState : c.int_out # NoLevel =>
          /\ Edge(n, c, pulses).int_out = c.int_out
          /\ c.pending \subseteq Edge(n, c, pulses).pending
          /\ n \in pulses => VBLANK \in Edge(n, c, pulses).pending
    BY EdgesHold
<1>2. pulses # {} => 1 \in pulses \/ 2 \in pulses \/ 3 \in pulses \/ 4 \in pulses
    BY OneOfFour
<1>. DEFINE c1 == Edge(1, ic, pulses)
            c2 == Edge(2, c1, pulses)
            c3 == Edge(3, c2, pulses)
            c4 == Edge(4, c3, pulses)
<1>3. c1 \in IntState /\ c2 \in IntState /\ c3 \in IntState BY FourEdgesType DEF ThreeEdges
<1>4. FourEdges(pulses) = c4 BY DEF FourEdges, ThreeEdges
<1>5. /\ c1.int_out = ic.int_out /\ ic.pending \subseteq c1.pending
      /\ 1 \in pulses => VBLANK \in c1.pending
    BY <1>1
<1>6. /\ c2.int_out = ic.int_out /\ c1.pending \subseteq c2.pending
      /\ 2 \in pulses => VBLANK \in c2.pending
    <2>. HIDE DEF c1
    <2>. QED BY <1>1, <1>3, <1>5
<1>7. /\ c3.int_out = ic.int_out /\ c2.pending \subseteq c3.pending
      /\ 3 \in pulses => VBLANK \in c3.pending
    <2>. HIDE DEF c2
    <2>. QED BY <1>1, <1>3, <1>6
<1>8. /\ c4.int_out = ic.int_out /\ c3.pending \subseteq c4.pending
      /\ 4 \in pulses => VBLANK \in c4.pending
    <2>. HIDE DEF c3
    <2>. QED BY <1>1, <1>3, <1>7
<1>. HIDE DEF c1, c2, c3, c4
<1>. QED BY <1>2, <1>4, <1>5, <1>6, <1>7, <1>8

\* Over a slow clock the vertical blank stays on record, or gets there, unless
\* it is acknowledged.
LEMMA BlankRecorded ==
    ASSUME ic \in IntState, int_ack \in BOOLEAN, NEW pulses \in SUBSET (1 .. 4),
           \/ pulses # {}
           \/ VBLANK \in ic.pending
           \/ ic.int_out = VBLANK /\ ~int_ack
    PROVE  OnRecord(FourEdges(pulses), VBLANK)
<1>. DEFINE Kept(c) == VBLANK \in c.pending \/ (c.int_out = VBLANK /\ ~int_ack)
<1>1. VBLANK \in Level BY DEF Level, VBLANK
<1>2. \A n \in 1 .. 4, c \in IntState :
          Kept(c) \/ n \in pulses => Kept(Edge(n, c, pulses))
    <2>. SUFFICES ASSUME NEW n \in 1 .. 4, NEW c \in IntState, Kept(c) \/ n \in pulses
                  PROVE  Kept(Edge(n, c, pulses))
        OBVIOUS
    <2>1. PICK I \in SUBSET Level : /\ Edge(n, c, pulses) = IntTick(c, I, int_ack)
                                    /\ VBLANK \in I <=> n \in pulses
        BY EdgeIsTick
    <2>2. CASE int_ack = TRUE BY <2>2, EdgesAcknowledge
    <2>3. CASE int_ack = FALSE BY <1>1, <2>1, <2>3, EdgeRecords DEF OnRecord
    <2>. QED BY <2>2, <2>3
<1>3. pulses # {} => 1 \in pulses \/ 2 \in pulses \/ 3 \in pulses \/ 4 \in pulses
    BY OneOfFour
<1>. DEFINE c1 == Edge(1, ic, pulses)
            c2 == Edge(2, c1, pulses)
            c3 == Edge(3, c2, pulses)
            c4 == Edge(4, c3, pulses)
<1>4. c1 \in IntState /\ c2 \in IntState /\ c3 \in IntState BY FourEdgesType DEF ThreeEdges
<1>5. FourEdges(pulses) = c4 BY DEF FourEdges, ThreeEdges
<1>. HIDE DEF Kept
<1>6. Kept(ic) \/ 1 \in pulses => Kept(c1) BY <1>2
<1>7. Kept(c1) \/ 2 \in pulses => Kept(c2)
    <2>. HIDE DEF c1
    <2>. QED BY <1>2, <1>4
<1>8. Kept(c2) \/ 3 \in pulses => Kept(c3)
    <2>. HIDE DEF c2
    <2>. QED BY <1>2, <1>4
<1>9. Kept(c3) \/ 4 \in pulses => Kept(c4)
    <2>. HIDE DEF c3
    <2>. QED BY <1>2, <1>4
<1>10. pulses # {} \/ Kept(ic) BY DEF Kept
<1>11. Kept(c4)
    <2>. HIDE DEF c1, c2, c3, c4
    <2>. QED BY <1>3, <1>6, <1>7, <1>8, <1>9, <1>10
<1>. QED BY <1>5, <1>11 DEF Kept, OnRecord

-----------------------------------------------------------------------------
(* The invariant.                                                          *)

\* A pulse of the vertical blank comes at one of the four edges, and not while
\* the one before it waits.
LEMMA BlankPulses ==
    ASSUME NEW pulses \in VBlank
    PROVE  pulses \in SUBSET (1 .. 4) /\ (pulses # {} => ~blank)
BY DriverAssumption DEF VBlank

\* What the two properties need to be inductive: the masks are levels, so
\* that no level at all is never taken for one above the mask.
IntInv ==
    /\ ic \in IntState /\ int_ack \in BOOLEAN /\ blank \in BOOLEAN
    /\ taking \in Level \union {NoLevel}
    /\ sr \in {0, 7} /\ stack \in Seq(Level)
    /\ AcknowledgesItsOwn
    /\ BlankServed

\* Reset leaves nothing asserted, nothing taken and nothing on record.
LEMMA IntInvInit == Init => IntInv
<1>. SUFFICES ASSUME Init PROVE IntInv
    OBVIOUS
<1>1. ic \in IntState
    <2>1. ic = [pending |-> {}, int_out |-> NoLevel] BY DEF Init, IntReset
    <2>. QED BY <2>1 DEF IntState
<1>2. stack \in Seq(Level) /\ sr \in {0, 7} BY DEF Init
<1>3. taking = NoLevel /\ blank = FALSE /\ int_ack = FALSE BY DEF Init
<1>. QED BY <1>1, <1>2, <1>3 DEF IntInv, AcknowledgesItsOwn, BlankServed

\* Neither property is disturbed by a step that is not about interrupts,
\* whatever pulses arrive in it and whichever acknowledge ends.
LEMMA ComputesKeeps ==
    ASSUME IntInv, NEW access, NEW pulses \in VBlank, Computes(access, pulses)
    PROVE  /\ ic' \in IntState /\ int_ack' \in BOOLEAN /\ blank' \in BOOLEAN
           /\ taking' \in Level \union {NoLevel}
           /\ AcknowledgesItsOwn'
           /\ BlankServed'
<1>1. /\ ic' = FourEdges(pulses) /\ int_ack' = FALSE
      /\ blank' = (blank \/ pulses # {}) /\ taking' = taking
    BY DEF Computes, Hardware, FourEdges
<1>2. ic \in IntState /\ int_ack \in BOOLEAN /\ blank \in BOOLEAN BY DEF IntInv
<1>3. pulses \in SUBSET (1 .. 4) BY BlankPulses
<1>4. ic' \in IntState BY <1>1, <1>2, FourEdgesType
<1>5. AcknowledgesItsOwn'
    <2>. SUFFICES ASSUME taking # NoLevel PROVE ic'.int_out = taking
        BY <1>1 DEF AcknowledgesItsOwn
    <2>1. ic.int_out = taking /\ int_ack = FALSE BY <1>2 DEF IntInv, AcknowledgesItsOwn
    <2>. QED BY <1>1, <1>2, <1>3, <2>1, AssertedStays
<1>6. BlankServed'
    <2>. SUFFICES ASSUME blank \/ pulses # {} PROVE OnRecord(ic', VBLANK)
        BY <1>1 DEF BlankServed, OnRecord
    <2>1. pulses # {} \/ VBLANK \in ic.pending \/ (ic.int_out = VBLANK /\ ~int_ack)
        BY DEF IntInv, BlankServed
    <2>. QED BY <1>1, <1>2, <1>3, <2>1, BlankRecorded
<1>. QED BY <1>1, <1>2, <1>4, <1>5, <1>6 DEF IntInv

\* The exception is taken for the level that is still asserted afterwards.
LEMMA TakeKeeps ==
    ASSUME IntInv, NEW pulses \in VBlank, Take(pulses)
    PROVE  IntInv'
<1>1. /\ ic' = FourEdges(pulses) /\ int_ack' = FALSE
      /\ blank' = (blank \/ pulses # {}) /\ taking' = ints(pulses)
      /\ ints(pulses) > Mask
      /\ sr' = sr /\ stack' = stack
    BY DEF Take, Hardware, FourEdges
<1>2. ic \in IntState /\ int_ack \in BOOLEAN /\ blank \in BOOLEAN BY DEF IntInv
<1>3. pulses \in SUBSET (1 .. 4) BY BlankPulses
<1>4. ic' \in IntState BY <1>1, <1>2, FourEdgesType
<1>5. ints(pulses) # NoLevel /\ ints(pulses) \in Level
    <2>1. ints(pulses) \in Level \union {NoLevel}
        BY <1>2, FourEdgesType DEF ints, IntState
    <2>2. Mask \in 0 .. 7
        <3>1. stack # <<>> => Head(stack) \in Level BY DEF IntInv
        <3>2. sr \in 0 .. 7 BY DEF IntInv
        <3>. QED BY <3>1, <3>2 DEF Mask, Level
    <2>. QED BY <1>1, <2>1, <2>2 DEF Level, NoLevel
<1>6. AcknowledgesItsOwn' BY <1>1, <1>2, <1>5, SeenStays DEF AcknowledgesItsOwn
<1>7. BlankServed'
    <2>. SUFFICES ASSUME blank \/ pulses # {} PROVE OnRecord(ic', VBLANK)
        BY <1>1 DEF BlankServed, OnRecord
    <2>1. pulses # {} \/ VBLANK \in ic.pending \/ (ic.int_out = VBLANK /\ ~int_ack)
        BY DEF IntInv, BlankServed
    <2>. QED BY <1>1, <1>2, <1>3, <2>1, BlankRecorded
<1>. QED BY <1>1, <1>2, <1>4, <1>5, <1>6, <1>7 DEF IntInv

\* The acknowledge meets the level it is for, and leaves the vertical blank on
\* record unless it is its own.
LEMMA AcknowledgeKeeps ==
    ASSUME IntInv, NEW pulses \in VBlank, Acknowledge(pulses)
    PROVE  IntInv'
<1>1. /\ ic' = FourEdges(pulses) /\ int_ack' = TRUE
      /\ blank' = ((blank /\ taking # VBLANK) \/ pulses # {}) /\ taking' = NoLevel
      /\ sr' = sr /\ stack' = <<taking>> \o stack
      /\ taking # NoLevel
    BY DEF Acknowledge, Hardware, FourEdges
<1>2. ic \in IntState /\ int_ack \in BOOLEAN /\ blank \in BOOLEAN /\ taking \in Level
    BY <1>1 DEF IntInv
<1>3. pulses \in SUBSET (1 .. 4) BY BlankPulses
<1>4. ic' \in IntState BY <1>1, <1>2, FourEdgesType
<1>5. stack' \in Seq(Level)
    <2>1. stack \in Seq(Level) /\ <<taking>> \in Seq(Level) BY <1>2 DEF IntInv
    <2>. QED BY <1>1, <2>1
<1>6. ic.int_out = taking /\ int_ack = FALSE BY <1>1, <1>2 DEF IntInv, AcknowledgesItsOwn
<1>7. BlankServed'
    <2>1. VBLANK \in ic.pending => VBLANK \in ic'.pending
        BY <1>1, <1>2, <1>3, <1>6, AssertedStays
    <2>2. pulses # {} => VBLANK \in ic'.pending
        BY <1>1, <1>2, <1>3, <1>6, AssertedStays
    <2>3. blank /\ taking # VBLANK => VBLANK \in ic.pending
        BY <1>6 DEF IntInv, BlankServed
    <2>. QED BY <1>1, <2>1, <2>2, <2>3 DEF BlankServed
<1>8. AcknowledgesItsOwn' BY <1>1 DEF AcknowledgesItsOwn
<1>. QED BY <1>1, <1>2, <1>4, <1>5, <1>7, <1>8 DEF IntInv

\* No step of the hardware, the handlers or the program disturbs it.
LEMMA IntInvStep == IntInv /\ [Next]_vars => IntInv'
<1>. SUFFICES ASSUME IntInv, [Next]_vars PROVE IntInv'
    OBVIOUS
<1>1. CASE UNCHANGED vars
    BY <1>1 DEF IntInv, vars, cpuVars, AcknowledgesItsOwn, BlankServed
<1>2. ASSUME NEW pulses \in VBlank, Take(pulses) PROVE IntInv'
    BY <1>2, TakeKeeps
<1>3. ASSUME NEW pulses \in VBlank, Acknowledge(pulses) PROVE IntInv'
    BY <1>3, AcknowledgeKeeps
<1>4. ASSUME NEW pulses \in VBlank, NEW access, Computes(access, pulses),
             sr' \in {0, 7}, stack' \in Seq(Level)
      PROVE  IntInv'
    BY <1>4, ComputesKeeps DEF IntInv
<1>5. sr \in {0, 7} /\ stack \in Seq(Level) /\ (stack # <<>> => Tail(stack) \in Seq(Level))
    BY DEF IntInv
<1>6. ASSUME NEW pulses \in VBlank, Rest(pulses) PROVE IntInv'
    BY <1>4, <1>5, <1>6 DEF Rest
<1>7. ASSUME NEW pulses \in VBlank, ReturnVBlank(pulses) PROVE IntInv'
    BY <1>4, <1>5, <1>7 DEF ReturnVBlank, Runs
<1>8. ASSUME NEW pulses \in VBlank, Handler(pulses) PROVE IntInv'
    <2>1. ASSUME NEW p, NEW at, NEW then, ReadRegister(p, at, then, pulses) PROVE IntInv'
        BY <1>4, <1>5, <2>1 DEF ReadRegister
    <2>2. ASSUME NEW p, NEW at, NEW then, Serve(p, at, then, pulses) PROVE IntInv'
        BY <1>4, <1>5, <2>2 DEF Serve
    <2>3. CASE Return(pulses)
        BY <1>4, <1>5, <2>3 DEF Return
    <2>. QED BY <1>8, <2>1, <2>2, <2>3 DEF Handler
<1>9. ASSUME NEW pulses \in VBlank, Program(pulses) PROVE IntInv'
    <2>1. ASSUME NEW p, ReadRing(p, pulses) PROVE IntInv'
        BY <1>4, <1>5, <2>1 DEF ReadRing
    <2>2. CASE Advance(pulses)
        BY <1>4, <1>5, <2>2 DEF Advance
    <2>3. ASSUME NEW p, WriteRing(p, pulses) PROVE IntInv'
        BY <1>4, <1>5, <2>3 DEF WriteRing
    <2>4. CASE Store(pulses)
        BY <1>4, <1>5, <2>4 DEF Store
    <2>. QED BY <1>9, <2>1, <2>2, <2>3, <2>4 DEF Program
<1>. QED BY <1>1, <1>2, <1>3, <1>6, <1>7, <1>8, <1>9 DEF Next, Works

\* The number the CPU puts on the bus when it acknowledges an interrupt is the
\* one the controller asserts, although the controller clears whatever it
\* asserts without looking at the number (interrupt_controller.vhd, line 45).
THEOREM AcknowledgeMatches == Spec => []AcknowledgesItsOwn
<1>1. Spec => []IntInv BY IntInvInit, IntInvStep, PTL DEF Spec
<1>2. IntInv => AcknowledgesItsOwn BY DEF IntInv
<1>. QED BY <1>1, <1>2, PTL

\* No pulse of the vertical blank is lost, though every PS/2 interrupt goes
\* first and each is stored and taken twice.
THEOREM BlankAlwaysServed == Spec => []BlankServed
<1>1. Spec => []IntInv BY IntInvInit, IntInvStep, PTL DEF Spec
<1>2. IntInv => BlankServed BY DEF IntInv
<1>. QED BY <1>1, <1>2, PTL

-----------------------------------------------------------------------------
(* Types.                                                                  *)

\* Indices and byte numbers go round.
LEMMA Round ==
    ASSUME NEW n \in Nat, n > 0, NEW i \in 0 .. n - 1
    PROVE  (i + 1) % n = (IF i = n - 1 THEN 0 ELSE i + 1) /\ (i + 1) % n \in 0 .. n - 1
  OBVIOUS

LEMMA Rounds ==
    /\ \A i \in 0 .. RingSize - 1 : Next1(i) = (IF i = RingSize - 1 THEN 0 ELSE i + 1)
                                    /\ Next1(i) \in 0 .. RingSize - 1
    /\ \A b \in Byte : Succ(b) = (IF b = Bytes - 1 THEN 0 ELSE b + 1) /\ Succ(b) \in Byte
    /\ 0 \in Byte /\ 0 \in 0 .. RingSize - 1
<1>1. RingSize \in Nat /\ RingSize > 0 /\ Bytes \in Nat /\ Bytes > 0 BY DriverAssumption
<1>2. \A i \in 0 .. RingSize - 1 : Next1(i) = (IF i = RingSize - 1 THEN 0 ELSE i + 1)
                                    /\ Next1(i) \in 0 .. RingSize - 1
    BY <1>1, Round DEF Next1
<1>3. \A b \in Byte : Succ(b) = (IF b = Bytes - 1 THEN 0 ELSE b + 1) /\ Succ(b) \in Byte
    BY <1>1, Round DEF Succ, Byte
<1>. QED BY <1>1, <1>2, <1>3 DEF Byte

\* What one edge with the clock enable high does to a port.
LEMMA PortEdge ==
    ASSUME NEW c \in PortState, NEW t \in BOOLEAN, NEW d \in PortNext(c, t)
    PROVE  /\ d \in PortState
           /\ (c.sendTriggerLoc \/ t) /\ ~d.sendTriggerLoc => d.sendDone
           /\ d.sendTriggerLoc => c.sendTriggerLoc \/ t
           /\ d.sendDone => c.com = "send" /\ ~d.sendTriggerLoc
           /\ d.com = "send" => c.com = "send" \/ (c.com = "idle" /\ c.sendTriggerLoc)
           /\ d.com = "send" /\ (c.com = "send" => c.sendTriggerLoc) => d.sendTriggerLoc
           /\ d.recvTrigger => c.com = "receive"
           /\ d.recvTrigger \/ d.sendDone => d.com = "idle"
<1>. DEFINE held == [c EXCEPT !.sendTriggerLoc = @ \/ t, !.recvTrigger = FALSE, !.sendDone = FALSE]
<1>1. c.com \in {"idle", "send", "receive"} /\ c.sendTriggerLoc \in BOOLEAN BY DEF PortState
<1>2. /\ held \in PortState /\ held.com = c.com
      /\ held.sendTriggerLoc <=> (c.sendTriggerLoc \/ t)
      /\ ~held.recvTrigger /\ ~held.sendDone
    BY DEF PortState
<1>. HIDE DEF held
<1>3. CASE c.com = "idle"
    <2>1. \/ d = [held EXCEPT !.com = "receive"]
          \/ d = [held EXCEPT !.com = IF c.sendTriggerLoc THEN "send" ELSE "idle"]
        BY <1>3 DEF PortNext, held
    <2>2. /\ d \in PortState
          /\ d.com = "send" => c.sendTriggerLoc
          /\ d.sendTriggerLoc <=> (c.sendTriggerLoc \/ t)
          /\ ~d.sendDone /\ ~d.recvTrigger
        BY <1>1, <1>2, <2>1 DEF PortState
    <2>. QED BY <1>1, <1>2, <1>3, <2>2
<1>4. CASE c.com = "receive"
    <2>1. d = held \/ d = [held EXCEPT !.com = "idle", !.recvTrigger = TRUE]
        BY <1>4 DEF PortNext, held
    <2>2. /\ d \in PortState /\ d.com # "send"
          /\ d.sendTriggerLoc = held.sendTriggerLoc /\ ~d.sendDone
          /\ d.recvTrigger => d.com = "idle"
        BY <1>2, <1>4, <2>1 DEF PortState
    <2>. QED BY <1>1, <1>2, <1>4, <2>2
<1>5. CASE c.com = "send"
    <2>1. CASE d = held BY <1>1, <1>2, <1>5, <2>1
    <2>2. CASE d = [held EXCEPT !.com = "idle", !.sendTriggerLoc = FALSE, !.sendDone = TRUE]
        <3>1. /\ d \in PortState /\ d.com = "idle"
              /\ ~d.sendTriggerLoc /\ d.sendDone /\ ~d.recvTrigger
            BY <1>2, <2>2 DEF PortState
        <3>. QED BY <1>5, <3>1
    <2>. QED BY <1>5, <2>1, <2>2 DEF PortNext, held
<1>. QED BY <1>1, <1>3, <1>4, <1>5

LEMMA PortsStep ==
    ASSUME RegTypeOK, PortTick(sendtrigger)
    PROVE  /\ ena' = ~ena /\ ena' \in BOOLEAN /\ port' \in [Port -> PortState]
           /\ \A p \in Port : IF ena THEN port'[p] \in PortNext(port[p], sendtrigger[p])
                              ELSE port'[p] = port[p]
<1>1. CASE ena
    <2>1. PICK f : /\ f \in [Port -> UNION {PortNext(port[q], sendtrigger[q]) : q \in Port}]
                   /\ \A p \in Port : f[p] \in PortNext(port[p], sendtrigger[p])
                   /\ port' = f
        BY <1>1 DEF PortTick
    <2>2. \A p \in Port : f[p] \in PortState BY <2>1, PortEdge DEF RegTypeOK
    <2>3. f \in [Port -> PortState] BY <2>1, <2>2
    <2>. QED BY <1>1, <2>1, <2>3 DEF PortTick
<1>2. CASE ~ena BY <1>2 DEF PortTick, RegTypeOK
<1>. QED BY <1>1, <1>2

\* An access the CPU may make.
Access == {NoAccess} \union {Read(p) : p \in Port} \union {Write(p, b) : p \in Port, b \in Byte}

LEMMA AccessFacts ==
    ASSUME NEW access \in Access, NEW p \in Port
    PROVE  /\ Reads(access, p) \in BOOLEAN /\ Writes(access, p) \in BOOLEAN
           /\ Writes(access, p) => access.byte \in Byte
<1>1. CASE access = NoAccess BY <1>1 DEF NoAccess, Reads, Writes
<1>2. ASSUME NEW q \in Port, access = Read(q) PROVE access.kind = "read"
    BY <1>2 DEF Read
<1>3. ASSUME NEW q \in Port, NEW b \in Byte, access = Write(q, b)
      PROVE  access.kind = "write" /\ access.byte \in Byte
    BY <1>3 DEF Write
<1>. QED BY <1>1, <1>2, <1>3 DEF Access, Reads, Writes

LEMMA HardwareType ==
    ASSUME TypeOK, NEW access \in Access, NEW ack, NEW pulses, Hardware(access, ack, pulses)
    PROVE  /\ RegTypeOK' /\ taken' \in [Port -> Byte] /\ talkers' \in SUBSET Port
           /\ PortTick(sendtrigger) /\ RegTick(access)
<1>1. RegTypeOK /\ PortTick(sendtrigger) /\ RegTick(access) BY DEF TypeOK, Hardware
<1>2. ena' \in BOOLEAN /\ port' \in [Port -> PortState] BY <1>1, PortsStep
<1>3. recvByte' \in [Port -> Byte]
    <2>1. \A p \in Port : recvByte[p] \in Byte /\ Succ(recvByte[p]) \in Byte
        BY <1>1, Rounds DEF RegTypeOK
    <2>. QED BY <2>1 DEF Hardware
<1>4. sendbyte' \in [Port -> Byte]
    <2>1. \A p \in Port : sendbyte[p] \in Byte /\ (Writes(access, p) => access.byte \in Byte)
        BY <1>1, AccessFacts DEF RegTypeOK
    <2>. QED BY <1>1, <2>1 DEF RegTick
<1>5. sendtrigger' \in [Port -> BOOLEAN]
    BY <1>1, AccessFacts DEF RegTick
<1>6. recvreg' \in [Port -> BOOLEAN]
    <2>1. \A p \in Port : RecvFlag(access, p) \in BOOLEAN
        BY <1>1 DEF RecvFlag, RegTypeOK, PortState
    <2>. QED BY <1>1, <2>1 DEF RegTick
<1>7. ps2_int' \in BOOLEAN BY <1>1 DEF RegTick, PortInterrupt
<1>8. taken' \in [Port -> Byte]
    <2>1. \A p \in Port : sendbyte[p] \in Byte /\ taken[p] \in Byte BY <1>1 DEF RegTypeOK, TypeOK
    <2>. QED BY <2>1 DEF Hardware
<1>9. talkers' \in SUBSET Port BY DEF Hardware, TypeOK
<1>. QED BY <1>1, <1>2, <1>3, <1>4, <1>5, <1>6, <1>7, <1>8, <1>9 DEF RegTypeOK

\* Every step is an edge of the hardware with some access.
DriverTypeOK ==
    /\ hpc \in {"none", "readkbd", "readmouse", "kbd", "mouse", "return"}
    /\ seen \in [Port -> RegValue]
    /\ mpc \in {"idle", "result", "store", "handler"} /\ which \in Port
    /\ ring \in [Port -> Ring]
    /\ sent \in [Port -> Byte] /\ got \in [Port -> Byte]

LEMMA RingFields ==
    ASSUME NEW r \in Ring
    PROVE  /\ r.in_hw \in 0 .. RingSize - 1 /\ r.in_cpu \in 0 .. RingSize - 1
           /\ r.out_hw \in 0 .. RingSize - 1 /\ r.out_cpu \in 0 .. RingSize - 1
           /\ r.inbuf \in [0 .. RingSize - 1 -> Byte] /\ r.outbuf \in [0 .. RingSize - 1 -> Byte]
  BY DEF Ring

LEMMA ServeType ==
    ASSUME TypeOK, NEW p \in Port, NEW at, NEW then, NEW pulses, Serve(p, at, then, pulses)
    PROVE  /\ ring' \in [Port -> Ring] /\ seen' \in [Port -> RegValue]
           /\ \E access \in Access : Computes(access, pulses)
<1>1. /\ ring[p] \in Ring /\ seen[p] \in RegValue /\ ring \in [Port -> Ring] /\ seen \in [Port -> RegValue]
    BY DEF TypeOK
<1>2. /\ ring[p].in_hw \in 0 .. RingSize - 1 /\ ring[p].out_hw \in 0 .. RingSize - 1
      /\ ring[p].outbuf[ring[p].out_hw] \in Byte /\ seen[p].byte \in Byte
    BY <1>1, RingFields DEF RegValue
<1>3. Buffered(ring[p], seen[p]) \in Ring
    BY <1>1, <1>2, Rounds DEF Buffered, Ring
<1>4. [Buffered(ring[p], seen[p]) EXCEPT !.out_hw = IF Sends(p) THEN Next1(@) ELSE @] \in Ring
    BY <1>3, Rounds DEF Ring
<1>5. ring' \in [Port -> Ring]
    <2>. DEFINE new == [Buffered(ring[p], seen[p]) EXCEPT !.out_hw = IF Sends(p) THEN Next1(@) ELSE @]
    <2>1. ring' = [ring EXCEPT ![p] = new] BY <1>1 DEF Serve
    <2>. HIDE DEF new
    <2>2. new \in Ring BY <1>4 DEF new
    <2>. QED BY <1>1, <2>1, <2>2
<1>6. seen' \in [Port -> RegValue] BY <1>1 DEF Serve, RegValue
<1>. QED BY <1>2, <1>5, <1>6 DEF Serve, Access

LEMMA StoreType ==
    ASSUME TypeOK, NEW pulses, Store(pulses)
    PROVE  ring' \in [Port -> Ring] /\ sent' \in [Port -> Byte]
<1>1. which \in Port /\ ring[which] \in Ring /\ ring \in [Port -> Ring] /\ sent \in [Port -> Byte]
    BY DEF TypeOK
<1>2. sent' \in [Port -> Byte] /\ sent'[which] \in Byte BY <1>1, Rounds DEF Store
<1>3. /\ ring[which].out_cpu \in 0 .. RingSize - 1
      /\ Next1(ring[which].out_cpu) \in 0 .. RingSize - 1
    BY <1>1, RingFields, Rounds
<1>. DEFINE new == [ring[which] EXCEPT !.outbuf[ring[which].out_cpu] = sent'[which],
                                       !.out_cpu = Next1(@)]
<1>4. new \in Ring BY <1>1, <1>2, <1>3 DEF Ring
<1>5. ring' = [ring EXCEPT ![which] = new] BY <1>1 DEF Store
<1>. QED BY <1>1, <1>2, <1>4, <1>5

LEMMA DriverTypeStep ==
    ASSUME TypeOK, NEW pulses \in VBlank, Rest(pulses) \/ Take(pulses) \/ Works(pulses)
    PROVE  /\ DriverTypeOK'
           /\ \E access \in Access, ack \in BOOLEAN : Hardware(access, ack, pulses)
<1>1. DriverTypeOK /\ NoAccess \in Access BY DEF TypeOK, DriverTypeOK, Access
<1>2. CASE Rest(pulses) BY <1>1, <1>2 DEF Rest, Computes, DriverTypeOK
<1>3. CASE Take(pulses) BY <1>1, <1>3 DEF Take, DriverTypeOK
<1>4. CASE ReturnVBlank(pulses) BY <1>1, <1>4 DEF ReturnVBlank, Computes, DriverTypeOK
<1>5. CASE Acknowledge(pulses) BY <1>1, <1>5 DEF Acknowledge, DriverTypeOK
<1>6. CASE Handler(pulses)
    <2>1. ASSUME NEW p \in Port, NEW at, NEW then \in {"readmouse", "kbd"},
                 ReadRegister(p, at, then, pulses)
          PROVE  /\ DriverTypeOK'
                 /\ \E access \in Access, ack \in BOOLEAN : Hardware(access, ack, pulses)
        <3>1. Value(p) \in RegValue BY DEF TypeOK, RegTypeOK, Value, RegValue, sendBusy, PortState
        <3>2. Read(p) \in Access BY DEF Access
        <3>. QED BY <1>1, <2>1, <3>1, <3>2 DEF ReadRegister, Computes, DriverTypeOK
    <2>2. ASSUME NEW p \in Port, NEW at, NEW then \in {"mouse", "return"},
                 Serve(p, at, then, pulses)
          PROVE  /\ DriverTypeOK'
                 /\ \E access \in Access, ack \in BOOLEAN : Hardware(access, ack, pulses)
        <3>1. ring' \in [Port -> Ring] /\ seen' \in [Port -> RegValue] BY <2>2, ServeType
        <3>2. \E access \in Access : Computes(access, pulses) BY <2>2, ServeType
        <3>. QED BY <1>1, <2>2, <3>1, <3>2 DEF Serve, Computes, DriverTypeOK
    <2>3. CASE Return(pulses) BY <1>1, <2>3 DEF Return, Computes, DriverTypeOK
    <2>. QED BY <1>6, <2>1, <2>2, <2>3, DriverAssumption DEF Handler
<1>7. CASE Program(pulses)
    <2>1. ASSUME NEW p \in Port, ReadRing(p, pulses) PROVE got' \in [Port -> Byte]
        <3>1. ring[p].inbuf[ring[p].in_cpu] \in Byte BY RingFields DEF TypeOK
        <3>. QED BY <1>1, <2>1, <3>1 DEF ReadRing, DriverTypeOK
    <2>2. ASSUME NEW p \in Port, ReadRing(p, pulses)
          PROVE  /\ DriverTypeOK'
                 /\ \E access \in Access, ack \in BOOLEAN : Hardware(access, ack, pulses)
        BY <1>1, <2>1, <2>2 DEF ReadRing, Main, Computes, DriverTypeOK
    <2>3. ASSUME Advance(pulses)
          PROVE  /\ DriverTypeOK'
                 /\ \E access \in Access, ack \in BOOLEAN : Hardware(access, ack, pulses)
        <3>1. ring' \in [Port -> Ring]
            <4>1. ring[which] \in Ring /\ Next1(ring[which].in_cpu) \in 0 .. RingSize - 1
                BY RingFields, Rounds DEF TypeOK
            <4>2. [ring[which] EXCEPT !.in_cpu = Next1(@)] \in Ring BY <4>1 DEF Ring
            <4>3. ring' = [ring EXCEPT ![which] = [ring[which] EXCEPT !.in_cpu = Next1(@)]]
                BY <2>3 DEF Advance, TypeOK
            <4>. QED BY <1>1, <4>2, <4>3 DEF DriverTypeOK
        <3>. QED BY <1>1, <2>3, <3>1 DEF Advance, Main, Computes, DriverTypeOK
    <2>4. ASSUME NEW p \in Port, WriteRing(p, pulses)
          PROVE  /\ DriverTypeOK'
                 /\ \E access \in Access, ack \in BOOLEAN : Hardware(access, ack, pulses)
        BY <1>1, <2>4 DEF WriteRing, Main, Computes, DriverTypeOK
    <2>5. ASSUME Store(pulses)
          PROVE  /\ DriverTypeOK'
                 /\ \E access \in Access, ack \in BOOLEAN : Hardware(access, ack, pulses)
        <3>1. ring' \in [Port -> Ring] /\ sent' \in [Port -> Byte] BY <2>5, StoreType
        <3>. QED BY <1>1, <2>5, <3>1 DEF Store, Main, Computes, DriverTypeOK
    <2>. QED BY <1>7, <2>2, <2>3, <2>4, <2>5, DriverAssumption DEF Program
<1>. QED BY <1>2, <1>3, <1>4, <1>5, <1>6, <1>7 DEF Works

\* Reset leaves every register and ring empty.
LEMMA TypeInit == Init => TypeOK
<1>. SUFFICES ASSUME Init PROVE TypeOK
    OBVIOUS
<1>1. RegTypeOK BY Rounds DEF Init, PortInit, RegInit, RegTypeOK, PortState
<1>2. EmptyRing \in Ring BY Rounds DEF EmptyRing, NoBytes, Ring
<1>3. seen \in [Port -> RegValue] BY Rounds DEF Init, RegValue
<1>4. kbd \in Port /\ talkers \in SUBSET Port BY DriverAssumption DEF Init
<1>5. IntInv BY IntInvInit
<1>. QED BY <1>1, <1>2, <1>3, <1>4, <1>5, Rounds DEF Init, TypeOK, IntInv

\* No step takes an index out of its ring or a byte out of its range.
LEMMA TypeStep == TypeOK /\ IntInv /\ [Next]_vars => TypeOK'
<1>. SUFFICES ASSUME TypeOK, IntInv, [Next]_vars PROVE TypeOK'
    OBVIOUS
<1>1. IntInv' BY IntInvStep
<1>2. CASE UNCHANGED vars
    BY <1>2 DEF vars, cpuVars, history, regVars, TypeOK, RegTypeOK
<1>3. CASE Next
    <2>1. PICK pulses \in VBlank : Rest(pulses) \/ Take(pulses) \/ Works(pulses)
        BY <1>3 DEF Next
    <2>2. DriverTypeOK' BY <2>1, DriverTypeStep
    <2>3. PICK access \in Access, ack \in BOOLEAN : Hardware(access, ack, pulses)
        BY <2>1, DriverTypeStep
    <2>4. RegTypeOK' /\ taken' \in [Port -> Byte] /\ talkers' \in SUBSET Port
        BY <2>3, HardwareType
    <2>. QED BY <1>1, <2>2, <2>4 DEF TypeOK, DriverTypeOK, IntInv
<1>. QED BY <1>2, <1>3

\* The indices of the rings stay inside them and every byte handed over is one,
\* for any size of the rings that the masks of ps2.c allow.
THEOREM DriverTypeCorrect == Spec => []TypeOK
<1>. USE DEF Spec
<1>1. Init => TypeOK /\ IntInv BY TypeInit, IntInvInit
<1>2. TypeOK /\ IntInv /\ [Next]_vars => (TypeOK /\ IntInv)' BY TypeStep, IntInvStep
<1>. QED BY <1>1, <1>2, PTL

-----------------------------------------------------------------------------
(* Nothing is stranded, when the CPU's accesses meet a port's clock enable *)
(* low.                                                                    *)

\* The stages of the driver between its read of a port's register and its
\* serving of that port.
Holding(p) == {IF p = kbd THEN "readmouse" ELSE "mouse", "kbd"}
\* The stages at which the driver has yet to read a port's register.
Reading(p) == {"readkbd"} \union (IF p = mouse THEN {"readmouse"} ELSE {})
\* The stages at which it has yet to serve the port.
Serving(p) == Reading(p) \union Holding(p)

\* A byte that comes, and a port that becomes free, summon the driver, or will
\* at the next clock; a driver that found the port busy will be summoned again.
WakeInv ==
    /\ \A p \in Port : sendtrigger[p] => ena
    /\ \A p \in Port : recvreg[p] => Summoned \/ port[p].recvTrigger \/ hpc \in Reading(p)
    /\ \A p \in Port : ring[p].out_hw # ring[p].out_cpu /\ ~sendBusy(p) =>
           Summoned \/ port[p].sendDone \/ hpc \in Serving(p)
    /\ \A p \in Port : hpc \in Holding(p) /\ ~seen[p].cts /\ ~sendBusy(p) =>
           Summoned \/ port[p].sendDone

\* The ports' interrupt is one of the lines an edge sees.
LEMMA EdgeSees ==
    ASSUME NEW n \in 1 .. 4, NEW c, NEW pulses
    PROVE  \E I \in SUBSET Level : /\ Edge(n, c, pulses) = IntTick(c, I, int_ack)
                                   /\ ps2_int => PS2_INT \in I
<1>. DEFINE I == (IF ps2_int THEN {PS2_INT} ELSE {}) \union (IF n \in pulses THEN {VBLANK} ELSE {})
<1>1. I \in SUBSET Level BY DEF Level, PS2_INT, VBLANK
<1>. QED BY <1>1 DEF Edge

\* What is pending for the driver, or asserted, or pulsed at every edge of a
\* slow clock, is pending or asserted after it.
LEMMA DriverRecorded ==
    ASSUME ic \in IntState, int_ack \in BOOLEAN, NEW pulses,
           ps2_int \/ PS2_INT \in ic.pending \/ (ic.int_out = PS2_INT /\ ~int_ack)
    PROVE  /\ int_ack => PS2_INT \in FourEdges(pulses).pending
           /\ PS2_INT \in FourEdges(pulses).pending \/ FourEdges(pulses).int_out = PS2_INT
<1>. DEFINE Kept(c) == PS2_INT \in c.pending \/ (c.int_out = PS2_INT /\ ~int_ack)
<1>1. PS2_INT \in Level BY DEF Level, PS2_INT
<1>2. \A n \in 1 .. 4, c \in IntState : Kept(c) \/ ps2_int => Kept(Edge(n, c, pulses))
    <2>. SUFFICES ASSUME NEW n \in 1 .. 4, NEW c \in IntState, Kept(c) \/ ps2_int
                  PROVE  Kept(Edge(n, c, pulses))
        OBVIOUS
    <2>1. PICK I \in SUBSET Level : /\ Edge(n, c, pulses) = IntTick(c, I, int_ack)
                                    /\ ps2_int => PS2_INT \in I
        BY <1>1, EdgeSees
    <2>2. CASE int_ack = TRUE
        <3>1. IntTick(c, I, TRUE).pending = c.pending \union I BY EdgeAcknowledged
        <3>. QED BY <2>1, <2>2, <3>1
    <2>3. CASE int_ack = FALSE BY <1>1, <2>1, <2>3, EdgeRecords DEF OnRecord
    <2>. QED BY <2>2, <2>3
<1>. DEFINE c1 == Edge(1, ic, pulses)
            c2 == Edge(2, c1, pulses)
            c3 == Edge(3, c2, pulses)
            c4 == Edge(4, c3, pulses)
<1>4. c1 \in IntState /\ c2 \in IntState /\ c3 \in IntState BY FourEdgesType DEF ThreeEdges
<1>5. FourEdges(pulses) = c4 BY DEF FourEdges, ThreeEdges
<1>. HIDE DEF Kept
<1>6. Kept(c1) BY <1>2 DEF Kept
<1>7. Kept(c2)
    <2>. HIDE DEF c1
    <2>. QED BY <1>2, <1>4, <1>6
<1>8. Kept(c3)
    <2>. HIDE DEF c2
    <2>. QED BY <1>2, <1>4, <1>7
<1>9. Kept(c4)
    <2>. HIDE DEF c3
    <2>. QED BY <1>2, <1>4, <1>8
<1>. HIDE DEF c1, c2, c3, c4
<1>. QED BY <1>5, <1>9 DEF Kept

\* While another level is asserted, the driver's goes and stays pending.
LEMMA DriverPends ==
    ASSUME ic \in IntState, int_ack = FALSE, ic.int_out # NoLevel, NEW pulses,
           ps2_int \/ PS2_INT \in ic.pending
    PROVE  PS2_INT \in FourEdges(pulses).pending
<1>1. \A n \in 1 .. 4, c \in IntState :
          /\ c.int_out # NoLevel => /\ Edge(n, c, pulses).int_out = c.int_out
                                    /\ c.pending \subseteq Edge(n, c, pulses).pending
          /\ c.int_out # NoLevel /\ ps2_int => PS2_INT \in Edge(n, c, pulses).pending
    <2>. SUFFICES ASSUME NEW n \in 1 .. 4, NEW c \in IntState, c.int_out # NoLevel
                  PROVE  /\ Edge(n, c, pulses).int_out = c.int_out
                         /\ c.pending \subseteq Edge(n, c, pulses).pending
                         /\ ps2_int => PS2_INT \in Edge(n, c, pulses).pending
        OBVIOUS
    <2>1. PICK I \in SUBSET Level : /\ Edge(n, c, pulses) = IntTick(c, I, FALSE)
                                    /\ ps2_int => PS2_INT \in I
        BY EdgeSees
    <2>2. /\ IntTick(c, I, FALSE).int_out = c.int_out
          /\ IntTick(c, I, FALSE).pending = c.pending \union I
        BY EdgeHolds
    <2>. QED BY <2>1, <2>2
<1>. DEFINE c1 == Edge(1, ic, pulses)
            c2 == Edge(2, c1, pulses)
            c3 == Edge(3, c2, pulses)
            c4 == Edge(4, c3, pulses)
<1>4. c1 \in IntState /\ c2 \in IntState /\ c3 \in IntState BY FourEdgesType DEF ThreeEdges
<1>5. FourEdges(pulses) = c4 BY DEF FourEdges, ThreeEdges
<1>6. c1.int_out # NoLevel /\ PS2_INT \in c1.pending BY <1>1
<1>7. c2.int_out # NoLevel /\ PS2_INT \in c2.pending
    <2>. HIDE DEF c1
    <2>. QED BY <1>1, <1>4, <1>6
<1>8. c3.int_out # NoLevel /\ PS2_INT \in c3.pending
    <2>. HIDE DEF c2
    <2>. QED BY <1>1, <1>4, <1>7
<1>9. PS2_INT \in c4.pending
    <2>. HIDE DEF c3
    <2>. QED BY <1>1, <1>4, <1>8
<1>. HIDE DEF c1, c2, c3, c4
<1>. QED BY <1>5, <1>9

\* While the driver is summoned it stays so, until its interrupt is taken and
\* it starts; and an event at a port summons it.
LEMMA SummonedStays ==
    ASSUME TypeOK, IntInv, NEW pulses \in VBlank, Rest(pulses) \/ Take(pulses) \/ Works(pulses),
           Summoned \/ \E p \in Port : port[p].recvTrigger \/ port[p].sendDone
    PROVE  Summoned' \/ hpc' = "readkbd"
<1>1. /\ ic \in IntState /\ int_ack \in BOOLEAN /\ ps2_int \in BOOLEAN
      /\ taking \in Level \union {NoLevel}
    BY DEF TypeOK, RegTypeOK
<1>2. PICK access \in Access, ack \in BOOLEAN : Hardware(access, ack, pulses)
    BY DriverTypeStep
<1>3. ic' = FourEdges(pulses) /\ int_ack' = ack /\ RegTick(access) BY <1>2 DEF Hardware, FourEdges
<1>4. CASE \E p \in Port : port[p].recvTrigger \/ port[p].sendDone
    BY <1>3, <1>4 DEF RegTick, PortInterrupt, Summoned
<1>5. CASE Acknowledge(pulses) /\ Summoned
    <2>1. CASE taking = PS2_INT BY <1>5, <2>1 DEF Acknowledge
    <2>2. CASE taking # PS2_INT
        <3>1. taking # NoLevel BY <1>5 DEF Acknowledge
        <3>2. ic.int_out = taking /\ int_ack = FALSE
            BY <1>1, <3>1 DEF IntInv, AcknowledgesItsOwn
        <3>3. ps2_int \/ PS2_INT \in ic.pending BY <1>5, <2>2, <3>2 DEF Summoned
        <3>. QED BY <1>1, <1>3, <3>1, <3>2, <3>3, DriverPends DEF Summoned
    <2>. QED BY <2>1, <2>2
<1>6. CASE ~Acknowledge(pulses) /\ Summoned
    <2>1. taking' = taking \/ taking = NoLevel
        <3>1. CASE Take(pulses) BY <3>1 DEF Take
        <3>2. CASE Rest(pulses) BY <3>2 DEF Rest, Computes
        <3>3. CASE ReturnVBlank(pulses) BY <3>3 DEF ReturnVBlank, Computes
        <3>4. CASE Handler(pulses) BY <3>4 DEF Handler, ReadRegister, Serve, Return, Computes
        <3>5. CASE Program(pulses)
            BY <3>5 DEF Program, ReadRing, Advance, WriteRing, Store, Computes
        <3>. QED BY <1>6, <3>1, <3>2, <3>3, <3>4, <3>5 DEF Works
    <2>2. int_ack' = FALSE
        <3>1. CASE Take(pulses) BY <3>1 DEF Take, Hardware
        <3>2. CASE Rest(pulses) BY <3>2 DEF Rest, Computes, Hardware
        <3>3. CASE ReturnVBlank(pulses) BY <3>3 DEF ReturnVBlank, Computes, Hardware
        <3>4. CASE Handler(pulses)
            BY <3>4 DEF Handler, ReadRegister, Serve, Return, Computes, Hardware
        <3>5. CASE Program(pulses)
            BY <3>5 DEF Program, ReadRing, Advance, WriteRing, Store, Computes, Hardware
        <3>. QED BY <1>6, <3>1, <3>2, <3>3, <3>4, <3>5 DEF Works
    <2>3. CASE taking = PS2_INT BY <2>1, <2>3 DEF Summoned, PS2_INT, NoLevel
    <2>4. CASE taking # PS2_INT
        BY <1>1, <1>3, <1>6, <2>2, <2>4, DriverRecorded DEF Summoned
    <2>. QED BY <2>3, <2>4
<1>. QED BY <1>4, <1>5, <1>6

\* What a clock does to a port's flags, whatever the CPU accesses.
LEMMA PortFlags ==
    ASSUME TypeOK, NEW access \in Access, NEW ack, NEW pulses, Hardware(access, ack, pulses),
           AnyClock = FALSE, NEW p \in Port, sendtrigger[p] => ena
    PROVE  /\ sendtrigger'[p] => ena'
           /\ Writes(access, p) => sendBusy(p)'
           /\ ~sendBusy(p) /\ ~Writes(access, p) => ~sendBusy(p)'
           /\ sendBusy(p) /\ ~sendBusy(p)' => port'[p].sendDone
           /\ recvreg'[p] => port[p].recvTrigger \/ (recvreg[p] /\ ~Reads(access, p))
<1>1. RegTypeOK /\ PortTick(sendtrigger) /\ RegTick(access) BY HardwareType DEF TypeOK
<1>2. /\ ena' = ~ena /\ port' \in [Port -> PortState]
      /\ IF ena THEN port'[p] \in PortNext(port[p], sendtrigger[p]) ELSE port'[p] = port[p]
    BY <1>1, PortsStep
<1>3. /\ sendtrigger'[p] <=> Writes(access, p)
      /\ recvreg'[p] <=> RecvFlag(access, p)
    BY <1>1, AccessFacts DEF RegTick
<1>4. Writes(access, p) => ena'
    <2>1. access = NoAccess => ~Writes(access, p) BY DEF Writes, NoAccess
    <2>. QED BY <1>2, <2>1 DEF Hardware
<1>5. port[p] \in PortState /\ sendtrigger[p] \in BOOLEAN BY <1>1 DEF RegTypeOK
<1>6. sendBusy(p) /\ ~sendBusy(p)' => port'[p].sendDone
    <2>1. ~sendBusy(p)' => ~port'[p].sendTriggerLoc BY DEF sendBusy
    <2>2. CASE ena
        <3>1. (port[p].sendTriggerLoc \/ sendtrigger[p]) /\ ~port'[p].sendTriggerLoc
                  => port'[p].sendDone
            BY <1>2, <1>5, <2>2, PortEdge
        <3>. QED BY <2>1, <3>1 DEF sendBusy
    <2>3. CASE ~ena BY <1>2, <2>1, <2>3 DEF sendBusy
    <2>. QED BY <2>2, <2>3
<1>7. port'[p].sendTriggerLoc => port[p].sendTriggerLoc \/ sendtrigger[p]
    BY <1>2, <1>5, PortEdge
<1>. QED BY <1>3, <1>4, <1>6, <1>7 DEF sendBusy, RecvFlag

\* What a step does to what a port's byte waits for: the driver goes from one
\* stage to the next, or starts, and only its own accesses touch the ports.
OutSame(p) == ring'[p].out_hw = ring[p].out_hw /\ ring'[p].out_cpu = ring[p].out_cpu
DriverMoves(access) ==
    \/ /\ access = NoAccess /\ seen' = seen
       /\ hpc' = "readkbd"
    \/ /\ access = NoAccess /\ seen' = seen
       /\ hpc' = hpc \/ (hpc = "return" /\ hpc' = "none")
       /\ \A p \in Port : OutSame(p)
    \/ \E q \in Port :
           /\ access = Read(q) /\ seen' = [seen EXCEPT ![q] = Value(q)] /\ ring' = ring
           /\ IF q = kbd THEN hpc = "readkbd" /\ hpc' = "readmouse"
              ELSE hpc = "readmouse" /\ hpc' = "kbd"
    \/ \E q \in Port :
           /\ access.kind # "read" /\ seen' = [seen EXCEPT ![q].recv = FALSE]
           /\ IF q = kbd THEN hpc = "kbd" /\ hpc' = "mouse"
              ELSE hpc = "mouse" /\ hpc' = "return"
           /\ \A p \in Port \ {q} : OutSame(p) /\ ~Writes(access, p)
           /\ ring[q].out_hw # ring[q].out_cpu /\ seen[q].cts => Writes(access, q)
           /\ ~(ring[q].out_hw # ring[q].out_cpu /\ seen[q].cts) => OutSame(q)

LEMMA ServeMoves ==
    ASSUME TypeOK, NEW q \in Port, NEW at, NEW then, NEW pulses, Serve(q, at, then, pulses),
           IF q = kbd THEN at = "kbd" /\ then = "mouse" ELSE at = "mouse" /\ then = "return"
    PROVE  \E access \in Access : DriverMoves(access) /\ Hardware(access, FALSE, pulses)
<1>. DEFINE access == IF Sends(q) THEN Write(q, ring[q].outbuf[ring[q].out_hw]) ELSE NoAccess
<1>1. ring[q] \in Ring /\ ring \in [Port -> Ring] BY DEF TypeOK
<1>2. ring[q].outbuf[ring[q].out_hw] \in Byte BY <1>1, RingFields
<1>3. access \in Access /\ Hardware(access, FALSE, pulses) /\ access.kind # "read"
    <2>1. Hardware(access, FALSE, pulses) BY DEF Serve, Computes
    <2>2. CASE Sends(q)
        <3>1. access = Write(q, ring[q].outbuf[ring[q].out_hw]) BY <2>2
        <3>. HIDE DEF access
        <3>2. access.kind = "write" BY <3>1 DEF Write
        <3>3. access \in Access BY <1>2, <3>1 DEF Access
        <3>. QED BY <2>1, <3>2, <3>3
    <2>3. CASE ~Sends(q)
        <3>1. access = NoAccess BY <2>3
        <3>. HIDE DEF access
        <3>2. access.kind = "none" BY <3>1 DEF NoAccess
        <3>3. access \in Access BY <3>1 DEF Access
        <3>. QED BY <2>1, <3>2, <3>3
    <2>. QED BY <2>2, <2>3
<1>4. /\ Sends(q) => Writes(access, q)
      /\ \A p \in Port \ {q} : ~Writes(access, p)
    BY DEF Write, Writes, NoAccess
<1>5. /\ Buffered(ring[q], seen[q]).out_hw = ring[q].out_hw
      /\ Buffered(ring[q], seen[q]).out_cpu = ring[q].out_cpu
      /\ Buffered(ring[q], seen[q]) \in Ring
    <2>1. Buffered(ring[q], seen[q]) \in Ring
        <3>1. seen[q].byte \in Byte /\ ring[q].in_hw \in 0 .. RingSize - 1
            BY <1>1, RingFields DEF TypeOK, RegValue
        <3>. QED BY <1>1, <3>1, Rounds DEF Buffered, Ring
    <2>. QED BY <1>1, <2>1 DEF Buffered, Ring
<1>6. /\ \A p \in Port \ {q} : OutSame(p)
      /\ ~Sends(q) => OutSame(q)
    <2>. DEFINE new == [Buffered(ring[q], seen[q]) EXCEPT
                           !.out_hw = IF Sends(q) THEN Next1(@) ELSE @]
    <2>1. ring' = [ring EXCEPT ![q] = new] BY <1>1 DEF Serve
    <2>2. new.out_cpu = ring[q].out_cpu BY <1>5 DEF Ring
    <2>3. ~Sends(q) => new.out_hw = ring[q].out_hw BY <1>5 DEF Ring
    <2>. HIDE DEF new
    <2>. QED BY <1>1, <2>1, <2>2, <2>3 DEF OutSame
<1>7. seen' = [seen EXCEPT ![q].recv = FALSE] /\ hpc = at /\ hpc' = then BY DEF Serve
<1>. HIDE DEF access
<1>8. DriverMoves(access) BY <1>3, <1>4, <1>6, <1>7 DEF DriverMoves, Sends
<1>. QED BY <1>3, <1>8

LEMMA StepMoves ==
    ASSUME TypeOK, NEW pulses \in VBlank, Rest(pulses) \/ Take(pulses) \/ Works(pulses)
    PROVE  \E access \in Access, ack \in BOOLEAN :
               DriverMoves(access) /\ Hardware(access, ack, pulses)
<1>1. NoAccess \in Access BY DEF Access
<1>2. CASE Rest(pulses) BY <1>1, <1>2 DEF Rest, Computes, DriverMoves, OutSame
<1>3. CASE Take(pulses) BY <1>1, <1>3 DEF Take, DriverMoves, OutSame
<1>4. CASE ReturnVBlank(pulses) BY <1>1, <1>4 DEF ReturnVBlank, Computes, DriverMoves, OutSame
<1>5. CASE Acknowledge(pulses) BY <1>1, <1>5 DEF Acknowledge, DriverMoves, OutSame
<1>6. CASE Handler(pulses)
    <2>1. ASSUME NEW q \in Port, NEW at, NEW then, ReadRegister(q, at, then, pulses),
                 IF q = kbd THEN at = "readkbd" /\ then = "readmouse"
                 ELSE at = "readmouse" /\ then = "kbd"
          PROVE  \E access \in Access, ack \in BOOLEAN :
                     DriverMoves(access) /\ Hardware(access, ack, pulses)
        <3>1. Read(q) \in Access BY DEF Access
        <3>2. Hardware(Read(q), FALSE, pulses) BY <2>1 DEF ReadRegister, Computes
        <3>3. DriverMoves(Read(q)) BY <2>1 DEF ReadRegister, DriverMoves
        <3>. QED BY <3>1, <3>2, <3>3
    <2>2. CASE Return(pulses) BY <1>1, <2>2 DEF Return, Computes, DriverMoves, OutSame
    <2>3. kbd \in Port /\ mouse \in Port /\ mouse # kbd BY DriverAssumption
    <2>4. CASE ReadRegister(kbd, "readkbd", "readmouse", pulses) BY <2>1, <2>3, <2>4
    <2>5. CASE ReadRegister(mouse, "readmouse", "kbd", pulses) BY <2>1, <2>3, <2>5
    <2>6. CASE Serve(kbd, "kbd", "mouse", pulses) BY ServeMoves, <2>3, <2>6
    <2>7. CASE Serve(mouse, "mouse", "return", pulses) BY ServeMoves, <2>3, <2>7
    <2>. QED BY <1>6, <2>2, <2>4, <2>5, <2>6, <2>7 DEF Handler
<1>7. CASE Program(pulses)
    <2>1. ASSUME NEW p, ReadRing(p, pulses) \/ WriteRing(p, pulses)
          PROVE  DriverMoves(NoAccess) /\ Hardware(NoAccess, FALSE, pulses)
        BY <2>1 DEF ReadRing, WriteRing, Computes, DriverMoves, OutSame
    <2>2. CASE Advance(pulses)
        <3>1. \A p \in Port : OutSame(p) BY <2>2, RingFields DEF Advance, OutSame, TypeOK, Ring
        <3>. QED BY <1>1, <2>2, <3>1 DEF Advance, Computes, DriverMoves
    <2>3. CASE Store(pulses) BY <1>1, <2>3 DEF Store, Computes, DriverMoves
    <2>. QED BY <1>1, <1>7, <2>1, <2>2, <2>3 DEF Program
<1>. QED BY <1>2, <1>3, <1>4, <1>5, <1>6, <1>7 DEF Works

\* The first conjunct of WakeInv, and the second: a received byte whose
\* interrupt has been used up is about to be read.
LEMMA WakeReceived ==
    ASSUME TypeOK, AnyClock = FALSE, WakeInv,
           NEW access \in Access, NEW ack, NEW pulses, Hardware(access, ack, pulses),
           DriverMoves(access), NEW p \in Port, recvreg'[p],
           Summoned \/ (\E q \in Port : port[q].recvTrigger \/ port[q].sendDone) =>
               Summoned' \/ hpc' = "readkbd"
    PROVE  Summoned' \/ hpc' \in Reading(p)
<1>1. CASE port[p].recvTrigger BY <1>1 DEF Reading
<1>2. CASE ~port[p].recvTrigger /\ ~(hpc' = "readkbd")
    <2>1. recvreg[p] /\ ~Reads(access, p) BY <1>2, PortFlags DEF WakeInv
    <2>2. Summoned \/ hpc \in Reading(p) BY <1>2, <2>1 DEF WakeInv
    <2>3. CASE Summoned BY <1>2, <2>3
    <2>4. CASE hpc \in Reading(p)
        <3>1. Reads(Read(p), p) BY DEF Reads, Read
        <3>2. kbd # mouse /\ Port = {kbd, mouse} BY DriverAssumption
        <3>3. ASSUME NEW q \in Port, access = Read(q),
                     IF q = kbd THEN hpc = "readkbd" /\ hpc' = "readmouse"
                     ELSE hpc = "readmouse" /\ hpc' = "kbd"
              PROVE  hpc' \in Reading(p)
            <4>1. q # p BY <2>1, <3>1, <3>3
            <4>. QED BY <2>4, <3>2, <3>3, <4>1 DEF Reading
        <3>4. hpc \in {"readkbd", "readmouse"} BY <2>4 DEF Reading
        <3>. QED BY <1>2, <2>4, <3>3, <3>4 DEF DriverMoves
    <2>. QED BY <2>2, <2>3, <2>4
<1>. QED BY <1>1, <1>2 DEF Reading

\* The fourth: a driver that found the port busy is told when it becomes free,
\* also when that happens before it has served the port.
LEMMA WakeBusy ==
    ASSUME TypeOK, AnyClock = FALSE, WakeInv,
           NEW access \in Access, NEW ack, NEW pulses, Hardware(access, ack, pulses),
           DriverMoves(access), NEW p \in Port,
           hpc' \in Holding(p), ~seen'[p].cts, ~sendBusy(p)',
           Summoned \/ (\E q \in Port : port[q].recvTrigger \/ port[q].sendDone) =>
               Summoned' \/ hpc' = "readkbd"
    PROVE  Summoned' \/ port'[p].sendDone
<1>1. CASE sendBusy(p) BY <1>1, PortFlags DEF WakeInv
<1>2. CASE ~sendBusy(p)
    <2>1. hpc' # "readkbd" BY DEF Holding
    <2>2. hpc \in Holding(p) /\ ~seen[p].cts
        <3>1. seen \in [Port -> RegValue] BY DEF TypeOK
        <3>2. Value(p).cts BY <1>2 DEF Value
        <3>3. kbd # mouse /\ Port = {kbd, mouse} BY DriverAssumption
        <3>4. CASE \E q \in Port : /\ seen' = [seen EXCEPT ![q] = Value(q)]
                                   /\ IF q = kbd THEN hpc = "readkbd" /\ hpc' = "readmouse"
                                      ELSE hpc = "readmouse" /\ hpc' = "kbd"
            <4>1. PICK q \in Port : /\ seen' = [seen EXCEPT ![q] = Value(q)]
                                    /\ IF q = kbd THEN hpc = "readkbd" /\ hpc' = "readmouse"
                                       ELSE hpc = "readmouse" /\ hpc' = "kbd"
                BY <3>4
            <4>2. q # p BY <3>1, <3>2, <4>1
            <4>3. seen'[p] = seen[p] BY <3>1, <4>1, <4>2
            <4>. QED BY <3>3, <4>1, <4>2, <4>3 DEF Holding
        <3>5. CASE \E q \in Port : /\ seen' = [seen EXCEPT ![q].recv = FALSE]
                                   /\ IF q = kbd THEN hpc = "kbd" /\ hpc' = "mouse"
                                      ELSE hpc = "mouse" /\ hpc' = "return"
            <4>1. PICK q \in Port : /\ seen' = [seen EXCEPT ![q].recv = FALSE]
                                    /\ IF q = kbd THEN hpc = "kbd" /\ hpc' = "mouse"
                                       ELSE hpc = "mouse" /\ hpc' = "return"
                BY <3>5
            <4>2. seen'[p].cts = seen[p].cts BY <3>1, <4>1 DEF RegValue
            <4>. QED BY <3>3, <4>1, <4>2 DEF Holding
        <3>6. CASE seen' = seen /\ (hpc' = hpc \/ hpc' = "none")
            BY <3>6 DEF Holding
        <3>. QED BY <2>1, <3>4, <3>5, <3>6 DEF DriverMoves
    <2>. QED BY <1>2, <2>1, <2>2 DEF WakeInv
<1>. QED BY <1>1, <1>2

\* The third: a byte that waits for a free port has the driver on its way.
LEMMA WakeToSend ==
    ASSUME TypeOK, AnyClock = FALSE, WakeInv,
           NEW access \in Access, NEW ack, NEW pulses, Hardware(access, ack, pulses),
           DriverMoves(access), NEW p \in Port,
           ring'[p].out_hw # ring'[p].out_cpu, ~sendBusy(p)',
           Summoned \/ (\E q \in Port : port[q].recvTrigger \/ port[q].sendDone) =>
               Summoned' \/ hpc' = "readkbd"
    PROVE  Summoned' \/ port'[p].sendDone \/ hpc' \in Serving(p)
<1>1. CASE sendBusy(p) BY <1>1, PortFlags DEF WakeInv
<1>2. CASE hpc' = "readkbd" BY <1>2 DEF Serving, Reading
<1>3. CASE ~sendBusy(p) /\ hpc' # "readkbd"
    <2>1. ~Writes(access, p) BY PortFlags DEF WakeInv
    <2>2. OutSame(p) BY <1>3, <2>1 DEF DriverMoves, OutSame
    <2>3. Summoned \/ port[p].sendDone \/ hpc \in Serving(p)
        BY <1>3, <2>2 DEF WakeInv, OutSame
    <2>4. CASE Summoned \/ port[p].sendDone BY <1>3, <2>4
    <2>5. CASE hpc \in Serving(p) /\ ~(Summoned \/ port[p].sendDone)
        <3>1. kbd # mouse /\ Port = {kbd, mouse} BY DriverAssumption
        <3>2. hpc \in Holding(p) => seen[p].cts BY <1>3, <2>5 DEF WakeInv
        <3>3. ASSUME NEW q \in Port, q = p,
                     IF q = kbd THEN hpc = "kbd" /\ hpc' = "mouse"
                     ELSE hpc = "mouse" /\ hpc' = "return",
                     ring[q].out_hw # ring[q].out_cpu /\ seen[q].cts => Writes(access, q)
              PROVE  FALSE
            BY <2>1, <2>2, <3>1, <3>2, <3>3 DEF OutSame, Holding
        <3>. QED BY <1>3, <2>5, <3>1, <3>3 DEF DriverMoves, Serving, Holding, Reading
    <2>. QED BY <2>3, <2>4, <2>5
<1>. QED BY <1>1, <1>2, <1>3

LEMMA WakeInit == Init => WakeInv
<1>. SUFFICES ASSUME Init PROVE WakeInv
    OBVIOUS
<1>1. \A p \in Port : ~sendtrigger[p] /\ ~recvreg[p] /\ ring[p].out_hw = ring[p].out_cpu
    BY DEF Init, RegInit, EmptyRing
<1>2. \A p \in Port : hpc \notin Holding(p) BY DEF Init, Holding
<1>. QED BY <1>1, <1>2 DEF WakeInv

LEMMA WakeStep ==
    AnyClock = FALSE /\ TypeOK /\ IntInv /\ WakeInv /\ [Next]_vars => WakeInv'
<1>. SUFFICES ASSUME AnyClock = FALSE, TypeOK, IntInv, WakeInv, [Next]_vars PROVE WakeInv'
    OBVIOUS
<1>1. CASE UNCHANGED vars
    BY <1>1 DEF vars, cpuVars, history, regVars, WakeInv, Summoned, sendBusy
<1>2. CASE Next
    <2>1. PICK pulses \in VBlank : Rest(pulses) \/ Take(pulses) \/ Works(pulses)
        BY <1>2 DEF Next
    <2>2. PICK access \in Access, ack \in BOOLEAN :
              DriverMoves(access) /\ Hardware(access, ack, pulses)
        BY <2>1, StepMoves
    <2>3. Summoned \/ (\E q \in Port : port[q].recvTrigger \/ port[q].sendDone) =>
              Summoned' \/ hpc' = "readkbd"
        BY <2>1, SummonedStays
    <2>4. ASSUME NEW p \in Port
          PROVE  /\ sendtrigger'[p] => ena'
                 /\ recvreg'[p] => Summoned' \/ hpc' \in Reading(p)
                 /\ ring'[p].out_hw # ring'[p].out_cpu /\ ~sendBusy(p)' =>
                        Summoned' \/ port'[p].sendDone \/ hpc' \in Serving(p)
                 /\ hpc' \in Holding(p) /\ ~seen'[p].cts /\ ~sendBusy(p)' =>
                        Summoned' \/ port'[p].sendDone
        BY <2>2, <2>3, PortFlags, WakeReceived, WakeBusy, WakeToSend DEF WakeInv
    <2>. QED BY <2>4 DEF WakeInv
<1>. QED BY <1>1, <1>2

\* No byte waits, in a register or in a ring, for a driver that nothing will
\* start: whatever the order of the events of two ports, of the vertical blank,
\* of the driver's reads and writes and of its second use with interrupts
\* disabled (ps2.c, lines 19-80).
THEOREM NeverStranded ==
    ASSUME AnyClock = FALSE
    PROVE  Spec => []NothingStranded
<1>. USE DEF Spec
<1>1. Init => TypeOK /\ IntInv /\ WakeInv BY TypeInit, IntInvInit, WakeInit
<1>2. TypeOK /\ IntInv /\ WakeInv /\ [Next]_vars => (TypeOK /\ IntInv /\ WakeInv)'
    BY TypeStep, IntInvStep, WakeStep
<1>3. WakeInv => NothingStranded
    <2>1. Port = {kbd, mouse} BY DriverAssumption
    <2>. QED BY <2>1 DEF WakeInv, NothingStranded, Reading, Holding, Serving
<1>. QED BY <1>1, <1>2, <1>3, PTL

-----------------------------------------------------------------------------
(* Every byte arrives once and in order.                                   *)

\* The handlers nest in the order of their levels, and the driver is in one
\* place at most: in its interrupt's handler, or called by the program with
\* interrupts disabled.
Sources == {VBLANK, PS2_INT}
InDriver == {<<PS2_INT>>, <<PS2_INT, VBLANK>>}
NestInv ==
    /\ ic.pending \subseteq Sources /\ ic.int_out \in Sources \union {NoLevel}
    /\ stack \in {<<>>, <<VBLANK>>} \union InDriver
    /\ taking # NoLevel => taking > Mask
    /\ sr = 7 <=> mpc = "handler"
    /\ mpc = "handler" => stack = <<>> /\ taking = NoLevel
    /\ hpc # "none" <=> (mpc = "handler" \/ stack \in InDriver)

\* The flags of a port between two edges with its clock enable high.
FlagInv ==
    \A p \in Port :
        /\ sendtrigger[p] => ena
        /\ port[p].recvTrigger \/ port[p].sendDone => port[p].com = "idle"
        /\ port[p].com = "send" => port[p].sendTriggerLoc
        /\ port[p].recvTrigger /\ ~ena => ~recvreg[p]

\* What the driver has read is what it will still find.
HandInv ==
    \A p \in Port :
        /\ seen[p].recv => hpc \in Holding(p)
        /\ hpc \in Holding(p) /\ seen[p].cts => ~sendBusy(p)

\* Sums and differences of indices, and of byte numbers, without a modulus.
Ahead(a, i) == IF a + i < RingSize THEN a + i ELSE a + i - RingSize
Distance(a, b) == IF a >= b THEN a - b ELSE a - b + RingSize
Later(b, i) == IF b + i < Bytes THEN b + i ELSE b + i - Bytes
Bit(b) == IF b THEN 1 ELSE 0

\* The bytes in a ring, then the one in the driver's hands, then the one in the
\* register are numbered from first on.
InOrder(r, hand, handByte, waits, last, first) ==
    LET n == Distance(r.in_hw, r.in_cpu)
    IN  /\ n + Bit(hand) + Bit(waits) < RingSize
        /\ \A i \in 0 .. n - 1 : r.inbuf[Ahead(r.in_cpu, i)] = Later(first, i)
        /\ hand => handByte = Later(first, n)
        /\ Later(last, 1) = Later(first, n + Bit(hand) + Bit(waits))

\* The byte at the port, then the ones in the ring are numbered from first on.
OutOrder(r, busy, byte, last, first) ==
    LET n == Distance(r.out_cpu, r.out_hw)
    IN  /\ busy => byte = first
        /\ \A i \in 0 .. n - 1 : r.outbuf[Ahead(r.out_hw, i)] = Later(first, Bit(busy) + i)
        /\ Later(last, 1) = Later(first, Bit(busy) + n)

\* The program has read the first byte of its ring and not yet advanced.
Advances(p) == mpc = "result" /\ which = p
Waits(p) == recvreg[p] \/ port[p].recvTrigger
First(p) == IF Advances(p) THEN got[p] ELSE Later(got[p], 1)
Ordered(p) ==
    /\ InOrder(ring[p], seen[p].recv, seen[p].byte, Waits(p), recvByte[p], First(p))
    /\ OutOrder(ring[p], sendBusy(p), sendbyte[p], sent[p], Later(taken[p], 1))
ByteInv ==
    /\ \A p \in Port : Ordered(p)
    /\ mpc = "result" => ring[which].in_hw # ring[which].in_cpu
    /\ mpc = "store" => Distance(ring[which].out_cpu, ring[which].out_hw) < RingSize - 1

\* A modulus that is a constant behaves as its remainders do.
LEMMA Remainders ==
    ASSUME NEW n \in Nat, n > 0, NEW a \in 0 .. n - 1
    PROVE  /\ \A i \in 0 .. n : (a + i) % n = IF a + i < n THEN a + i ELSE a + i - n
           /\ \A b \in 0 .. n - 1 : (a - b) % n = IF a >= b THEN a - b ELSE a - b + n
<1>1. \A x \in 0 .. n - 1 : x % n = x OBVIOUS
<1>2. \A x \in n .. 2 * n - 1 : x % n = x - n OBVIOUS
<1>3. \A x \in (-n) .. (-1) : x % n = x + n OBVIOUS
<1>4. ASSUME NEW i \in 0 .. n
      PROVE  (a + i) % n = IF a + i < n THEN a + i ELSE a + i - n
    <2>1. CASE a + i < n
        <3>1. a + i \in 0 .. n - 1 BY <2>1
        <3>2. (a + i) % n = a + i BY <1>1, <3>1
        <3>. QED BY <2>1, <3>2
    <2>2. CASE ~(a + i < n)
        <3>1. a + i \in n .. 2 * n - 1 BY <2>2
        <3>2. (a + i) % n = a + i - n BY <1>2, <3>1
        <3>. QED BY <2>2, <3>2
    <2>. QED BY <2>1, <2>2
<1>5. ASSUME NEW b \in 0 .. n - 1
      PROVE  (a - b) % n = IF a >= b THEN a - b ELSE a - b + n
    <2>1. CASE a >= b
        <3>1. a - b \in 0 .. n - 1 BY <2>1
        <3>2. (a - b) % n = a - b BY <1>1, <3>1
        <3>. QED BY <2>1, <3>2
    <2>2. CASE ~(a >= b)
        <3>1. a - b \in (-n) .. (-1) BY <2>2
        <3>2. (a - b) % n = a - b + n BY <1>3, <3>1
        <3>. QED BY <2>2, <3>2
    <2>. QED BY <2>1, <2>2
<1>. QED BY <1>4, <1>5

LEMMA Sizes == RingSize \in Nat /\ RingSize > 1 /\ Bytes \in Nat /\ Bytes >= RingSize
BY DriverAssumption

\* So a ring's indices and the byte numbers can be reckoned with.
Index == 0 .. RingSize - 1
LEMMA Reckoning ==
    /\ RingSize \in Nat /\ RingSize > 1 /\ Bytes \in Nat /\ Bytes >= RingSize
    /\ \A a \in Index, i \in 0 .. RingSize : (a + i) % RingSize = Ahead(a, i)
    /\ \A a, b \in Index : (a - b) % RingSize = Distance(a, b)
    /\ \A a \in Index : Next1(a) = Ahead(a, 1)
    /\ \A b \in Byte, i \in 0 .. Bytes : (b + i) % Bytes = Later(b, i)
    /\ \A b \in Byte : Succ(b) = Later(b, 1)
<1>1. RingSize \in Nat /\ RingSize > 1 /\ Bytes \in Nat /\ Bytes >= RingSize /\ Bytes > 0
    BY DriverAssumption
<1>2. \A a \in Index, i \in 0 .. RingSize : (a + i) % RingSize = Ahead(a, i)
    BY <1>1, Remainders DEF Index, Ahead
<1>3. \A a, b \in Index : (a - b) % RingSize = Distance(a, b)
    BY <1>1, Remainders DEF Index, Distance
<1>4. \A b \in Byte, i \in 0 .. Bytes : (b + i) % Bytes = Later(b, i)
    BY <1>1, Remainders DEF Byte, Later
<1>5. \A a \in Index : Next1(a) = Ahead(a, 1) BY <1>1, <1>2 DEF Next1
<1>6. \A b \in Byte : Succ(b) = Later(b, 1) BY <1>1, <1>4 DEF Succ
<1>. QED BY <1>1, <1>2, <1>3, <1>4, <1>5, <1>6

LEMMA RingIndices ==
    ASSUME NEW r \in Ring
    PROVE  /\ r.in_hw \in Index /\ r.in_cpu \in Index /\ r.out_hw \in Index /\ r.out_cpu \in Index
           /\ \A i \in Index : r.inbuf[i] \in Byte /\ r.outbuf[i] \in Byte
           /\ InCount(r) = Distance(r.in_hw, r.in_cpu)
           /\ OutCount(r) = Distance(r.out_cpu, r.out_hw)
  BY RingFields, Reckoning DEF Index, InCount, OutCount

\* How far an index is ahead of another, as each of them advances.
LEMMA Distances ==
    ASSUME NEW a \in Index, NEW b \in Index
    PROVE  /\ Distance(a, b) \in Index
           /\ a # b => Distance(a, b) >= 1 /\ Distance(a, Ahead(b, 1)) = Distance(a, b) - 1
           /\ Distance(a, b) < RingSize - 1 => Distance(Ahead(a, 1), b) = Distance(a, b) + 1
           /\ Ahead(b, Distance(a, b)) = a
<1>1. a \in 0 .. RingSize - 1 /\ b \in 0 .. RingSize - 1 /\ RingSize \in Nat /\ RingSize > 1
    BY Sizes DEF Index
<1>2. Distance(a, b) \in Index BY <1>1 DEF Distance, Index
<1>3. a # b => Distance(a, b) >= 1 BY <1>1 DEF Distance
<1>4. a # b => Distance(a, Ahead(b, 1)) = Distance(a, b) - 1
    <2>1. CASE b + 1 < RingSize
        <3>1. Ahead(b, 1) = b + 1 BY <1>1, <2>1 DEF Ahead
        <3>. QED BY <1>1, <3>1 DEF Distance
    <2>2. CASE b = RingSize - 1
        <3>1. Ahead(b, 1) = 0 BY <1>1, <2>2 DEF Ahead
        <3>. QED BY <1>1, <2>2, <3>1 DEF Distance
    <2>. QED BY <1>1, <2>1, <2>2
<1>5. Distance(a, b) < RingSize - 1 => Distance(Ahead(a, 1), b) = Distance(a, b) + 1
    <2>1. CASE a + 1 < RingSize
        <3>1. Ahead(a, 1) = a + 1 BY <1>1, <2>1 DEF Ahead
        <3>. QED BY <1>1, <3>1 DEF Distance
    <2>2. CASE a = RingSize - 1
        <3>1. Ahead(a, 1) = 0 BY <1>1, <2>2 DEF Ahead
        <3>. QED BY <1>1, <2>2, <3>1 DEF Distance
    <2>. QED BY <1>1, <2>1, <2>2
<1>6. Ahead(b, Distance(a, b)) = a BY <1>1 DEF Ahead, Distance
<1>. QED BY <1>2, <1>3, <1>4, <1>5, <1>6

LEMMA Aheads ==
    ASSUME NEW b \in Index, NEW i \in Index
    PROVE  /\ Ahead(b, i) \in Index
           /\ i < RingSize - 1 => Ahead(Ahead(b, 1), i) = Ahead(b, i + 1)
           /\ \A j \in Index : j # i => Ahead(b, j) # Ahead(b, i)
<1>1. b \in 0 .. RingSize - 1 /\ i \in 0 .. RingSize - 1 /\ RingSize \in Nat /\ RingSize > 1
    BY Sizes DEF Index
<1>2. i < RingSize - 1 => Ahead(Ahead(b, 1), i) = Ahead(b, i + 1)
    <2>1. CASE b + 1 < RingSize
        <3>1. Ahead(b, 1) = b + 1 BY <1>1, <2>1 DEF Ahead
        <3>. QED BY <1>1, <3>1 DEF Ahead
    <2>2. CASE b = RingSize - 1
        <3>1. Ahead(b, 1) = 0 BY <1>1, <2>2 DEF Ahead
        <3>. QED BY <1>1, <2>2, <3>1 DEF Ahead
    <2>. QED BY <1>1, <2>1, <2>2
<1>3. Ahead(b, i) \in Index BY <1>1 DEF Ahead, Index
<1>4. \A j \in Index : j # i => Ahead(b, j) # Ahead(b, i) BY <1>1 DEF Ahead, Index
<1>. QED BY <1>2, <1>3, <1>4

\* Byte numbers likewise.
LEMMA Laters ==
    ASSUME NEW b \in Byte, NEW i \in 0 .. Bytes - 1
    PROVE  /\ Later(b, i) \in Byte
           /\ Later(Later(b, 1), i) = Later(b, i + 1) /\ Later(Later(b, i), 1) = Later(b, i + 1)
           /\ \A c \in Byte : Later(b, i) = Later(c, i) => b = c
<1>1. b \in 0 .. Bytes - 1 /\ Bytes \in Nat /\ Bytes > 1
    BY Sizes DEF Byte
<1>2. Later(Later(b, 1), i) = Later(b, i + 1) /\ Later(Later(b, i), 1) = Later(b, i + 1)
    <2>1. CASE b + i + 1 < Bytes BY <1>1, <2>1 DEF Later
    <2>2. CASE b + i + 1 >= Bytes BY <1>1, <2>2 DEF Later
    <2>. QED BY <1>1, <2>1, <2>2
<1>3. Later(b, i) \in Byte BY <1>1 DEF Later, Byte
<1>4. \A c \in Byte : Later(b, i) = Later(c, i) => b = c BY <1>1 DEF Later, Byte
<1>. QED BY <1>2, <1>3, <1>4

\* A byte that arrives in the register comes after all others.
LEMMA InArrives ==
    ASSUME NEW r \in Ring, NEW x, NEW y, NEW last \in Byte, NEW first \in Byte,
           InOrder(r, FALSE, x, FALSE, last, first),
           Distance(r.in_hw, r.in_cpu) < RingSize - 1
    PROVE  InOrder(r, FALSE, y, TRUE, Later(last, 1), first)
<1>1. /\ r.in_hw \in 0 .. RingSize - 1 /\ r.in_cpu \in 0 .. RingSize - 1
      /\ last \in 0 .. Bytes - 1 /\ first \in 0 .. Bytes - 1
    BY RingIndices DEF Index, Byte
<1>. DEFINE n == Distance(r.in_hw, r.in_cpu)
<1>2. n \in 0 .. RingSize - 2 BY <1>1, Sizes DEF Distance
<1>3. Later(last, 1) = Later(first, n) BY <1>2 DEF InOrder, Bit
<1>. HIDE DEF n
<1>4. Later(Later(first, n), 1) = Later(first, n + 1) BY <1>1, <1>2, Sizes DEF Later
<1>. QED BY <1>1, <1>2, <1>3, <1>4, Sizes DEF InOrder, Bit, n

\* The driver takes the byte from the register.
LEMMA InRead ==
    ASSUME NEW r, NEW x, NEW last, NEW first \in Byte, r \in Ring, last \in Byte,
           InOrder(r, FALSE, x, TRUE, last, first)
    PROVE  InOrder(r, TRUE, last, FALSE, last, first)
<1>1. /\ r.in_hw \in 0 .. RingSize - 1 /\ r.in_cpu \in 0 .. RingSize - 1
      /\ last \in 0 .. Bytes - 1 /\ first \in 0 .. Bytes - 1
    BY RingIndices DEF Index, Byte
<1>. DEFINE n == Distance(r.in_hw, r.in_cpu)
<1>2. n \in 0 .. RingSize - 2
    BY <1>1, Sizes DEF Distance, InOrder, Bit
<1>3. Later(last, 1) = Later(first, n + 1) BY <1>2 DEF InOrder, Bit
<1>. HIDE DEF n
<1>4. last = Later(first, n) BY <1>1, <1>2, <1>3, Sizes DEF Later
<1>5. /\ \A i \in 0 .. n - 1 : r.inbuf[Ahead(r.in_cpu, i)] = Later(first, i)
      /\ n + 1 + 0 = n + 1 /\ n + 1 < RingSize
    BY <1>2, Sizes DEF InOrder, n
<1>. QED BY <1>2, <1>3, <1>4, <1>5 DEF InOrder, Bit, n

\* It appends the byte to the ring.
LEMMA InAppends ==
    ASSUME NEW r \in Ring, NEW x \in Byte, NEW y, NEW waits, NEW last, NEW first, NEW s \in Ring,
           InOrder(r, TRUE, x, waits, last, first), waits \in BOOLEAN,
           s.inbuf = [r.inbuf EXCEPT ![r.in_hw] = x], s.in_hw = Next1(r.in_hw), s.in_cpu = r.in_cpu
    PROVE  InOrder(s, FALSE, y, waits, last, first)
<1>1. /\ r.in_hw \in 0 .. RingSize - 1 /\ r.in_cpu \in 0 .. RingSize - 1
      /\ r.inbuf \in [0 .. RingSize - 1 -> Byte]
    BY RingFields
<1>2. r.in_hw \in Index /\ r.in_cpu \in Index /\ s.in_hw = Ahead(r.in_hw, 1) BY <1>1, Reckoning DEF Index
<1>. DEFINE n == Distance(r.in_hw, r.in_cpu)
<1>3. n \in 0 .. RingSize - 2 /\ n + 1 + Bit(waits) < RingSize
    BY <1>1, Sizes DEF Distance, InOrder, Bit
<1>4. Distance(s.in_hw, s.in_cpu) = n + 1 BY <1>2, <1>3, Distances, Sizes
<1>5. ASSUME NEW i \in 0 .. n
      PROVE  s.inbuf[Ahead(s.in_cpu, i)] = Later(first, i)
    <2>1. Ahead(r.in_cpu, i) \in 0 .. RingSize - 1
        <3>1. i \in Index BY <1>3, Sizes DEF Index
        <3>2. Ahead(r.in_cpu, i) \in Index BY <1>2, <3>1, Aheads
        <3>. QED BY <3>2 DEF Index
    <2>2. CASE i = n
        <3>1. Ahead(r.in_cpu, n) = r.in_hw BY <1>2, Distances
        <3>2. x = Later(first, n) BY DEF InOrder
        <3>3. s.inbuf[r.in_hw] = x BY <1>1
        <3>. HIDE DEF n
        <3>. QED BY <2>2, <3>1, <3>2, <3>3
    <2>3. CASE i # n
        <3>1. Ahead(r.in_cpu, i) # r.in_hw
            <4>1. i \in Index /\ n \in Index BY <1>3, Sizes DEF Index
            <4>2. Ahead(r.in_cpu, n) = r.in_hw BY <1>2, Distances
            <4>. HIDE DEF n
            <4>3. \A j \in Index : j # n => Ahead(r.in_cpu, j) # Ahead(r.in_cpu, n)
                BY <1>2, <4>1, Aheads
            <4>. QED BY <2>3, <4>1, <4>2, <4>3
        <3>2. i \in 0 .. n - 1 BY <1>3, <2>3
        <3>3. r.inbuf[Ahead(r.in_cpu, i)] = Later(first, i) BY <3>2 DEF InOrder
        <3>. QED BY <1>1, <2>1, <3>1, <3>3
    <2>. QED BY <2>2, <2>3
<1>6. /\ Later(last, 1) = Later(first, n + 1 + Bit(waits))
      /\ Bit(TRUE) = 1 /\ Bit(FALSE) = 0 /\ Bit(waits) \in {0, 1}
    BY DEF InOrder, Bit
<1>. HIDE DEF n
<1>. DEFINE m == Distance(s.in_hw, s.in_cpu)
<1>7. /\ m + Bit(FALSE) + Bit(waits) < RingSize
      /\ Later(last, 1) = Later(first, m + Bit(FALSE) + Bit(waits))
      /\ 0 .. m - 1 = 0 .. n
    <2>1. m = n + 1 /\ n \in Nat BY <1>3, <1>4
    <2>. HIDE DEF m
    <2>2. m - 1 = n /\ m + 0 + Bit(waits) = n + 1 + Bit(waits) BY <2>1, <1>6
    <2>. QED BY <1>3, <1>6, <2>2
<1>. QED BY <1>5, <1>7 DEF InOrder

\* The program takes the first byte off the ring.
LEMMA InAdvances ==
    ASSUME NEW r \in Ring, NEW hand \in BOOLEAN, NEW x, NEW waits \in BOOLEAN, NEW last,
           NEW first \in Byte, NEW s \in Ring, InOrder(r, hand, x, waits, last, first),
           s.inbuf = r.inbuf, s.in_hw = r.in_hw, s.in_cpu = Next1(r.in_cpu), r.in_hw # r.in_cpu
    PROVE  InOrder(s, hand, x, waits, last, Later(first, 1))
<1>1. /\ r.in_hw \in 0 .. RingSize - 1 /\ r.in_cpu \in 0 .. RingSize - 1
      /\ r.inbuf \in [0 .. RingSize - 1 -> Byte] /\ first \in 0 .. Bytes - 1
    BY RingFields DEF Byte
<1>2. /\ r.in_hw \in Index /\ r.in_cpu \in Index /\ s.in_cpu = Ahead(r.in_cpu, 1)
      /\ first \in Byte
    BY <1>1, Reckoning DEF Index
<1>. DEFINE n == Distance(r.in_hw, r.in_cpu)
<1>3. n \in 1 .. RingSize - 1 /\ n + Bit(hand) + Bit(waits) < RingSize
    <2>1. n \in 1 .. RingSize - 1 BY <1>1, Sizes DEF Distance
    <2>. QED BY <2>1 DEF InOrder
<1>10. n \in 1 .. RingSize - 1 BY <1>3
<1>4. Distance(s.in_hw, s.in_cpu) = n - 1
    BY <1>2, Distances
<1>5. ASSUME NEW i \in 0 .. n - 2
      PROVE  s.inbuf[Ahead(s.in_cpu, i)] = Later(Later(first, 1), i)
    <2>1. Ahead(s.in_cpu, i) = Ahead(r.in_cpu, i + 1)
        <3>1. i \in Index /\ i < RingSize - 1 BY <1>10, Sizes DEF Index
        <3>2. Ahead(Ahead(r.in_cpu, 1), i) = Ahead(r.in_cpu, i + 1)
            BY <1>2, <3>1, Aheads DEF Index
        <3>. QED BY <1>2, <3>2
    <2>2. Later(Later(first, 1), i) = Later(first, i + 1)
        <3>1. i \in 0 .. Bytes - 1 BY <1>10, Sizes
        <3>. QED BY <1>2, <3>1, Laters
    <2>3. i + 1 \in 0 .. n - 1 BY <1>3
    <2>. QED BY <2>1, <2>2, <2>3 DEF InOrder
<1>6. /\ Later(last, 1) = Later(first, n + Bit(hand) + Bit(waits))
      /\ hand => x = Later(first, n)
      /\ Bit(hand) \in {0, 1} /\ Bit(waits) \in {0, 1}
    BY DEF InOrder, Bit
<1>. HIDE DEF n
<1>7. Later(first, n + Bit(hand) + Bit(waits)) = Later(Later(first, 1), n - 1 + Bit(hand) + Bit(waits))
    <2>. DEFINE j == n - 1 + Bit(hand) + Bit(waits)
    <2>1. j \in 0 .. RingSize - 2 /\ n + Bit(hand) + Bit(waits) = j + 1
        BY <1>3, <1>6, Sizes
    <2>. HIDE DEF j
    <2>2. Later(first, j + 1) = Later(Later(first, 1), j)
        BY <1>1, <2>1, Sizes DEF Later
    <2>. QED BY <2>1, <2>2 DEF j
<1>8. Later(first, n) = Later(Later(first, 1), n - 1) BY <1>1, <1>3, Sizes DEF Later
<1>9. n - 1 - 1 = n - 2 /\ n - 1 + Bit(hand) + Bit(waits) < RingSize
    BY <1>3, <1>6, Sizes
<1>. QED BY <1>4, <1>5, <1>6, <1>7, <1>8, <1>9 DEF InOrder

\* The device takes the byte at the port.
LEMMA OutTaken ==
    ASSUME NEW r \in Ring, NEW x, NEW y, NEW last, NEW first \in Byte,
           OutOrder(r, TRUE, x, last, first)
    PROVE  OutOrder(r, FALSE, y, last, Later(first, 1))
<1>1. r.out_hw \in Index /\ r.out_cpu \in Index BY RingIndices
<1>. DEFINE n == Distance(r.out_cpu, r.out_hw)
<1>2. n \in 0 .. RingSize - 1 BY <1>1, Distances DEF Index
<1>3. /\ \A i \in 0 .. n - 1 : r.outbuf[Ahead(r.out_hw, i)] = Later(first, 1 + i)
      /\ Later(last, 1) = Later(first, 1 + n)
    BY DEF OutOrder, Bit
<1>. HIDE DEF n
<1>4. \A i \in 0 .. n : Later(first, 1 + i) = Later(Later(first, 1), 0 + i)
    <2>. SUFFICES ASSUME NEW i \in 0 .. n PROVE Later(first, 1 + i) = Later(Later(first, 1), 0 + i)
        OBVIOUS
    <2>1. i \in 0 .. Bytes - 1 /\ i + 1 = 1 + i /\ 0 + i = i BY <1>2, Sizes
    <2>2. Later(Later(first, 1), i) = Later(first, i + 1) BY <2>1, Laters
    <2>. QED BY <2>1, <2>2
<1>5. n \in 0 .. n /\ \A i \in 0 .. n - 1 : i \in 0 .. n BY <1>2
<1>. QED BY <1>3, <1>4, <1>5 DEF OutOrder, Bit, n

\* The driver writes the first byte of the ring to the port.
LEMMA OutWritten ==
    ASSUME NEW r \in Ring, NEW x, NEW last, NEW first \in Byte, NEW s \in Ring,
           OutOrder(r, FALSE, x, last, first), r.out_hw # r.out_cpu,
           s.outbuf = r.outbuf, s.out_cpu = r.out_cpu, s.out_hw = Next1(r.out_hw)
    PROVE  OutOrder(s, TRUE, r.outbuf[r.out_hw], last, first)
<1>1. r.out_hw \in Index /\ r.out_cpu \in Index /\ s.out_hw = Ahead(r.out_hw, 1)
    BY RingIndices, Reckoning
<1>. DEFINE n == Distance(r.out_cpu, r.out_hw)
<1>2. n \in 1 .. RingSize - 1 /\ Distance(s.out_cpu, s.out_hw) = n - 1
    <2>1. n \in Index /\ n >= 1 /\ Distance(r.out_cpu, Ahead(r.out_hw, 1)) = n - 1
        BY <1>1, Distances
    <2>. HIDE DEF n
    <2>. QED BY <1>1, <2>1, Sizes DEF Index
<1>3. /\ \A i \in 0 .. n - 1 : r.outbuf[Ahead(r.out_hw, i)] = Later(first, 0 + i)
      /\ Later(last, 1) = Later(first, 0 + n)
    BY DEF OutOrder, Bit
<1>. HIDE DEF n
<1>4. r.outbuf[r.out_hw] = first
    <2>1. 0 \in 0 .. n - 1 BY <1>2
    <2>2. Ahead(r.out_hw, 0) = r.out_hw BY <1>1, Sizes DEF Ahead, Index
    <2>3. Later(first, 0 + 0) = first BY Sizes DEF Later, Byte
    <2>. QED BY <1>3, <2>1, <2>2, <2>3
<1>5. ASSUME NEW i \in 0 .. n - 2
      PROVE  s.outbuf[Ahead(s.out_hw, i)] = Later(first, 1 + i)
    <2>1. i \in 0 .. RingSize - 1 /\ i < RingSize - 1 /\ i + 1 \in 0 .. n - 1 /\ 0 + (i + 1) = 1 + i
        BY <1>2, Sizes
    <2>2. Ahead(Ahead(r.out_hw, 1), i) = Ahead(r.out_hw, i + 1)
        BY <1>1, <2>1, Aheads DEF Index
    <2>3. r.outbuf[Ahead(r.out_hw, i + 1)] = Later(first, 0 + (i + 1)) BY <1>3, <2>1
    <2>. QED BY <1>1, <2>1, <2>2, <2>3
<1>6. n - 1 - 1 = n - 2 /\ 1 + (n - 1) = 0 + n BY <1>2
<1>. DEFINE m == Distance(s.out_cpu, s.out_hw)
<1>7. m - 1 = n - 2 /\ 1 + m = 0 + n BY <1>2, <1>6
<1>. QED BY <1>3, <1>4, <1>5, <1>7 DEF OutOrder, Bit

\* The program appends a byte to the ring.
LEMMA OutStored ==
    ASSUME NEW r \in Ring, NEW busy \in BOOLEAN, NEW x, NEW last \in Byte, NEW first \in Byte,
           NEW s \in Ring, OutOrder(r, busy, x, last, first),
           s.outbuf = [r.outbuf EXCEPT ![r.out_cpu] = Later(last, 1)],
           s.out_hw = r.out_hw, s.out_cpu = Next1(r.out_cpu),
           Distance(r.out_cpu, r.out_hw) < RingSize - 1
    PROVE  OutOrder(s, busy, x, Later(last, 1), first)
<1>1. /\ r.out_hw \in Index /\ r.out_cpu \in Index /\ s.out_cpu = Ahead(r.out_cpu, 1)
      /\ r.outbuf \in [Index -> Byte]
    BY RingIndices, RingFields, Reckoning DEF Index
<1>. DEFINE n == Distance(r.out_cpu, r.out_hw)
<1>2. n \in 0 .. RingSize - 2 /\ Distance(s.out_cpu, s.out_hw) = n + 1
    <2>1. n \in Index /\ n < RingSize - 1 /\ Distance(Ahead(r.out_cpu, 1), r.out_hw) = n + 1
        BY <1>1, Distances
    <2>. HIDE DEF n
    <2>. QED BY <1>1, <2>1, Sizes DEF Index
<1>3. /\ \A i \in 0 .. n - 1 : r.outbuf[Ahead(r.out_hw, i)] = Later(first, Bit(busy) + i)
      /\ Later(last, 1) = Later(first, Bit(busy) + n)
      /\ busy => x = first
      /\ Bit(busy) \in {0, 1}
    BY DEF OutOrder, Bit
<1>4. Ahead(r.out_hw, n) = r.out_cpu BY <1>1, Distances
<1>. HIDE DEF n
<1>5. ASSUME NEW i \in 0 .. n
      PROVE  s.outbuf[Ahead(s.out_hw, i)] = Later(first, Bit(busy) + i)
    <2>1. i \in Index /\ n \in Index BY <1>2, Sizes DEF Index
    <2>2. Ahead(r.out_hw, i) \in Index BY <1>1, <2>1, Aheads
    <2>3. CASE i = n
        <3>1. s.outbuf[r.out_cpu] = Later(last, 1) BY <1>1
        <3>. QED BY <1>3, <1>4, <2>3, <3>1
    <2>4. CASE i # n
        <3>1. \A j \in Index : j # n => Ahead(r.out_hw, j) # Ahead(r.out_hw, n)
            BY <1>1, <2>1, Aheads
        <3>2. Ahead(r.out_hw, i) # r.out_cpu BY <1>4, <2>1, <2>4, <3>1
        <3>3. s.outbuf[Ahead(r.out_hw, i)] = r.outbuf[Ahead(r.out_hw, i)] BY <1>1, <2>2, <3>2
        <3>4. i \in 0 .. n - 1 BY <1>2, <2>4
        <3>. QED BY <1>3, <3>3, <3>4
    <2>. QED BY <2>3, <2>4
<1>6. Later(Later(last, 1), 1) = Later(first, Bit(busy) + (n + 1))
    <2>1. Bit(busy) + n \in 0 .. Bytes - 1 /\ Bit(busy) + n + 1 = Bit(busy) + (n + 1)
        BY <1>2, <1>3, Sizes
    <2>2. Later(Later(first, Bit(busy) + n), 1) = Later(first, Bit(busy) + n + 1)
        BY <2>1, Laters
    <2>. QED BY <1>3, <2>1, <2>2
<1>. DEFINE m == Distance(s.out_cpu, s.out_hw)
<1>7. m = n + 1 /\ m - 1 = n BY <1>2
<1>. QED BY <1>3, <1>5, <1>6, <1>7 DEF OutOrder

\* No line but the two carries an interrupt, so no other level is asserted.
LEMMA SourcesStay ==
    ASSUME IntInv, NestInv, NEW pulses
    PROVE  /\ FourEdges(pulses).pending \subseteq Sources
           /\ FourEdges(pulses).int_out \in Sources \union {NoLevel}
           /\ ints(pulses) \in Sources \union {NoLevel}
<1>. DEFINE Only(c) == c.pending \subseteq Sources /\ c.int_out \in Sources \union {NoLevel}
<1>1. \A n \in 1 .. 4, c \in IntState : Only(c) => Only(Edge(n, c, pulses))
    <2>. SUFFICES ASSUME NEW n \in 1 .. 4, NEW c \in IntState, Only(c)
                  PROVE  Only(Edge(n, c, pulses))
        OBVIOUS
    <2>. DEFINE I == (IF ps2_int THEN {PS2_INT} ELSE {}) \union (IF n \in pulses THEN {VBLANK} ELSE {})
    <2>1. I \subseteq Sources BY DEF Sources
    <2>2. Edge(n, c, pulses) = IntTick(c, I, int_ack) BY DEF Edge
    <2>3. c.pending \in SUBSET Level BY DEF IntState
    <2>4. Asserts(c, int_ack) => Highest(c.pending) \in Sources BY <2>3, HighestPending DEF Asserts
    <2>. HIDE DEF I
    <2>. QED BY <2>1, <2>2, <2>4 DEF IntTick, Stored
<1>. DEFINE c1 == Edge(1, ic, pulses)
            c2 == Edge(2, c1, pulses)
            c3 == Edge(3, c2, pulses)
            c4 == Edge(4, c3, pulses)
<1>2. ic \in IntState /\ c1 \in IntState /\ c2 \in IntState /\ c3 \in IntState
    BY FourEdgesType DEF ThreeEdges, IntInv
<1>3. FourEdges(pulses) = c4 /\ ThreeEdges(pulses) = c3 BY DEF FourEdges, ThreeEdges
<1>4. Only(ic) BY DEF NestInv
<1>. HIDE DEF Only
<1>5. Only(c1) BY <1>1, <1>2, <1>4
<1>6. Only(c2)
    <2>. HIDE DEF c1
    <2>. QED BY <1>1, <1>2, <1>5
<1>7. Only(c3)
    <2>. HIDE DEF c2
    <2>. QED BY <1>1, <1>2, <1>6
<1>8. Only(c4)
    <2>. HIDE DEF c3
    <2>. QED BY <1>1, <1>2, <1>7
<1>. HIDE DEF c1, c2, c3, c4
<1>. QED BY <1>3, <1>7, <1>8 DEF Only, ints

\* The stacks there are, and what a push and a return make of them.
LEMMA Stacks ==
    ASSUME NEW st \in {<<>>, <<VBLANK>>} \union InDriver
    PROVE  /\ \/ st = <<>> \/ st = <<VBLANK>>
              \/ st = <<PS2_INT>> \/ st = <<PS2_INT, VBLANK>>
           /\ st \in InDriver => st # <<>> /\ Head(st) = PS2_INT /\ Tail(st) \in {<<>>, <<VBLANK>>}
           /\ st = <<VBLANK>> => st # <<>> /\ Head(st) = VBLANK /\ Tail(st) = <<>>
           /\ <<>> \notin InDriver /\ <<VBLANK>> \notin InDriver
           /\ \A n \in Sources : st = <<>> => <<n>> \o st = <<n>>
           /\ \A n \in Sources : st = <<VBLANK>> => <<n>> \o st = <<n, VBLANK>>
<1>1. VBLANK # PS2_INT BY DEF VBLANK, PS2_INT
<1>2. st = <<>> \/ st = <<VBLANK>> \/ st = <<PS2_INT>> \/ st = <<PS2_INT, VBLANK>>
    BY DEF InDriver
<1>3. <<>> \notin InDriver /\ <<VBLANK>> \notin InDriver BY <1>1 DEF InDriver
<1>4. st \in InDriver => st # <<>> /\ Head(st) = PS2_INT /\ Tail(st) \in {<<>>, <<VBLANK>>}
    <2>1. st \in InDriver => st = <<PS2_INT>> \/ st = <<PS2_INT, VBLANK>> BY DEF InDriver
    <2>2. <<PS2_INT>> # <<>> /\ Head(<<PS2_INT>>) = PS2_INT /\ Tail(<<PS2_INT>>) = <<>> OBVIOUS
    <2>3. /\ <<PS2_INT, VBLANK>> # <<>> /\ Head(<<PS2_INT, VBLANK>>) = PS2_INT
          /\ Tail(<<PS2_INT, VBLANK>>) = <<VBLANK>>
        OBVIOUS
    <2>. QED BY <2>1, <2>2, <2>3
<1>5. st = <<VBLANK>> => st # <<>> /\ Head(st) = VBLANK /\ Tail(st) = <<>> OBVIOUS
<1>6. \A n \in Sources : st = <<>> => <<n>> \o st = <<n>> OBVIOUS
<1>7. ASSUME NEW n \in Sources PROVE <<n>> \o <<VBLANK>> = <<n, VBLANK>>
    <2>. DEFINE s == <<n>> \o <<VBLANK>>
    <2>1. <<n>> \in Seq(Sources) /\ <<VBLANK>> \in Seq(Sources) BY DEF Sources
    <2>2. s \in Seq(Sources) /\ Len(s) = 2 /\ s[1] = n /\ s[2] = VBLANK BY <2>1
    <2>. HIDE DEF s
    <2>3. s = [i \in 1 .. 2 |-> s[i]] BY <2>2
    <2>4. [i \in 1 .. 2 |-> s[i]] = [i \in 1 .. 2 |-> IF i = 1 THEN n ELSE VBLANK] BY <2>2
    <2>5. s = <<n, VBLANK>> BY <2>3, <2>4
    <2>. QED BY <2>5 DEF s
<1>. QED BY <1>2, <1>3, <1>4, <1>5, <1>6, <1>7

LEMMA NestInit == Init => NestInv
BY DEF Init, NestInv, IntReset, Sources, InDriver

\* The driver's interrupt is taken only while the driver is nowhere.
LEMMA DriverAway ==
    ASSUME IntInv, NestInv
    PROVE  /\ taking # NoLevel => taking \in Sources /\ (stack = <<>> \/ stack = <<VBLANK>>)
           /\ taking = PS2_INT => hpc = "none"
           /\ taking = VBLANK => stack = <<>>
<1>1. stack \in {<<>>, <<VBLANK>>} \union InDriver BY DEF NestInv
<1>2. taking # NoLevel => taking \in Sources BY DEF NestInv, IntInv, AcknowledgesItsOwn
<1>3. taking # NoLevel => stack \notin InDriver
    <2>1. stack \in InDriver => Mask = PS2_INT BY <1>1, Stacks DEF Mask
    <2>. QED BY <1>2, <2>1 DEF NestInv, Sources, PS2_INT, VBLANK
<1>4. taking = VBLANK => stack # <<VBLANK>>
    <2>1. stack = <<VBLANK>> => Mask = VBLANK BY <1>1, Stacks DEF Mask
    <2>. QED BY <2>1 DEF NestInv, VBLANK, NoLevel
<1>5. taking # NoLevel => mpc # "handler" BY DEF NestInv
<1>6. PS2_INT # NoLevel /\ VBLANK # NoLevel BY DEF PS2_INT, VBLANK, NoLevel
<1>. QED BY <1>1, <1>2, <1>3, <1>4, <1>5, <1>6 DEF NestInv

LEMMA NestStep ==
    ASSUME TypeOK, IntInv, NestInv, NEW pulses \in VBlank,
           Rest(pulses) \/ Take(pulses) \/ Works(pulses)
    PROVE  NestInv'
<1>1. PICK access \in Access, ack \in BOOLEAN : Hardware(access, ack, pulses) BY DriverTypeStep
<1>2. /\ ic'.pending \subseteq Sources /\ ic'.int_out \in Sources \union {NoLevel}
      /\ ints(pulses) \in Sources \union {NoLevel}
    BY <1>1, SourcesStay DEF Hardware, FourEdges
<1>3. stack \in {<<>>, <<VBLANK>>} \union InDriver BY DEF NestInv
<1>4. CASE Rest(pulses) BY <1>2, <1>4 DEF Rest, Computes, NestInv, Mask
<1>5. CASE Take(pulses)
    <2>1. mpc # "handler"
        <3>1. mpc = "handler" => Mask = 7 BY DEF NestInv, Mask
        <3>. QED BY <1>2, <1>5, <3>1 DEF Take, Sources, VBLANK, PS2_INT, NoLevel
    <2>. QED BY <1>2, <1>5, <2>1 DEF Take, NestInv, Mask
<1>6. CASE Acknowledge(pulses)
    <2>1. /\ taking # NoLevel /\ taking' = NoLevel /\ stack' = <<taking>> \o stack
          /\ hpc' = IF taking = PS2_INT THEN "readkbd" ELSE hpc
          /\ sr' = sr /\ mpc' = mpc
        BY <1>6 DEF Acknowledge
    <2>2. mpc # "handler" /\ taking \in Sources BY <2>1, DriverAway DEF NestInv
    <2>3. VBLANK # PS2_INT /\ VBLANK # NoLevel BY DEF VBLANK, PS2_INT, NoLevel
    <2>4. stack' \in {<<>>, <<VBLANK>>} \union InDriver /\ (stack' \in InDriver <=> taking = PS2_INT)
        <3>1. CASE stack = <<>>
            <4>1. stack' = <<taking>> BY <1>3, <2>1, <2>2, <3>1, Stacks
            <4>2. taking = VBLANK \/ taking = PS2_INT BY <2>2 DEF Sources
            <4>3. <<VBLANK>> \notin InDriver /\ <<PS2_INT>> \in InDriver BY <2>3 DEF InDriver
            <4>. QED BY <2>3, <4>1, <4>2, <4>3
        <3>2. CASE stack = <<VBLANK>>
            <4>1. taking = PS2_INT BY <2>1, <2>2, <3>2, DriverAway DEF Sources
            <4>2. stack' = <<PS2_INT, VBLANK>> BY <1>3, <2>1, <2>2, <3>2, <4>1, Stacks
            <4>. QED BY <4>1, <4>2 DEF InDriver
        <3>. QED BY <2>1, <3>1, <3>2, DriverAway
    <2>5. hpc' # "none" <=> taking = PS2_INT
        BY <2>1, <2>2, <1>3, DriverAway, Stacks DEF NestInv
    <2>. QED BY <1>2, <2>1, <2>2, <2>4, <2>5 DEF NestInv
<1>7. CASE ReturnVBlank(pulses)
    <2>1. /\ taking = NoLevel /\ taking' = taking /\ stack # <<>> /\ Head(stack) = VBLANK
          /\ stack' = Tail(stack) /\ sr' = sr /\ hpc' = hpc /\ mpc' = mpc
        BY <1>7 DEF ReturnVBlank, Runs, Computes
    <2>2. VBLANK # PS2_INT BY DEF VBLANK, PS2_INT
    <2>3. stack = <<VBLANK>> BY <1>3, <2>1, <2>2, Stacks
    <2>4. stack' = <<>> BY <1>3, <2>1, <2>3, Stacks
    <2>. QED BY <1>2, <1>3, <2>1, <2>3, <2>4, Stacks DEF NestInv
<1>8. CASE Handler(pulses)
    <2>1. ASSUME hpc # "none", hpc' # "none", mpc' = mpc, sr' = sr, stack' = stack, taking' = taking
          PROVE  NestInv'
        BY <1>2, <2>1 DEF NestInv, Mask
    <2>2. ASSUME NEW p, NEW at, NEW then \in {"readmouse", "kbd", "mouse", "return"},
                 ReadRegister(p, at, then, pulses) \/ Serve(p, at, then, pulses)
          PROVE  NestInv'
        BY <2>1, <2>2 DEF ReadRegister, Serve, Computes, InHandler
    <2>3. CASE Return(pulses)
        <3>1. taking = NoLevel /\ taking' = taking /\ hpc' = "none"
            BY <2>3 DEF Return, Computes, InHandler, Runs, InMain
        <3>2. CASE stack = <<>>
            <4>1. mpc' = "idle" /\ sr' = 0 /\ stack' = stack BY <2>3, <3>2 DEF Return
            <4>. QED BY <1>2, <1>3, <3>1, <3>2, <4>1, Stacks DEF NestInv
        <3>3. CASE stack # <<>>
            <4>1. stack' = Tail(stack) /\ mpc' = mpc /\ sr' = sr BY <2>3, <3>3 DEF Return
            <4>2. mpc # "handler" BY <3>3 DEF NestInv
            <4>3. stack \in InDriver
                BY <2>3, <3>3, <4>2 DEF Return, InHandler, NestInv
            <4>4. Tail(stack) \in {<<>>, <<VBLANK>>} BY <1>3, <4>3, Stacks
            <4>. QED BY <1>2, <1>3, <3>1, <4>1, <4>2, <4>4, Stacks DEF NestInv
        <3>. QED BY <3>2, <3>3
    <2>. QED BY <1>8, <2>2, <2>3 DEF Handler
<1>9. CASE Program(pulses)
    <2>1. ASSUME mpc # "handler", mpc' # "handler", hpc' = hpc, sr' = sr, stack' = stack, taking' = taking
          PROVE  NestInv'
        BY <1>2, <2>1 DEF NestInv, Mask
    <2>2. ASSUME NEW p, ReadRing(p, pulses) \/ WriteRing(p, pulses) \/ Advance(pulses)
          PROVE  NestInv'
        BY <2>1, <2>2 DEF ReadRing, WriteRing, Advance, Main, Computes
    <2>3. CASE Store(pulses)
        BY <1>2, <1>3, <2>3, Stacks DEF Store, Main, InMain, Computes, NestInv
    <2>. QED BY <1>9, <2>2, <2>3 DEF Program
<1>. QED BY <1>4, <1>5, <1>6, <1>7, <1>8, <1>9 DEF Works

LEMMA FlagInit == Init => FlagInv
<1>. SUFFICES ASSUME Init, NEW p \in Port
              PROVE  /\ port[p].com = "idle" /\ ~port[p].recvTrigger /\ ~port[p].sendDone
                     /\ ~sendtrigger[p]
    BY DEF FlagInv
<1>1. port[p] = [com |-> "idle", sendTriggerLoc |-> FALSE, recvTrigger |-> FALSE, sendDone |-> FALSE]
    BY DEF Init, PortInit
<1>2. sendtrigger[p] = FALSE BY DEF Init, RegInit
<1>. QED BY <1>1, <1>2

\* A byte received, and a byte sent, end their frame; the flag of the one
\* before has been read by then.
LEMMA FlagStep ==
    ASSUME TypeOK, FlagInv, AnyClock = FALSE,
           NEW access \in Access, NEW ack, NEW pulses, Hardware(access, ack, pulses)
    PROVE  FlagInv'
<1>. SUFFICES ASSUME NEW p \in Port
              PROVE  /\ sendtrigger'[p] => ena'
                     /\ port'[p].recvTrigger \/ port'[p].sendDone => port'[p].com = "idle"
                     /\ port'[p].com = "send" => port'[p].sendTriggerLoc
                     /\ port'[p].recvTrigger /\ ~ena' => ~recvreg'[p]
    BY DEF FlagInv
<1>1. RegTypeOK /\ PortTick(sendtrigger) /\ RegTick(access) BY HardwareType DEF TypeOK
<1>2. /\ ena' = ~ena
      /\ IF ena THEN port'[p] \in PortNext(port[p], sendtrigger[p]) ELSE port'[p] = port[p]
    BY <1>1, PortsStep
<1>3. port[p] \in PortState /\ sendtrigger[p] \in BOOLEAN BY <1>1 DEF RegTypeOK
<1>4. sendtrigger'[p] => ena' BY PortFlags DEF FlagInv
<1>5. recvreg'[p] => port[p].recvTrigger \/ recvreg[p] BY PortFlags DEF FlagInv
<1>6. CASE ena
    <2>1. /\ port'[p].recvTrigger \/ port'[p].sendDone => port'[p].com = "idle"
          /\ port'[p].com = "send" => port[p].com = "send" \/ (port[p].com = "idle" /\ port[p].sendTriggerLoc)
          /\ port'[p].com = "send" /\ (port[p].com = "send" => port[p].sendTriggerLoc)
                 => port'[p].sendTriggerLoc
          /\ port'[p].recvTrigger => port[p].com = "receive"
        BY <1>2, <1>3, <1>6, PortEdge
    <2>2. port'[p].recvTrigger => ~port[p].recvTrigger BY <2>1 DEF FlagInv
    <2>3. port'[p].recvTrigger => ~recvreg[p] BY <2>2 DEF Hardware, KeepsUp
    <2>. QED BY <1>4, <1>5, <2>1, <2>2, <2>3 DEF FlagInv
<1>7. CASE ~ena BY <1>2, <1>4, <1>7 DEF FlagInv
<1>. QED BY <1>6, <1>7

LEMMA HandInit == Init => HandInv
<1>. SUFFICES ASSUME Init, NEW p \in Port PROVE ~seen[p].recv /\ hpc \notin Holding(p)
    BY DEF HandInv
<1>1. seen[p] = [recv |-> FALSE, cts |-> FALSE, byte |-> 0] /\ hpc = "none" BY DEF Init
<1>. QED BY <1>1 DEF Holding

\* The driver never starts anew with a byte still in its hands; and a port it
\* found free stays free until it writes to it.
LEMMA HandStep ==
    ASSUME TypeOK, IntInv, NestInv, FlagInv, HandInv, AnyClock = FALSE, NEW pulses \in VBlank,
           Rest(pulses) \/ Take(pulses) \/ Works(pulses)
    PROVE  HandInv'
<1>1. PICK access \in Access, ack \in BOOLEAN :
          DriverMoves(access) /\ Hardware(access, ack, pulses)
    BY StepMoves
<1>2. kbd # mouse /\ Port = {kbd, mouse} BY DriverAssumption
<1>3. seen \in [Port -> RegValue] BY DEF TypeOK
<1>4. hpc' = "readkbd" => hpc = "readkbd" \/ hpc = "none"
    <2>1. CASE Acknowledge(pulses)
        BY <2>1, DriverAway DEF Acknowledge
    <2>2. CASE Store(pulses)
        <3>1. mpc = "store" /\ stack = <<>> BY <2>2 DEF Store, Main, InMain
        <3>. QED BY <3>1, Stacks DEF NestInv
    <2>3. CASE ~Acknowledge(pulses) /\ ~Store(pulses)
        BY <2>3 DEF Rest, Take, Works, ReturnVBlank, Handler, ReadRegister, Serve, Return,
                    Program, ReadRing, Advance, WriteRing
    <2>. QED BY <2>1, <2>2, <2>3
<1>5. ASSUME NEW p \in Port, ~sendBusy(p), ~Writes(access, p) PROVE ~sendBusy(p)'
    BY <1>1, <1>5, PortFlags DEF FlagInv
<1>6. NoAccess.kind = "none" BY DEF NoAccess
<1>7. CASE hpc' = "readkbd" /\ seen' = seen
    BY <1>4, <1>7 DEF HandInv, Holding
<1>8. CASE access = NoAccess /\ seen' = seen /\ (hpc' = hpc \/ (hpc = "return" /\ hpc' = "none"))
    <2>1. \A p \in Port : ~Writes(access, p) BY <1>6, <1>8 DEF Writes
    <2>. QED BY <1>5, <1>8, <2>1 DEF HandInv, Holding
<1>9. ASSUME NEW q \in Port,
             access = Read(q), seen' = [seen EXCEPT ![q] = Value(q)],
             IF q = kbd THEN hpc = "readkbd" /\ hpc' = "readmouse"
             ELSE hpc = "readmouse" /\ hpc' = "kbd"
      PROVE  HandInv'
    <2>1. \A p \in Port : ~Writes(access, p) BY <1>9 DEF Writes, Read
    <2>2. ASSUME NEW p \in Port, p # q
          PROVE  /\ seen'[p] = seen[p]
                 /\ hpc' \in Holding(p) <=> hpc \in Holding(p)
        BY <1>2, <1>3, <1>9, <2>2 DEF Holding
    <2>3. hpc' \in Holding(q) BY <1>2, <1>9 DEF Holding
    <2>4. seen'[q].cts = ~sendBusy(q) BY <1>3, <1>9 DEF Value
    <2>5. ASSUME NEW p \in Port, p # q
          PROVE  /\ seen'[p].recv => hpc' \in Holding(p)
                 /\ hpc' \in Holding(p) /\ seen'[p].cts => ~sendBusy(p)'
        BY <1>5, <2>1, <2>2, <2>5 DEF HandInv
    <2>6. seen'[q].cts => ~sendBusy(q)' BY <1>5, <2>1, <2>4
    <2>. QED BY <2>3, <2>5, <2>6 DEF HandInv
<1>10. ASSUME NEW q \in Port, seen' = [seen EXCEPT ![q].recv = FALSE],
              IF q = kbd THEN hpc = "kbd" /\ hpc' = "mouse"
              ELSE hpc = "mouse" /\ hpc' = "return",
              \A p \in Port \ {q} : ~Writes(access, p)
      PROVE  HandInv'
    <2>1. ~seen'[q].recv /\ hpc' \notin Holding(q)
        BY <1>2, <1>3, <1>10 DEF Holding, RegValue
    <2>2. ASSUME NEW p \in Port, p # q
          PROVE  /\ seen'[p] = seen[p]
                 /\ hpc' \in Holding(p) <=> hpc \in Holding(p)
        BY <1>2, <1>3, <1>10, <2>2 DEF Holding
    <2>3. ASSUME NEW p \in Port, p # q
          PROVE  /\ seen'[p].recv => hpc' \in Holding(p)
                 /\ hpc' \in Holding(p) /\ seen'[p].cts => ~sendBusy(p)'
        BY <1>5, <1>10, <2>2, <2>3 DEF HandInv
    <2>. QED BY <2>1, <2>3 DEF HandInv
<1>. QED BY <1>1, <1>7, <1>8, <1>9, <1>10 DEF DriverMoves

\* Only the fields of its direction tell a ring's order.
SameIn(r, s) == s.in_hw = r.in_hw /\ s.in_cpu = r.in_cpu /\ s.inbuf = r.inbuf
SameOut(r, s) == s.out_hw = r.out_hw /\ s.out_cpu = r.out_cpu /\ s.outbuf = r.outbuf
LEMMA SameOrder ==
    ASSUME NEW r, NEW s
    PROVE  /\ SameIn(r, s) => \A h, x, w, last, first :
                  InOrder(r, h, x, w, last, first) => InOrder(s, h, x, w, last, first)
           /\ SameOut(r, s) => \A b, x, last, first :
                  OutOrder(r, b, x, last, first) => OutOrder(s, b, x, last, first)
BY DEF SameIn, SameOut, InOrder, OutOrder

\* What a clock adds to the bytes at a port, after the driver and the program
\* had their turn: a byte that arrives, when the one before has been read.
LEMMA Arrival ==
    ASSUME TypeOK, FlagInv, HandInv, AnyClock = FALSE,
           NEW access \in Access, NEW ack, NEW pulses, Hardware(access, ack, pulses),
           NEW p \in Port, ~Reads(access, p),
           NEW r \in Ring, NEW hand, NEW x, NEW first \in Byte,
           InOrder(r, hand, x, Waits(p), recvByte[p], first),
           hand = FALSE \/ (hand = seen[p].recv),
           seen[p].recv \/ Distance(r.in_hw, r.in_cpu) <= Distance(ring[p].in_hw, ring[p].in_cpu)
    PROVE  InOrder(r, hand, x, Waits(p)', recvByte'[p], first)
<1>1. RegTypeOK /\ PortTick(sendtrigger) /\ RegTick(access) BY HardwareType DEF TypeOK
<1>2. recvreg'[p] <=> recvreg[p] \/ port[p].recvTrigger BY <1>1 DEF RegTick, RecvFlag
<1>3. /\ recvByte[p] \in Byte /\ ring[p] \in Ring
      /\ recvreg[p] \in BOOLEAN /\ recvreg'[p] \in BOOLEAN /\ seen[p].recv \in BOOLEAN
      /\ port[p].recvTrigger \in BOOLEAN /\ port'[p].recvTrigger \in BOOLEAN
    BY <1>1, PortsStep, HardwareType DEF TypeOK, RegTypeOK, PortState, RegValue
<1>4. CASE port'[p].recvTrigger /\ ~port[p].recvTrigger
    <2>1. /\ ~recvreg[p] /\ ~(hpc # "none" /\ seen[p].recv)
          /\ InCount(ring[p]) < RingSize - 1
        BY <1>4 DEF Hardware, KeepsUp
    <2>2. ~seen[p].recv /\ hand = FALSE
        BY <1>3, <2>1 DEF HandInv, Holding
    <2>3. Waits(p) = FALSE /\ Waits(p)' = TRUE BY <1>3, <1>4, <2>1 DEF Waits
    <2>4. recvByte'[p] = Later(recvByte[p], 1) BY <1>3, <1>4, Reckoning DEF Hardware
    <2>5. Distance(r.in_hw, r.in_cpu) < RingSize - 1
        <3>1. InCount(ring[p]) = Distance(ring[p].in_hw, ring[p].in_cpu) BY <1>3, RingIndices
        <3>2. Distance(ring[p].in_hw, ring[p].in_cpu) \in Index BY <1>3, RingIndices, Distances
        <3>3. Distance(r.in_hw, r.in_cpu) \in Index BY RingIndices, Distances
        <3>. QED BY <2>1, <2>2, <3>1, <3>2, <3>3, Sizes DEF Index
    <2>6. InOrder(r, FALSE, x, FALSE, recvByte[p], first) BY <2>2, <2>3
    <2>. QED BY <1>3, <2>2, <2>3, <2>4, <2>5, <2>6, InArrives
<1>5. CASE ~(port'[p].recvTrigger /\ ~port[p].recvTrigger)
    <2>1. recvByte'[p] = recvByte[p] BY <1>5 DEF Hardware
    <2>2. Waits(p)' = Waits(p) BY <1>2, <1>3, <1>5 DEF Waits
    <2>. QED BY <2>1, <2>2
<1>. QED BY <1>4, <1>5

\* The driver takes over a byte that has arrived, and only such a one.
LEMMA ReadInOrder ==
    ASSUME TypeOK, FlagInv, HandInv, AnyClock = FALSE,
           NEW access \in Access, NEW ack, NEW pulses, Hardware(access, ack, pulses),
           NEW p \in Port, Reads(access, p), ~seen[p].recv, NEW first \in Byte,
           InOrder(ring[p], FALSE, seen[p].byte, Waits(p), recvByte[p], first)
    PROVE  InOrder(ring[p], recvreg[p], recvByte[p], Waits(p)', recvByte'[p], first)
<1>1. RegTypeOK /\ PortTick(sendtrigger) /\ RegTick(access) BY HardwareType DEF TypeOK
<1>2. ~ena /\ port'[p] = port[p]
    <2>1. access # NoAccess BY DEF Reads, NoAccess
    <2>2. ~ena BY <2>1 DEF Hardware
    <2>. QED BY <1>1, <2>2, PortsStep
<1>3. recvByte'[p] = recvByte[p] BY <1>2 DEF Hardware
<1>4. recvByte[p] \in Byte /\ recvreg[p] \in BOOLEAN /\ port[p].recvTrigger \in BOOLEAN /\ ring[p] \in Ring
    BY <1>1 DEF RegTypeOK, PortState, TypeOK
<1>5. recvreg'[p] = port[p].recvTrigger BY <1>1, <1>4 DEF RegTick, RecvFlag
<1>6. Waits(p)' = port[p].recvTrigger BY <1>2, <1>4, <1>5 DEF Waits
<1>7. CASE recvreg[p] = TRUE
    <2>1. Waits(p) = TRUE /\ Waits(p)' = FALSE BY <1>2, <1>4, <1>6, <1>7 DEF Waits, FlagInv
    <2>. QED BY <1>3, <1>4, <1>7, <2>1, InRead
<1>8. CASE recvreg[p] = FALSE
    <2>1. Waits(p) = Waits(p)' BY <1>4, <1>6, <1>8 DEF Waits
    <2>2. InOrder(ring[p], FALSE, recvByte[p], Waits(p), recvByte[p], first) BY DEF InOrder
    <2>. QED BY <1>3, <1>8, <2>1, <2>2
<1>. QED BY <1>4, <1>7, <1>8

\* What a clock takes from the bytes at a port: the one the device took.
LEMMA Departure ==
    ASSUME TypeOK, FlagInv, AnyClock = FALSE,
           NEW access \in Access, NEW ack, NEW pulses, Hardware(access, ack, pulses),
           NEW p \in Port, ~Writes(access, p), NEW r \in Ring, NEW last,
           OutOrder(r, sendBusy(p), sendbyte[p], last, Later(taken[p], 1))
    PROVE  OutOrder(r, sendBusy(p)', sendbyte'[p], last, Later(taken'[p], 1))
<1>1. RegTypeOK /\ PortTick(sendtrigger) /\ RegTick(access) BY HardwareType DEF TypeOK
<1>2. sendbyte'[p] = sendbyte[p] /\ sendtrigger'[p] = FALSE BY <1>1, AccessFacts DEF RegTick
<1>3. /\ IF ena THEN port'[p] \in PortNext(port[p], sendtrigger[p]) ELSE port'[p] = port[p]
      /\ port[p] \in PortState /\ port'[p] \in PortState /\ sendtrigger[p] \in BOOLEAN
    BY <1>1, PortsStep DEF RegTypeOK
<1>4. port[p].sendTriggerLoc \in BOOLEAN /\ port'[p].sendTriggerLoc \in BOOLEAN
    BY <1>3 DEF PortState
<1>5. taken[p] \in Byte /\ Later(taken[p], 1) \in Byte
    <2>1. taken[p] \in Byte /\ 1 \in 0 .. Bytes - 1 BY Sizes DEF TypeOK
    <2>. QED BY <2>1, Laters
<1>6. CASE port'[p].sendDone /\ ~port[p].sendDone
    <2>1. ena BY <1>3, <1>6
    <2>2. port[p].com = "send" /\ ~port'[p].sendTriggerLoc BY <1>3, <1>6, <2>1, PortEdge
    <2>3. sendBusy(p) = TRUE BY <1>3, <1>4, <2>2 DEF sendBusy, FlagInv
    <2>4. sendBusy(p)' = FALSE BY <1>2, <1>4, <2>2 DEF sendBusy
    <2>5. taken'[p] = sendbyte[p] BY <1>6 DEF Hardware
    <2>6. sendbyte[p] = Later(taken[p], 1) BY <2>3 DEF OutOrder
    <2>. QED BY <1>5, <2>3, <2>4, <2>5, <2>6, OutTaken
<1>7. CASE ~(port'[p].sendDone /\ ~port[p].sendDone)
    <2>1. taken'[p] = taken[p] BY <1>7 DEF Hardware
    <2>2. sendBusy(p)' => sendBusy(p) BY PortFlags DEF FlagInv
    <2>3. sendBusy(p) => sendBusy(p)'
        <3>1. sendBusy(p) /\ ~sendBusy(p)' => port'[p].sendDone /\ port[p].sendDone
            BY <1>7, PortFlags DEF FlagInv
        <3>2. port[p].sendDone => port[p].com # "send" BY DEF FlagInv
        <3>3. CASE ena BY <1>3, <3>1, <3>2, <3>3, PortEdge
        <3>4. CASE ~ena
            BY <1>3, <3>4 DEF sendBusy, FlagInv
        <3>. QED BY <3>3, <3>4
    <2>4. sendBusy(p)' = sendBusy(p)
        <3>1. sendBusy(p) \in BOOLEAN /\ sendBusy(p)' \in BOOLEAN BY <1>2, <1>3, <1>4 DEF sendBusy
        <3>. QED BY <2>2, <2>3, <3>1
    <2>. QED BY <1>2, <2>1, <2>4
<1>. QED BY <1>6, <1>7

\* What the driver writes is the first byte of the ring.
LEMMA WrittenInOrder ==
    ASSUME TypeOK, FlagInv, AnyClock = FALSE,
           NEW access \in Access, NEW ack, NEW pulses, Hardware(access, ack, pulses),
           NEW p \in Port, Writes(access, p), access.byte = ring[p].outbuf[ring[p].out_hw],
           ~sendBusy(p), ring[p].out_hw # ring[p].out_cpu,
           NEW s \in Ring, NEW last,
           OutOrder(ring[p], sendBusy(p), sendbyte[p], last, Later(taken[p], 1)),
           s.outbuf = ring[p].outbuf, s.out_cpu = ring[p].out_cpu,
           s.out_hw = Next1(ring[p].out_hw)
    PROVE  OutOrder(s, sendBusy(p)', sendbyte'[p], last, Later(taken'[p], 1))
<1>1. RegTypeOK /\ PortTick(sendtrigger) /\ RegTick(access) BY HardwareType DEF TypeOK
<1>2. ~ena /\ port'[p] = port[p]
    <2>1. access # NoAccess BY DEF Writes, NoAccess
    <2>2. ~ena BY <2>1 DEF Hardware
    <2>. QED BY <1>1, <2>2, PortsStep
<1>3. sendbyte'[p] = ring[p].outbuf[ring[p].out_hw] /\ sendtrigger'[p] = TRUE
    BY <1>1, AccessFacts DEF RegTick
<1>4. taken'[p] = taken[p] BY <1>2 DEF Hardware
<1>5. port[p].sendTriggerLoc \in BOOLEAN /\ sendtrigger[p] \in BOOLEAN /\ ring[p] \in Ring
    BY <1>1 DEF RegTypeOK, PortState, TypeOK
<1>6. sendBusy(p)' = TRUE /\ sendBusy(p) = FALSE BY <1>2, <1>3, <1>5 DEF sendBusy
<1>7. Later(taken[p], 1) \in Byte
    <2>1. taken[p] \in Byte /\ 1 \in 0 .. Bytes - 1 BY Sizes DEF TypeOK
    <2>. QED BY <2>1, Laters
<1>. QED BY <1>3, <1>4, <1>5, <1>6, <1>7, OutWritten

\* What the driver and the program do to one port in a step.
OneStep(access, ack, pulses) ==
    /\ TypeOK /\ TypeOK' /\ FlagInv /\ HandInv /\ ByteInv /\ AnyClock = FALSE
    /\ Hardware(access, ack, pulses)

LEMMA FirstType ==
    ASSUME TypeOK, NEW p \in Port
    PROVE  First(p) \in Byte /\ Later(got[p], 1) \in Byte
<1>1. got[p] \in Byte /\ 1 \in 0 .. Bytes - 1 BY Sizes DEF TypeOK
<1>. QED BY <1>1, Laters DEF First

\* A port that nobody deals with in a step.
LEMMA IdlePort ==
    ASSUME NEW access \in Access, NEW ack, NEW pulses, OneStep(access, ack, pulses),
           NEW p \in Port, ~Reads(access, p), ~Writes(access, p),
           SameIn(ring[p], ring'[p]), SameOut(ring[p], ring'[p]), seen'[p] = seen[p],
           First(p)' = First(p), sent'[p] = sent[p]
    PROVE  Ordered(p)'
<1>1. ring'[p] \in Ring /\ First(p) \in Byte BY FirstType DEF OneStep, TypeOK
<1>2. /\ InOrder(ring'[p], seen[p].recv, seen[p].byte, Waits(p), recvByte[p], First(p))
      /\ OutOrder(ring'[p], sendBusy(p), sendbyte[p], sent[p], Later(taken[p], 1))
    BY SameOrder DEF OneStep, ByteInv, Ordered
<1>3. InOrder(ring'[p], seen[p].recv, seen[p].byte, Waits(p)', recvByte'[p], First(p))
    <2>1. Distance(ring'[p].in_hw, ring'[p].in_cpu) <= Distance(ring[p].in_hw, ring[p].in_cpu)
        <3>1. Distance(ring[p].in_hw, ring[p].in_cpu) \in 0 .. RingSize - 1
            BY RingIndices, Distances DEF OneStep, TypeOK, Index
        <3>. QED BY <3>1, Sizes DEF SameIn
    <2>. QED BY <1>1, <1>2, <2>1, Arrival DEF OneStep
<1>4. OutOrder(ring'[p], sendBusy(p)', sendbyte'[p], sent[p], Later(taken'[p], 1))
    BY <1>1, <1>2, Departure DEF OneStep
<1>. QED BY <1>3, <1>4 DEF Ordered

\* The port whose register the driver reads.
LEMMA ReadPort ==
    ASSUME NEW q \in Port, NEW ack, NEW pulses, OneStep(Read(q), ack, pulses),
           hpc \notin Holding(q), ring' = ring, seen'[q] = Value(q),
           First(q)' = First(q), sent'[q] = sent[q]
    PROVE  Ordered(q)'
<1>1. Read(q) \in Access /\ Reads(Read(q), q) /\ ~Writes(Read(q), q)
    BY DEF Access, Reads, Writes, Read
<1>2. ring[q] \in Ring /\ First(q) \in Byte /\ seen[q].recv = FALSE
    <2>1. seen[q].recv \in BOOLEAN BY DEF OneStep, TypeOK, RegValue
    <2>. QED BY <2>1, FirstType DEF OneStep, TypeOK, HandInv
<1>3. /\ InOrder(ring[q], FALSE, seen[q].byte, Waits(q), recvByte[q], First(q))
      /\ OutOrder(ring[q], sendBusy(q), sendbyte[q], sent[q], Later(taken[q], 1))
    BY <1>2 DEF OneStep, ByteInv, Ordered
<1>4. InOrder(ring[q], recvreg[q], recvByte[q], Waits(q)', recvByte'[q], First(q))
    BY <1>1, <1>2, <1>3, ReadInOrder DEF OneStep
<1>5. OutOrder(ring[q], sendBusy(q)', sendbyte'[q], sent[q], Later(taken'[q], 1))
    BY <1>1, <1>2, <1>3, Departure DEF OneStep
<1>6. seen'[q].recv = recvreg[q] /\ seen'[q].byte = recvByte[q] BY DEF Value
<1>. QED BY <1>4, <1>5, <1>6 DEF Ordered

\* The port the driver serves.
ServesPort(q, access) ==
    LET r == ring[q]
        s == ring'[q]
    IN  /\ ~Reads(access, q) /\ seen'[q].recv = FALSE
        /\ IF seen[q].recv
           THEN /\ s.inbuf = [r.inbuf EXCEPT ![r.in_hw] = seen[q].byte]
                /\ s.in_hw = Next1(r.in_hw) /\ s.in_cpu = r.in_cpu
           ELSE SameIn(r, s)
        /\ IF Sends(q)
           THEN /\ Writes(access, q) /\ access.byte = r.outbuf[r.out_hw]
                /\ s.outbuf = r.outbuf /\ s.out_cpu = r.out_cpu /\ s.out_hw = Next1(r.out_hw)
           ELSE ~Writes(access, q) /\ SameOut(r, s)
LEMMA ServePort ==
    ASSUME NEW access \in Access, NEW ack, NEW pulses, OneStep(access, ack, pulses), NEW q \in Port,
           ServesPort(q, access), hpc \in Holding(q), First(q)' = First(q), sent'[q] = sent[q]
    PROVE  Ordered(q)'
<1>1. ring'[q] \in Ring /\ ring[q] \in Ring /\ First(q) \in Byte BY FirstType DEF OneStep, TypeOK
<1>2. /\ InOrder(ring[q], seen[q].recv, seen[q].byte, Waits(q), recvByte[q], First(q))
      /\ OutOrder(ring[q], sendBusy(q), sendbyte[q], sent[q], Later(taken[q], 1))
    BY DEF OneStep, ByteInv, Ordered
<1>3. InOrder(ring'[q], FALSE, seen'[q].byte, Waits(q), recvByte[q], First(q))
    <2>1. Waits(q) \in BOOLEAN /\ seen[q].byte \in Byte /\ seen[q].recv \in BOOLEAN
        BY DEF OneStep, TypeOK, RegTypeOK, PortState, RegValue, Waits
    <2>2. CASE seen[q].recv = TRUE
        <3>1. InOrder(ring[q], TRUE, seen[q].byte, Waits(q), recvByte[q], First(q)) BY <1>2, <2>2
        <3>2. /\ ring'[q].inbuf = [ring[q].inbuf EXCEPT ![ring[q].in_hw] = seen[q].byte]
              /\ ring'[q].in_hw = Next1(ring[q].in_hw) /\ ring'[q].in_cpu = ring[q].in_cpu
            BY <2>2 DEF ServesPort
        <3>. QED BY <1>1, <2>1, <3>1, <3>2, InAppends
    <2>3. CASE seen[q].recv = FALSE
        <3>1. InOrder(ring'[q], FALSE, seen[q].byte, Waits(q), recvByte[q], First(q))
            <4>1. SameIn(ring[q], ring'[q]) BY <2>3 DEF ServesPort
            <4>2. InOrder(ring[q], FALSE, seen[q].byte, Waits(q), recvByte[q], First(q)) BY <1>2, <2>3
            <4>. QED BY <4>1, <4>2, SameOrder
        <3>. QED BY <3>1 DEF InOrder
    <2>. QED BY <2>1, <2>2, <2>3
<1>4. InOrder(ring'[q], FALSE, seen'[q].byte, Waits(q)', recvByte'[q], First(q))
    <2>1. seen[q].recv \/ Distance(ring'[q].in_hw, ring'[q].in_cpu)
                              <= Distance(ring[q].in_hw, ring[q].in_cpu)
        <3>1. Distance(ring[q].in_hw, ring[q].in_cpu) \in 0 .. RingSize - 1
            BY <1>1, RingIndices, Distances DEF Index
        <3>. QED BY <3>1, Sizes DEF ServesPort, SameIn
    <2>2. ~Reads(access, q) BY DEF ServesPort
    <2>. QED BY <1>1, <1>3, <2>1, <2>2, Arrival DEF OneStep
<1>5. OutOrder(ring'[q], sendBusy(q)', sendbyte'[q], sent[q], Later(taken'[q], 1))
    <2>1. CASE Sends(q)
        <3>1. ~sendBusy(q) /\ ring[q].out_hw # ring[q].out_cpu
            BY <2>1 DEF Sends, OneStep, HandInv
        <3>. QED BY <1>1, <1>2, <2>1, <3>1, WrittenInOrder DEF ServesPort, OneStep
    <2>2. CASE ~Sends(q)
        <3>1. OutOrder(ring'[q], sendBusy(q), sendbyte[q], sent[q], Later(taken[q], 1))
            BY <1>2, <2>2, SameOrder DEF ServesPort
        <3>. QED BY <1>1, <2>2, <3>1, Departure DEF ServesPort, OneStep
    <2>. QED BY <2>1, <2>2
<1>6. seen'[q].recv = FALSE BY DEF ServesPort
<1>. QED BY <1>4, <1>5, <1>6 DEF Ordered

\* The ring the driver serves, after it.
LEMMA ServesTheRing ==
    ASSUME TypeOK, NEW q \in Port, NEW at, NEW then, NEW pulses, Serve(q, at, then, pulses)
    PROVE  \E access \in Access :
               /\ Hardware(access, FALSE, pulses) /\ ServesPort(q, access)
               /\ \A p \in Port \ {q} : /\ ~Reads(access, p) /\ ~Writes(access, p)
                                        /\ ring'[p] = ring[p] /\ seen'[p] = seen[p]
<1>. DEFINE access == IF Sends(q) THEN Write(q, ring[q].outbuf[ring[q].out_hw]) ELSE NoAccess
<1>1. ring[q] \in Ring /\ ring \in [Port -> Ring] /\ seen \in [Port -> RegValue] BY DEF TypeOK
<1>2. /\ ring[q].outbuf[ring[q].out_hw] \in Byte /\ ring[q].in_hw \in 0 .. RingSize - 1
      /\ seen[q].byte \in Byte
    BY <1>1, RingFields DEF RegValue
<1>3. Hardware(access, FALSE, pulses) BY DEF Serve, Computes
<1>4. Sends(q) => access = Write(q, ring[q].outbuf[ring[q].out_hw]) OBVIOUS
<1>5. ~Sends(q) => access = NoAccess OBVIOUS
<1>. HIDE DEF access
<1>6. access \in Access BY <1>2, <1>4, <1>5 DEF Access
<1>7. /\ \A p \in Port : ~Reads(access, p)
      /\ \A p \in Port \ {q} : ~Writes(access, p)
      /\ Sends(q) => Writes(access, q) /\ access.byte = ring[q].outbuf[ring[q].out_hw]
      /\ ~Sends(q) => ~Writes(access, q)
    <2>1. CASE Sends(q)
        <3>1. access = Write(q, ring[q].outbuf[ring[q].out_hw]) BY <1>4, <2>1
        <3>. QED BY <2>1, <3>1 DEF Write, Reads, Writes
    <2>2. CASE ~Sends(q) BY <1>5, <2>2 DEF NoAccess, Reads, Writes
    <2>. QED BY <2>1, <2>2
<1>8. seen' = [seen EXCEPT ![q].recv = FALSE] BY DEF Serve
<1>9. seen'[q].recv = FALSE /\ \A p \in Port \ {q} : seen'[p] = seen[p]
    BY <1>1, <1>8 DEF RegValue
<1>. DEFINE b == Buffered(ring[q], seen[q])
            new == [b EXCEPT !.out_hw = IF Sends(q) THEN Next1(@) ELSE @]
<1>10. ring' = [ring EXCEPT ![q] = new] BY <1>1 DEF Serve
<1>11. b \in Ring BY <1>1, <1>2, Rounds DEF Buffered, Ring
<1>12. SameOut(ring[q], b) BY <1>1 DEF Buffered, Ring, SameOut
<1>13. IF seen[q].recv
       THEN /\ b.inbuf = [ring[q].inbuf EXCEPT ![ring[q].in_hw] = seen[q].byte]
            /\ b.in_hw = Next1(ring[q].in_hw) /\ b.in_cpu = ring[q].in_cpu
       ELSE SameIn(ring[q], b)
    BY <1>1 DEF Buffered, Ring, SameIn
<1>. HIDE DEF b
<1>14. /\ SameIn(b, new) /\ new.outbuf = b.outbuf /\ new.out_cpu = b.out_cpu
       /\ new.out_hw = IF Sends(q) THEN Next1(b.out_hw) ELSE b.out_hw
    BY <1>11 DEF Ring, SameIn
<1>. HIDE DEF new
<1>15. ring'[q] = new /\ \A p \in Port \ {q} : ring'[p] = ring[p] BY <1>1, <1>10
<1>16. ServesPort(q, access)
    BY <1>7, <1>9, <1>12, <1>13, <1>14, <1>15 DEF ServesPort, SameIn, SameOut
<1>. QED BY <1>3, <1>6, <1>7, <1>9, <1>15, <1>16

\* Serving a port takes from the program's ring what it writes, and adds to it
\* what it has read: a ring with a byte to read keeps one, a ring with room to
\* write keeps room.
LEMMA ServesRoom ==
    ASSUME TypeOK, NEW q \in Port, NEW access, ServesPort(q, access),
           InOrder(ring[q], seen[q].recv, seen[q].byte, Waits(q), recvByte[q], First(q))
    PROVE  /\ ring[q].in_hw # ring[q].in_cpu => ring'[q].in_hw # ring'[q].in_cpu
           /\ Distance(ring[q].out_cpu, ring[q].out_hw) < RingSize - 1 =>
                  Distance(ring'[q].out_cpu, ring'[q].out_hw) < RingSize - 1
<1>1. ring[q] \in Ring /\ seen[q].recv \in BOOLEAN /\ Waits(q) \in BOOLEAN
    BY DEF TypeOK, RegTypeOK, RegValue, Waits, PortState
<1>. DEFINE hw == ring[q].in_hw
            cpu == ring[q].in_cpu
            n == Distance(hw, cpu)
<1>2. hw \in Index /\ cpu \in Index /\ n \in Index BY <1>1, RingIndices, Distances
<1>3. ring[q].in_hw # ring[q].in_cpu => ring'[q].in_hw # ring'[q].in_cpu
    <2>1. CASE seen[q].recv = TRUE
        <3>1. n + 1 + Bit(Waits(q)) < RingSize
            BY <2>1 DEF InOrder, Bit
        <3>2. n < RingSize - 1 BY <1>1, <1>2, <3>1, Sizes DEF Index, Bit
        <3>3. Distance(Ahead(hw, 1), cpu) = n + 1 BY <1>2, <3>2, Distances
        <3>4. ring'[q].in_hw = Ahead(hw, 1) /\ ring'[q].in_cpu = cpu
            BY <1>2, <2>1, Reckoning DEF ServesPort
        <3>5. Distance(cpu, cpu) = 0 BY <1>2, Sizes DEF Distance, Index
        <3>6. n + 1 # 0 BY <1>2, Sizes DEF Index
        <3>. HIDE DEF n, hw, cpu
        <3>. QED BY <3>3, <3>4, <3>5, <3>6
    <2>2. CASE seen[q].recv = FALSE BY <2>2 DEF ServesPort, SameIn
    <2>. QED BY <1>1, <2>1, <2>2
<1>4. Distance(ring[q].out_cpu, ring[q].out_hw) < RingSize - 1 =>
          Distance(ring'[q].out_cpu, ring'[q].out_hw) < RingSize - 1
    <2>. DEFINE a == ring[q].out_cpu
                b == ring[q].out_hw
                m == Distance(a, b)
    <2>1. a \in Index /\ b \in Index /\ m \in Index BY <1>1, RingIndices, Distances
    <2>2. CASE Sends(q)
        <3>1. a # b BY <2>2 DEF Sends
        <3>2. Distance(a, Ahead(b, 1)) = m - 1 BY <2>1, <3>1, Distances
        <3>3. ring'[q].out_cpu = a /\ ring'[q].out_hw = Ahead(b, 1)
            BY <2>1, <2>2, Reckoning DEF ServesPort
        <3>4. m - 1 < RingSize - 1 BY <2>1, Sizes DEF Index
        <3>. HIDE DEF m, a, b
        <3>. QED BY <3>2, <3>3, <3>4
    <2>3. CASE ~Sends(q) BY <2>3 DEF ServesPort, SameOut
    <2>. QED BY <2>2, <2>3
<1>. QED BY <1>3, <1>4

\* The steps of the handler.
LEMMA HandlerBytes ==
    ASSUME TypeOK, TypeOK', NestInv, FlagInv, HandInv, ByteInv, AnyClock = FALSE,
           NEW pulses \in VBlank, Handler(pulses)
    PROVE  ByteInv'
<1>1. kbd \in Port /\ mouse \in Port /\ mouse # kbd BY DriverAssumption
<1>2. mpc' = mpc \/ (mpc = "handler" /\ mpc' = "idle")
    <2>1. CASE Return(pulses)
        <3>1. stack # <<>> => mpc # "handler" BY DEF NestInv
        <3>2. stack = <<>> => mpc = "handler"
            BY <2>1, Stacks DEF Return, InHandler, NestInv
        <3>. QED BY <2>1, <3>1, <3>2 DEF Return
    <2>2. CASE ~Return(pulses) BY <2>2 DEF Handler, ReadRegister, Serve
    <2>. QED BY <2>1, <2>2
<1>3. which' = which /\ got' = got /\ sent' = sent
    BY DEF Handler, ReadRegister, Serve, Return
<1>4. \A p \in Port : First(p)' = First(p) BY <1>2, <1>3 DEF First, Advances
<1>5. ASSUME NEW q \in Port, NEW at, NEW then, ReadRegister(q, at, then, pulses),
             at \notin Holding(q)
      PROVE  ByteInv'
    <2>0. Hardware(Read(q), FALSE, pulses) BY <1>5 DEF ReadRegister, Computes
    <2>10. Read(q) \in Access BY DEF Access
    <2>1. Hardware(Read(q), FALSE, pulses) /\ Read(q) \in Access BY <2>0, <2>10
    <2>2. OneStep(Read(q), FALSE, pulses) BY <2>1 DEF OneStep
    <2>3. ring' = ring /\ seen' = [seen EXCEPT ![q] = Value(q)] /\ hpc = at
        BY <1>5 DEF ReadRegister
    <2>4. seen \in [Port -> RegValue] BY DEF TypeOK
    <2>5. Ordered(q)' BY <1>3, <1>4, <1>5, <2>2, <2>3, <2>4, ReadPort
    <2>6. ASSUME NEW p \in Port, p # q PROVE Ordered(p)'
        <3>1. ~Reads(Read(q), p) /\ ~Writes(Read(q), p) BY <2>6 DEF Reads, Writes, Read
        <3>2. SameIn(ring[p], ring'[p]) /\ SameOut(ring[p], ring'[p]) BY <2>3 DEF SameIn, SameOut
        <3>. QED BY <1>3, <1>4, <2>1, <2>2, <2>3, <2>4, <2>6, <3>1, <3>2, IdlePort
    <2>. QED BY <1>2, <1>3, <2>3, <2>5, <2>6 DEF ByteInv
<1>6. ASSUME NEW q \in Port, NEW at, NEW then, Serve(q, at, then, pulses), at \in Holding(q)
      PROVE  ByteInv'
    <2>1. PICK access \in Access :
              /\ Hardware(access, FALSE, pulses) /\ ServesPort(q, access)
              /\ \A p \in Port \ {q} : /\ ~Reads(access, p) /\ ~Writes(access, p)
                                       /\ ring'[p] = ring[p] /\ seen'[p] = seen[p]
        BY <1>6, ServesTheRing
    <2>2. OneStep(access, FALSE, pulses) BY <2>1 DEF OneStep
    <2>3. hpc \in Holding(q) BY <1>6 DEF Serve
    <2>4. Ordered(q)' BY <1>3, <1>4, <2>1, <2>2, <2>3, ServePort
    <2>5. ASSUME NEW p \in Port, p # q PROVE Ordered(p)'
        <3>1. SameIn(ring[p], ring'[p]) /\ SameOut(ring[p], ring'[p])
            BY <2>1, <2>5 DEF SameIn, SameOut
        <3>. QED BY <1>3, <1>4, <2>1, <2>2, <2>5, <3>1, IdlePort
    <2>6. /\ ring[q].in_hw # ring[q].in_cpu => ring'[q].in_hw # ring'[q].in_cpu
          /\ Distance(ring[q].out_cpu, ring[q].out_hw) < RingSize - 1 =>
                 Distance(ring'[q].out_cpu, ring'[q].out_hw) < RingSize - 1
        BY <2>1, ServesRoom DEF ByteInv, Ordered
    <2>7. which \in Port BY DEF TypeOK
    <2>8. mpc' = "result" => ring'[which].in_hw # ring'[which].in_cpu
        BY <1>2, <2>1, <2>6, <2>7 DEF ByteInv
    <2>9. mpc' = "store" => Distance(ring'[which].out_cpu, ring'[which].out_hw) < RingSize - 1
        BY <1>2, <2>1, <2>6, <2>7 DEF ByteInv
    <2>. QED BY <1>3, <2>4, <2>5, <2>8, <2>9 DEF ByteInv
<1>7. CASE Return(pulses)
    <2>1. Hardware(NoAccess, FALSE, pulses) /\ NoAccess \in Access /\ ring' = ring /\ seen' = seen
        <3>1. NoAccess \in Access BY DEF Access
        <3>. QED BY <1>7, <3>1 DEF Return, Computes
    <2>2. OneStep(NoAccess, FALSE, pulses) BY <2>1 DEF OneStep
    <2>3. ASSUME NEW p \in Port PROVE Ordered(p)'
        <3>1. ~Reads(NoAccess, p) /\ ~Writes(NoAccess, p) BY DEF NoAccess, Reads, Writes
        <3>2. SameIn(ring[p], ring'[p]) /\ SameOut(ring[p], ring'[p]) BY <2>1 DEF SameIn, SameOut
        <3>. QED BY <1>3, <1>4, <2>1, <2>2, <3>1, <3>2, IdlePort
    <2>. QED BY <1>2, <1>3, <2>1, <2>3 DEF ByteInv
<1>8. /\ "readkbd" \notin Holding(kbd) /\ "readmouse" \notin Holding(mouse)
      /\ "kbd" \in Holding(kbd) /\ "mouse" \in Holding(mouse)
    BY <1>1 DEF Holding
<1>9. CASE ReadRegister(kbd, "readkbd", "readmouse", pulses) BY <1>1, <1>5, <1>8, <1>9
<1>10. CASE ReadRegister(mouse, "readmouse", "kbd", pulses) BY <1>1, <1>5, <1>8, <1>10
<1>11. CASE Serve(kbd, "kbd", "mouse", pulses) BY <1>1, <1>6, <1>8, <1>11
<1>12. CASE Serve(mouse, "mouse", "return", pulses) BY <1>1, <1>6, <1>8, <1>12
<1>. QED BY <1>7, <1>9, <1>10, <1>11, <1>12 DEF Handler

\* A step that touches no byte.
LEMMA UntouchedBytes ==
    ASSUME TypeOK, TypeOK', FlagInv, HandInv, ByteInv, AnyClock = FALSE,
           NEW ack, NEW pulses, Hardware(NoAccess, ack, pulses),
           ring' = ring, seen' = seen, got' = got, sent' = sent
    PROVE  \A p \in Port : First(p)' = First(p) => Ordered(p)'
<1>. SUFFICES ASSUME NEW p \in Port, First(p)' = First(p) PROVE Ordered(p)'
    OBVIOUS
<1>1. NoAccess \in Access /\ OneStep(NoAccess, ack, pulses) BY DEF Access, OneStep
<1>2. ~Reads(NoAccess, p) /\ ~Writes(NoAccess, p) BY DEF NoAccess, Reads, Writes
<1>3. SameIn(ring[p], ring'[p]) /\ SameOut(ring[p], ring'[p]) BY DEF SameIn, SameOut
<1>. QED BY <1>1, <1>2, <1>3, IdlePort

\* The steps of the program.
LEMMA ProgramBytes ==
    ASSUME TypeOK, TypeOK', FlagInv, HandInv, ByteInv, AnyClock = FALSE,
           NEW pulses \in VBlank, Program(pulses)
    PROVE  ByteInv'
<1>1. NoAccess \in Access /\ \A p \in Port : ~Reads(NoAccess, p) /\ ~Writes(NoAccess, p)
    BY DEF Access, NoAccess, Reads, Writes
<1>2. Hardware(NoAccess, FALSE, pulses) /\ seen' = seen
    BY DEF Program, ReadRing, Advance, WriteRing, Store, Computes
<1>3. OneStep(NoAccess, FALSE, pulses) BY <1>2 DEF OneStep
<1>4. which \in Port /\ ring \in [Port -> Ring] /\ got \in [Port -> Byte] /\ sent \in [Port -> Byte]
    BY DEF TypeOK
<1>5. ASSUME NEW q \in Port, ReadRing(q, pulses) PROVE ByteInv'
    <2>1. /\ mpc = "idle" /\ mpc' = "result" /\ which' = q /\ ring[q].in_hw # ring[q].in_cpu
          /\ got' = [got EXCEPT ![q] = ring[q].inbuf[ring[q].in_cpu]]
          /\ ring' = ring /\ sent' = sent
        BY <1>5 DEF ReadRing, Main
    <2>2. ring[q].inbuf[ring[q].in_cpu] = Later(got[q], 1)
        <3>1. ring[q].in_hw \in Index /\ ring[q].in_cpu \in Index BY <1>4, RingIndices
        <3>2. 0 \in 0 .. Distance(ring[q].in_hw, ring[q].in_cpu) - 1
            <4>1. Distance(ring[q].in_hw, ring[q].in_cpu) >= 1 BY <2>1, <3>1, Distances
            <4>2. Distance(ring[q].in_hw, ring[q].in_cpu) \in Index BY <3>1, Distances
            <4>. QED BY <4>1, <4>2, Sizes DEF Index
        <3>3. ring[q].inbuf[Ahead(ring[q].in_cpu, 0)] = Later(First(q), 0)
            BY <3>2 DEF ByteInv, Ordered, InOrder
        <3>4. Ahead(ring[q].in_cpu, 0) = ring[q].in_cpu BY <3>1, Sizes DEF Ahead, Index
        <3>5. First(q) = Later(got[q], 1) BY <2>1 DEF First, Advances
        <3>6. Later(First(q), 0) = First(q) BY FirstType, Sizes DEF Later, Byte
        <3>. QED BY <3>3, <3>4, <3>5, <3>6
    <2>3. ASSUME NEW p \in Port PROVE First(p)' = First(p)
        <3>1. First(p) = Later(got[p], 1) BY <2>1 DEF First, Advances
        <3>2. CASE p = q
            <4>1. First(q)' = got'[q] BY <2>1 DEF First, Advances
            <4>. QED BY <1>4, <2>1, <2>2, <3>1, <3>2, <4>1
        <3>3. CASE p # q
            <4>1. First(p)' = Later(got'[p], 1) BY <2>1, <3>3 DEF First, Advances
            <4>. QED BY <1>4, <2>1, <3>1, <3>3, <4>1
        <3>. QED BY <3>2, <3>3
    <2>4. ASSUME NEW p \in Port PROVE Ordered(p)'
        <3>1. SameIn(ring[p], ring'[p]) /\ SameOut(ring[p], ring'[p]) BY <2>1 DEF SameIn, SameOut
        <3>. QED BY <1>1, <1>2, <1>3, <2>1, <2>3, <3>1, IdlePort
    <2>. QED BY <2>1, <2>4 DEF ByteInv
<1>6. CASE Advance(pulses)
    <2>0. PICK q \in Port : q = which BY <1>4
    <2>. DEFINE s == [ring[q] EXCEPT !.in_cpu = Next1(@)]
    <2>1. /\ mpc = "result" /\ mpc' = "idle" /\ which' = which /\ got' = got /\ sent' = sent
          /\ ring' = [ring EXCEPT ![q] = s]
        BY <1>4, <1>6, <2>0 DEF Advance, Main
    <2>2. /\ s.in_cpu = Next1(ring[q].in_cpu) /\ s.in_hw = ring[q].in_hw /\ s.inbuf = ring[q].inbuf
          /\ SameOut(ring[q], s)
        BY <1>4 DEF Ring, SameOut
    <2>. HIDE DEF s
    <2>3. ring'[q] = s /\ (\A p \in Port : p # q => ring'[p] = ring[p]) /\ s \in Ring
        BY <1>4, <2>1 DEF TypeOK
    <2>4. First(q) = got[q] /\ First(q)' = Later(got[q], 1)
        BY <2>0, <2>1 DEF First, Advances
    <2>5. ring[q].in_hw # ring[q].in_cpu BY <2>0, <2>1 DEF ByteInv
    <2>6. InOrder(s, seen[q].recv, seen[q].byte, Waits(q), recvByte[q], First(q)')
        <3>1. InOrder(ring[q], seen[q].recv, seen[q].byte, Waits(q), recvByte[q], First(q))
            BY <1>4 DEF ByteInv, Ordered
        <3>2. seen[q].recv \in BOOLEAN /\ Waits(q) \in BOOLEAN /\ got[q] \in Byte
            BY <1>4 DEF TypeOK, RegTypeOK, PortState, RegValue, Waits
        <3>. QED BY <1>4, <2>2, <2>3, <2>4, <2>5, <3>1, <3>2, InAdvances
    <2>7. InOrder(s, seen[q].recv, seen[q].byte, Waits(q)', recvByte'[q], First(q)')
        <3>1. Distance(s.in_hw, s.in_cpu) <= Distance(ring[q].in_hw, ring[q].in_cpu)
            <4>1. ring[q].in_hw \in Index /\ ring[q].in_cpu \in Index BY <1>4, RingIndices
            <4>2. /\ Distance(ring[q].in_hw, Ahead(ring[q].in_cpu, 1))
                         = Distance(ring[q].in_hw, ring[q].in_cpu) - 1
                  /\ Distance(ring[q].in_hw, ring[q].in_cpu) \in Index
                BY <2>5, <4>1, Distances
            <4>3. s.in_cpu = Ahead(ring[q].in_cpu, 1) BY <2>2, <4>1, Reckoning
            <4>. QED BY <2>2, <4>2, <4>3, Sizes DEF Index
        <3>2. First(q)' \in Byte BY <1>4, <2>4, FirstType
        <3>3. q \in Port /\ s \in Ring /\ ~Reads(NoAccess, q) BY <1>1, <1>4, <2>3
        <3>. QED BY <1>1, <1>2, <2>6, <3>1, <3>2, <3>3, Arrival
    <2>8. OutOrder(s, sendBusy(q)', sendbyte'[q], sent[q], Later(taken'[q], 1))
        <3>1. OutOrder(s, sendBusy(q), sendbyte[q], sent[q], Later(taken[q], 1))
            BY <1>4, <2>2, SameOrder DEF ByteInv, Ordered
        <3>2. q \in Port /\ s \in Ring /\ ~Writes(NoAccess, q) BY <1>1, <1>4, <2>3
        <3>. QED BY <1>1, <1>2, <3>1, <3>2, Departure
    <2>9. Ordered(q)' BY <1>2, <2>1, <2>3, <2>7, <2>8 DEF Ordered
    <2>10. ASSUME NEW p \in Port, p # q PROVE Ordered(p)'
        <3>1. SameIn(ring[p], ring'[p]) /\ SameOut(ring[p], ring'[p])
            BY <2>3, <2>10 DEF SameIn, SameOut
        <3>2. First(p)' = First(p) BY <2>0, <2>1, <2>10 DEF First, Advances
        <3>. QED BY <1>1, <1>2, <1>3, <2>1, <3>1, <3>2, IdlePort
    <2>. QED BY <2>0, <2>1, <2>9, <2>10 DEF ByteInv
<1>7. ASSUME NEW q \in Port, WriteRing(q, pulses) PROVE ByteInv'
    <2>1. /\ mpc = "idle" /\ mpc' = "store" /\ which' = q /\ ~RingFull(ring[q])
          /\ ring' = ring /\ sent' = sent /\ got' = got
        BY <1>7 DEF WriteRing, Main
    <2>2. \A p \in Port : First(p)' = First(p) BY <2>1 DEF First, Advances
    <2>3. Distance(ring[q].out_cpu, ring[q].out_hw) < RingSize - 1
        <3>. DEFINE a == ring[q].out_cpu
                    b == ring[q].out_hw
        <3>1. a \in Index /\ b \in Index BY <1>4, RingIndices
        <3>2. b # Ahead(a, 1) BY <2>1, <3>1, Reckoning DEF RingFull
        <3>. HIDE DEF a, b
        <3>3. Distance(a, b) < RingSize - 1
            BY <3>1, <3>2, Sizes DEF Index, Ahead, Distance
        <3>. QED BY <3>3 DEF a, b
    <2>. QED BY <1>2, <2>1, <2>2, <2>3, UntouchedBytes DEF ByteInv
<1>8. CASE Store(pulses)
    <2>0. PICK q \in Port : q = which BY <1>4
    <2>. DEFINE new == Succ(sent[q])
                s == [ring[q] EXCEPT !.outbuf[ring[q].out_cpu] = new, !.out_cpu = Next1(@)]
    <2>1. /\ mpc = "store" /\ mpc' = "handler" /\ which' = which /\ got' = got
          /\ sent' = [sent EXCEPT ![q] = new]
        BY <1>8, <2>0 DEF Store, Main
    <2>2. sent'[q] = new BY <1>4, <2>1
    <2>3. ring' = [ring EXCEPT ![q] = s] BY <1>4, <1>8, <2>0, <2>2 DEF Store
    <2>4. /\ s.outbuf = [ring[q].outbuf EXCEPT ![ring[q].out_cpu] = new]
          /\ s.out_cpu = Next1(ring[q].out_cpu) /\ s.out_hw = ring[q].out_hw
          /\ SameIn(ring[q], s)
        BY <1>4 DEF Ring, SameIn
    <2>5. new = Later(sent[q], 1) /\ sent[q] \in Byte BY <1>4, Reckoning
    <2>. HIDE DEF s, new
    <2>6. ring'[q] = s /\ (\A p \in Port : p # q => ring'[p] = ring[p]) /\ s \in Ring
        BY <1>4, <2>3 DEF TypeOK
    <2>7. \A p \in Port : First(p)' = First(p) BY <2>0, <2>1 DEF First, Advances
    <2>8. Distance(ring[q].out_cpu, ring[q].out_hw) < RingSize - 1 BY <2>0, <2>1 DEF ByteInv
    <2>9. OutOrder(s, sendBusy(q), sendbyte[q], new, Later(taken[q], 1))
        <3>1. OutOrder(ring[q], sendBusy(q), sendbyte[q], sent[q], Later(taken[q], 1))
            BY <1>4 DEF ByteInv, Ordered
        <3>2. sendBusy(q) \in BOOLEAN /\ Later(taken[q], 1) \in Byte
            <4>1. taken[q] \in Byte /\ 1 \in 0 .. Bytes - 1 BY <1>4, Sizes DEF TypeOK
            <4>. QED BY <1>4, <4>1, Laters DEF TypeOK, RegTypeOK, PortState, sendBusy
        <3>. QED BY <1>4, <2>4, <2>5, <2>6, <2>8, <3>1, <3>2, OutStored
    <2>10. OutOrder(s, sendBusy(q)', sendbyte'[q], new, Later(taken'[q], 1))
        <3>1. q \in Port /\ s \in Ring /\ ~Writes(NoAccess, q) BY <1>1, <1>4, <2>6
        <3>. QED BY <1>1, <1>2, <2>9, <3>1, Departure
    <2>11. InOrder(s, seen[q].recv, seen[q].byte, Waits(q)', recvByte'[q], First(q))
        <3>1. InOrder(s, seen[q].recv, seen[q].byte, Waits(q), recvByte[q], First(q))
            BY <1>4, <2>4, SameOrder DEF ByteInv, Ordered
        <3>2. Distance(s.in_hw, s.in_cpu) <= Distance(ring[q].in_hw, ring[q].in_cpu)
            <4>1. Distance(ring[q].in_hw, ring[q].in_cpu) \in Index BY <1>4, RingIndices, Distances
            <4>. QED BY <2>4, <4>1, Sizes DEF SameIn, Index
        <3>3. First(q) \in Byte BY <1>4, FirstType
        <3>4. q \in Port /\ s \in Ring /\ ~Reads(NoAccess, q) BY <1>1, <1>4, <2>6
        <3>. QED BY <1>1, <1>2, <3>1, <3>2, <3>3, <3>4, Arrival
    <2>12. Ordered(q)' BY <1>2, <1>4, <2>1, <2>2, <2>6, <2>7, <2>10, <2>11 DEF Ordered
    <2>13. ASSUME NEW p \in Port, p # q PROVE Ordered(p)'
        <3>1. SameIn(ring[p], ring'[p]) /\ SameOut(ring[p], ring'[p])
            BY <2>6, <2>13 DEF SameIn, SameOut
        <3>2. sent'[p] = sent[p] BY <1>4, <2>1, <2>13
        <3>. QED BY <1>1, <1>2, <1>3, <2>7, <3>1, <3>2, IdlePort
    <2>. QED BY <2>0, <2>1, <2>12, <2>13 DEF ByteInv
<1>. QED BY <1>5, <1>6, <1>7, <1>8, DriverAssumption DEF Program

LEMMA ByteInit == Init => ByteInv
<1>. SUFFICES ASSUME Init, NEW p \in Port PROVE Ordered(p)
    BY DEF Init, ByteInv
<1>1. /\ ring[p] = EmptyRing /\ seen[p].recv = FALSE /\ got[p] = 0 /\ sent[p] = 0 /\ taken[p] = 0
      /\ recvreg[p] = FALSE /\ sendtrigger[p] = FALSE /\ recvByte[p] = 0 /\ mpc = "idle"
    BY DEF Init, RegInit
<1>2. port[p] = [com |-> "idle", sendTriggerLoc |-> FALSE, recvTrigger |-> FALSE, sendDone |-> FALSE]
    BY DEF Init, PortInit
<1>3. Waits(p) = FALSE /\ sendBusy(p) = FALSE BY <1>1, <1>2 DEF Waits, sendBusy
<1>4. /\ ring[p].in_hw = 0 /\ ring[p].in_cpu = 0 /\ ring[p].out_hw = 0 /\ ring[p].out_cpu = 0
    BY <1>1 DEF EmptyRing
<1>5. Distance(0, 0) = 0 /\ Later(Later(0, 1), 0) = Later(0, 1) BY Sizes DEF Distance, Later
<1>6. Bit(FALSE) = 0 BY DEF Bit
<1>7. /\ 0 + 0 + 0 < RingSize /\ 0 + 0 = 0 /\ 0 + 0 + 0 = 0 /\ \A i \in 0 .. 0 - 1 : FALSE BY Sizes
<1>8. /\ InOrder(ring[p], FALSE, seen[p].byte, FALSE, 0, Later(0, 1))
      /\ OutOrder(ring[p], FALSE, sendbyte[p], 0, Later(0, 1))
    <2>. HIDE DEF Distance, Later
    <2>1. InOrder(ring[p], FALSE, seen[p].byte, FALSE, 0, Later(0, 1))
        BY <1>4, <1>5, <1>6, <1>7, Zenon DEF InOrder
    <2>2. OutOrder(ring[p], FALSE, sendbyte[p], 0, Later(0, 1))
        BY <1>4, <1>5, <1>6, <1>7, Zenon DEF OutOrder
    <2>. QED BY <2>1, <2>2
<1>9. First(p) = Later(0, 1) BY <1>1 DEF First, Advances
<1>. QED BY <1>1, <1>3, <1>8, <1>9 DEF Ordered

LEMMA ByteStep ==
    ASSUME TypeOK, TypeOK', IntInv, NestInv, FlagInv, HandInv, ByteInv, AnyClock = FALSE,
           NEW pulses \in VBlank, Rest(pulses) \/ Take(pulses) \/ Works(pulses)
    PROVE  ByteInv'
<1>1. ASSUME NEW ack, Hardware(NoAccess, ack, pulses),
             ring' = ring, seen' = seen, got' = got, sent' = sent, mpc' = mpc, which' = which
      PROVE  ByteInv'
    <2>1. \A p \in Port : First(p)' = First(p) BY <1>1 DEF First, Advances
    <2>2. \A p \in Port : Ordered(p)' BY <1>1, <2>1, UntouchedBytes
    <2>. QED BY <1>1, <2>2 DEF ByteInv
<1>2. CASE Rest(pulses) BY <1>1, <1>2 DEF Rest, Computes
<1>3. CASE Take(pulses) BY <1>1, <1>3 DEF Take
<1>4. CASE Acknowledge(pulses) BY <1>1, <1>4 DEF Acknowledge
<1>5. CASE ReturnVBlank(pulses) BY <1>1, <1>5 DEF ReturnVBlank, Computes
<1>6. CASE Handler(pulses) BY <1>6, HandlerBytes
<1>7. CASE Program(pulses) BY <1>7, ProgramBytes
<1>. QED BY <1>2, <1>3, <1>4, <1>5, <1>6, <1>7 DEF Works

\* A sequence numbered from the successor of a number is consecutive to it.
Numbered(u, first) == \A i \in 1 .. Len(u) : u[i] = Later(first, i - 1)
LEMMA NumberedIsConsecutive ==
    ASSUME NEW u \in Seq(Byte), NEW before \in Byte, NEW last \in Byte,
           Numbered(u, Later(before, 1)), Len(u) <= Bytes,
           Later(last, 1) = Later(Later(before, 1), Len(u))
    PROVE  Consecutive(u, before, last)
<1>. DEFINE first == Later(before, 1)
            k == Len(u)
<1>1. k \in Nat /\ k <= Bytes /\ Bytes \in Nat /\ Bytes > 1 BY Sizes
<1>2. first \in Byte
    <2>1. 1 \in 0 .. Bytes - 1 BY <1>1
    <2>. QED BY <2>1, Laters
<1>3. Later(first, 0) = first BY <1>1, <1>2 DEF Later, Byte
<1>4. \A b, c \in Byte : Later(b, 1) = Later(c, 1) => b = c
    <2>1. 1 \in 0 .. Bytes - 1 BY <1>1
    <2>. QED BY <2>1, Laters
<1>5. \A i \in 1 .. k : u[i] = Later(first, i - 1) BY DEF Numbered
<1>6. CASE u = <<>>
    <2>1. k = 0 BY <1>6
    <2>2. Later(last, 1) = Later(before, 1) BY <1>3, <2>1
    <2>. QED BY <1>4, <1>6, <2>2 DEF Consecutive
<1>7. CASE u # <<>>
    <2>1. k >= 1 BY <1>7
    <2>. HIDE DEF first, k
    <2>2. u[1] = first
        <3>1. 1 \in 1 .. k /\ 1 - 1 = 0 BY <1>1, <2>1
        <3>. QED BY <1>3, <1>5, <3>1
    <2>3. u[k] = last
        <3>1. k \in 1 .. k /\ k - 1 \in 0 .. Bytes - 1 /\ k - 1 + 1 = k BY <1>1, <2>1
        <3>2. u[k] = Later(first, k - 1) BY <1>5, <3>1
        <3>3. Later(first, k - 1) \in Byte /\ Later(Later(first, k - 1), 1) = Later(first, k - 1 + 1)
            BY <1>2, <3>1, Laters
        <3>4. Later(last, 1) = Later(first, k) BY DEF first, k
        <3>. QED BY <1>4, <3>1, <3>2, <3>3, <3>4
    <2>4. ASSUME NEW i \in 1 .. k - 1
          PROVE  u[i + 1] = Succ(u[i])
        <3>1. /\ i \in 1 .. k /\ i + 1 \in 1 .. k /\ i - 1 \in 0 .. Bytes - 1
              /\ i + 1 - 1 = i /\ i - 1 + 1 = i
            BY <1>1
        <3>2. u[i] = Later(first, i - 1) /\ u[i + 1] = Later(first, i) BY <1>5, <3>1
        <3>3. Later(first, i - 1) \in Byte /\ Later(Later(first, i - 1), 1) = Later(first, i)
            BY <1>2, <3>1, Laters
        <3>4. Succ(u[i]) = Later(u[i], 1) BY <3>2, <3>3, Reckoning
        <3>. QED BY <3>2, <3>3, <3>4
    <2>5. Succ(before) = first BY Reckoning DEF first
    <2>. QED BY <1>7, <2>2, <2>3, <2>4, <2>5 DEF Consecutive, k
<1>. QED BY <1>6, <1>7

LEMMA NumberedAppends ==
    ASSUME NEW u \in Seq(Byte), NEW v \in Seq(Byte), NEW first, Numbered(u, first),
           \A i \in 1 .. Len(v) : v[i] = Later(first, Len(u) + i - 1)
    PROVE  /\ u \o v \in Seq(Byte) /\ Len(u \o v) = Len(u) + Len(v)
           /\ Numbered(u \o v, first)
<1>1. u \o v \in Seq(Byte) /\ Len(u \o v) = Len(u) + Len(v) OBVIOUS
<1>2. \A i \in 1 .. Len(u) + Len(v) :
          (u \o v)[i] = IF i <= Len(u) THEN u[i] ELSE v[i - Len(u)]
    OBVIOUS
<1>3. Len(u) \in Nat /\ Len(v) \in Nat OBVIOUS
<1>4. ASSUME NEW i \in 1 .. Len(u) + Len(v)
      PROVE  (u \o v)[i] = Later(first, i - 1)
    <2>1. CASE i <= Len(u) BY <1>2, <1>3, <2>1 DEF Numbered
    <2>2. CASE i > Len(u)
        <3>1. i - Len(u) \in 1 .. Len(v) /\ Len(u) + (i - Len(u)) - 1 = i - 1 BY <1>3, <2>2
        <3>2. (u \o v)[i] = v[i - Len(u)] BY <1>2, <1>3, <2>2
        <3>3. v[i - Len(u)] = Later(first, Len(u) + (i - Len(u)) - 1) BY <3>1
        <3>. QED BY <3>1, <3>2, <3>3
    <2>. QED BY <1>3, <2>1, <2>2
<1>. QED BY <1>1, <1>4 DEF Numbered

\* What the rings hold, as sequences.
LEMMA RingSequences ==
    ASSUME NEW r \in Ring
    PROVE  /\ InBytes(r) \in Seq(Byte) /\ Len(InBytes(r)) = Distance(r.in_hw, r.in_cpu)
           /\ \A i \in 1 .. Len(InBytes(r)) : InBytes(r)[i] = r.inbuf[Ahead(r.in_cpu, i - 1)]
           /\ OutBytes(r) \in Seq(Byte) /\ Len(OutBytes(r)) = Distance(r.out_cpu, r.out_hw)
           /\ \A i \in 1 .. Len(OutBytes(r)) : OutBytes(r)[i] = r.outbuf[Ahead(r.out_hw, i - 1)]
<1>1. /\ r.in_hw \in Index /\ r.in_cpu \in Index /\ r.out_hw \in Index /\ r.out_cpu \in Index
      /\ \A i \in Index : r.inbuf[i] \in Byte /\ r.outbuf[i] \in Byte
      /\ InCount(r) = Distance(r.in_hw, r.in_cpu) /\ OutCount(r) = Distance(r.out_cpu, r.out_hw)
    BY RingIndices
<1>2. InCount(r) \in Index /\ OutCount(r) \in Index BY <1>1, Distances
<1>3. InCount(r) \in 0 .. RingSize - 1 /\ OutCount(r) \in 0 .. RingSize - 1 BY <1>2 DEF Index
<1>4. ASSUME NEW a \in Index, NEW n \in 0 .. RingSize - 1, NEW i \in 1 .. n
      PROVE  (a + i - 1) % RingSize = Ahead(a, i - 1) /\ Ahead(a, i - 1) \in Index
    <2>1. i - 1 \in Index /\ i - 1 \in 0 .. RingSize /\ a + i - 1 = a + (i - 1)
        BY Sizes DEF Index
    <2>2. (a + (i - 1)) % RingSize = Ahead(a, i - 1) BY <2>1, Reckoning
    <2>3. Ahead(a, i - 1) \in Index BY <2>1, Aheads
    <2>. QED BY <2>1, <2>2, <2>3
<1>5. /\ \A i \in 1 .. InCount(r) : /\ InBytes(r)[i] = r.inbuf[Ahead(r.in_cpu, i - 1)]
                                    /\ InBytes(r)[i] \in Byte
      /\ InBytes(r) \in [1 .. InCount(r) -> Byte]
    BY <1>1, <1>3, <1>4 DEF InBytes
<1>6. /\ \A i \in 1 .. OutCount(r) : /\ OutBytes(r)[i] = r.outbuf[Ahead(r.out_hw, i - 1)]
                                     /\ OutBytes(r)[i] \in Byte
      /\ OutBytes(r) \in [1 .. OutCount(r) -> Byte]
    BY <1>1, <1>3, <1>4 DEF OutBytes
<1>7. InCount(r) \in Nat /\ OutCount(r) \in Nat BY <1>3, Sizes
<1>8. InBytes(r) \in Seq(Byte) /\ Len(InBytes(r)) = InCount(r) BY <1>5, <1>7
<1>9. OutBytes(r) \in Seq(Byte) /\ Len(OutBytes(r)) = OutCount(r) BY <1>6, <1>7
<1>. QED BY <1>1, <1>5, <1>6, <1>8, <1>9

\* A sequence of no or of one byte.
Perhaps(b, byte) == IF b THEN <<byte>> ELSE <<>>
LEMMA PerhapsOne ==
    ASSUME NEW b \in BOOLEAN, NEW byte, b => byte \in Byte
    PROVE  /\ Perhaps(b, byte) \in Seq(Byte) /\ Len(Perhaps(b, byte)) = Bit(b)
           /\ \A i \in 1 .. Len(Perhaps(b, byte)) : b /\ i = 1 /\ Perhaps(b, byte)[i] = byte
<1>1. CASE b BY <1>1 DEF Perhaps, Bit
<1>2. CASE ~b BY <1>2 DEF Perhaps, Bit
<1>. QED BY <1>1, <1>2

\* The way in: the ring, the driver's hands, the register.
LEMMA InConsecutive ==
    ASSUME NEW r \in Ring, NEW hand \in BOOLEAN, NEW handByte \in Byte, NEW waits \in BOOLEAN,
           NEW last \in Byte, NEW before \in Byte,
           InOrder(r, hand, handByte, waits, last, Later(before, 1))
    PROVE  Consecutive(InBytes(r) \o Perhaps(hand, handByte) \o Perhaps(waits, last), before, last)
<1>. DEFINE first == Later(before, 1)
            n == Distance(r.in_hw, r.in_cpu)
            h == Perhaps(hand, handByte)
            w == Perhaps(waits, last)
            u == InBytes(r) \o h
<1>1. first \in Byte
    <2>1. 1 \in 0 .. Bytes - 1 BY Sizes
    <2>. QED BY <2>1, Laters
<1>2. n \in Index
    <2>1. r.in_hw \in Index /\ r.in_cpu \in Index BY RingIndices
    <2>. QED BY <2>1, Distances
<1>3. n \in 0 .. RingSize - 1 /\ Bit(hand) \in 0 .. 1 /\ Bit(waits) \in 0 .. 1 BY <1>2 DEF Index, Bit
<1>4. /\ n + Bit(hand) + Bit(waits) < RingSize
      /\ \A i \in 0 .. n - 1 : r.inbuf[Ahead(r.in_cpu, i)] = Later(first, i)
      /\ hand => handByte = Later(first, n)
      /\ Later(last, 1) = Later(first, n + Bit(hand) + Bit(waits))
    BY DEF InOrder
<1>5. /\ InBytes(r) \in Seq(Byte) /\ Len(InBytes(r)) = n
      /\ \A i \in 1 .. n : InBytes(r)[i] = r.inbuf[Ahead(r.in_cpu, i - 1)]
    BY RingSequences
<1>6. h \in Seq(Byte) /\ Len(h) = Bit(hand) /\ \A i \in 1 .. Len(h) : hand /\ i = 1 /\ h[i] = handByte
    BY PerhapsOne
<1>7. w \in Seq(Byte) /\ Len(w) = Bit(waits) /\ \A i \in 1 .. Len(w) : waits /\ i = 1 /\ w[i] = last
    BY PerhapsOne
<1>. HIDE DEF first, n, h, w
<1>8. Numbered(InBytes(r), first)
    <2>1. \A i \in 1 .. n : i - 1 \in 0 .. n - 1 BY <1>3
    <2>. QED BY <1>4, <1>5, <2>1 DEF Numbered
<1>9. u \in Seq(Byte) /\ Len(u) = n + Bit(hand) /\ Numbered(u, first)
    <2>1. \A i \in 1 .. Len(h) : h[i] = Later(first, Len(InBytes(r)) + i - 1)
        <3>1. n + 1 - 1 = n BY <1>3
        <3>. QED BY <1>4, <1>5, <1>6, <3>1
    <2>. QED BY <1>5, <1>6, <1>8, <2>1, NumberedAppends
<1>. HIDE DEF u
<1>10. waits => last = Later(first, n + Bit(hand))
    <2>1. SUFFICES ASSUME waits PROVE last = Later(first, n + Bit(hand)) OBVIOUS
    <2>2. Bit(waits) = 1 BY <2>1 DEF Bit
    <2>3. n + Bit(hand) \in 0 .. Bytes - 1 /\ 1 \in 0 .. Bytes - 1 BY <1>3, <1>4, <2>2, Sizes
    <2>4. /\ Later(first, n + Bit(hand)) \in Byte
          /\ Later(Later(first, n + Bit(hand)), 1) = Later(first, n + Bit(hand) + 1)
        BY <1>1, <2>3, Laters
    <2>. QED BY <1>4, <2>2, <2>3, <2>4, Laters
<1>11. u \o w \in Seq(Byte) /\ Len(u \o w) = n + Bit(hand) + Bit(waits) /\ Numbered(u \o w, first)
    <2>1. \A i \in 1 .. Len(w) : w[i] = Later(first, Len(u) + i - 1)
        <3>1. n + Bit(hand) + 1 - 1 = n + Bit(hand) BY <1>3
        <3>. QED BY <1>7, <1>9, <1>10, <3>1
    <2>. QED BY <1>7, <1>9, <2>1, NumberedAppends
<1>12. n + Bit(hand) + Bit(waits) <= Bytes BY <1>3, <1>4, Sizes
<1>13. Consecutive(u \o w, before, last)
    BY <1>4, <1>11, <1>12, NumberedIsConsecutive DEF first
<1>. QED BY <1>13 DEF u, h, w

\* The way out: the port, the ring.
LEMMA OutConsecutive ==
    ASSUME NEW r \in Ring, NEW busy \in BOOLEAN, NEW byte \in Byte,
           NEW last \in Byte, NEW before \in Byte,
           OutOrder(r, busy, byte, last, Later(before, 1))
    PROVE  Consecutive(Perhaps(busy, byte) \o OutBytes(r), before, last)
<1>. DEFINE first == Later(before, 1)
            n == Distance(r.out_cpu, r.out_hw)
            b == Perhaps(busy, byte)
<1>1. first \in Byte
    <2>1. 1 \in 0 .. Bytes - 1 BY Sizes
    <2>. QED BY <2>1, Laters
<1>2. n \in Index
    <2>1. r.out_hw \in Index /\ r.out_cpu \in Index BY RingIndices
    <2>. QED BY <2>1, Distances
<1>3. n \in 0 .. RingSize - 1 /\ Bit(busy) \in 0 .. 1 BY <1>2 DEF Index, Bit
<1>4. /\ busy => byte = first
      /\ \A i \in 0 .. n - 1 : r.outbuf[Ahead(r.out_hw, i)] = Later(first, Bit(busy) + i)
      /\ Later(last, 1) = Later(first, Bit(busy) + n)
    BY DEF OutOrder
<1>5. /\ OutBytes(r) \in Seq(Byte) /\ Len(OutBytes(r)) = n
      /\ \A i \in 1 .. n : OutBytes(r)[i] = r.outbuf[Ahead(r.out_hw, i - 1)]
    BY RingSequences
<1>6. b \in Seq(Byte) /\ Len(b) = Bit(busy) /\ \A i \in 1 .. Len(b) : busy /\ i = 1 /\ b[i] = byte
    BY PerhapsOne
<1>7. Later(first, 0) = first BY <1>1, Sizes DEF Later, Byte
<1>. HIDE DEF first, n, b
<1>8. Numbered(b, first)
    <2>1. 1 - 1 = 0 OBVIOUS
    <2>. QED BY <1>4, <1>6, <1>7, <2>1 DEF Numbered
<1>9. \A i \in 1 .. Len(OutBytes(r)) : OutBytes(r)[i] = Later(first, Len(b) + i - 1)
    <2>1. \A i \in 1 .. n : i - 1 \in 0 .. n - 1 /\ Bit(busy) + (i - 1) = Bit(busy) + i - 1 BY <1>3
    <2>. QED BY <1>4, <1>5, <1>6, <2>1
<1>10. /\ b \o OutBytes(r) \in Seq(Byte) /\ Len(b \o OutBytes(r)) = Bit(busy) + n
       /\ Numbered(b \o OutBytes(r), first)
    BY <1>5, <1>6, <1>8, <1>9, NumberedAppends
<1>11. Bit(busy) + n <= Bytes BY <1>3, Sizes
<1>12. Consecutive(b \o OutBytes(r), before, last)
    BY <1>4, <1>10, <1>11, NumberedIsConsecutive DEF first
<1>. QED BY <1>12 DEF b

LEMMA ByteInvEnough ==
    ASSUME TypeOK, HandInv, ByteInv
    PROVE  BytesOnce
<1>. SUFFICES ASSUME NEW p \in Port
              PROVE  /\ ~Advances(p) => Consecutive(Undelivered(p), got[p], recvByte[p])
                     /\ Consecutive(Perhaps(sendBusy(p), sendbyte[p]) \o OutBytes(ring[p]),
                                    taken[p], sent[p])
    BY DEF BytesOnce, Advances, Perhaps
<1>1. /\ ring[p] \in Ring /\ recvByte[p] \in Byte /\ sendbyte[p] \in Byte
      /\ sent[p] \in Byte /\ got[p] \in Byte /\ taken[p] \in Byte
      /\ seen[p].recv \in BOOLEAN /\ seen[p].byte \in Byte
      /\ Waits(p) \in BOOLEAN /\ sendBusy(p) \in BOOLEAN
    BY DEF TypeOK, RegTypeOK, RegValue, PortState, Waits, sendBusy
<1>2. hpc # "none" /\ seen[p].recv <=> seen[p].recv BY DEF HandInv, Holding
<1>3. Undelivered(p) = InBytes(ring[p]) \o Perhaps(seen[p].recv, seen[p].byte)
                                        \o Perhaps(Waits(p), recvByte[p])
    BY <1>2 DEF Undelivered, Perhaps, Waits
<1>4. ~Advances(p) => Consecutive(Undelivered(p), got[p], recvByte[p])
    <2>1. SUFFICES ASSUME ~Advances(p)
                   PROVE  Consecutive(Undelivered(p), got[p], recvByte[p])
        OBVIOUS
    <2>2. InOrder(ring[p], seen[p].recv, seen[p].byte, Waits(p), recvByte[p], Later(got[p], 1))
        BY <2>1 DEF ByteInv, Ordered, First
    <2>. QED BY <1>1, <1>3, <2>2, InConsecutive
<1>5. Consecutive(Perhaps(sendBusy(p), sendbyte[p]) \o OutBytes(ring[p]), taken[p], sent[p])
    <2>1. OutOrder(ring[p], sendBusy(p), sendbyte[p], sent[p], Later(taken[p], 1))
        BY DEF ByteInv, Ordered
    <2>. QED BY <1>1, <2>1, OutConsecutive
<1>. QED BY <1>4, <1>5

DriverInv == TypeOK /\ IntInv /\ NestInv /\ FlagInv /\ HandInv /\ ByteInv
LEMMA DriverStep ==
    ASSUME AnyClock = FALSE, DriverInv, [Next]_vars
    PROVE  DriverInv'
<1>1. TypeOK' /\ IntInv' BY TypeStep, IntInvStep DEF DriverInv
<1>2. CASE UNCHANGED vars
    <2>1. /\ UNCHANGED <<ena, port, recvByte, ic, int_ack, ring, talkers, blank>>
          /\ UNCHANGED <<recvreg, sendbyte, sendtrigger, ps2_int>>
          /\ UNCHANGED <<sr, stack, taking, hpc, seen, mpc, which>> /\ UNCHANGED <<sent, got, taken>>
        BY <1>2 DEF vars, regVars, cpuVars, history
    <2>2. NestInv' BY <2>1 DEF DriverInv, NestInv, Mask
    <2>3. FlagInv' BY <2>1 DEF DriverInv, FlagInv
    <2>4. HandInv' BY <2>1 DEF DriverInv, HandInv, sendBusy, Holding
    <2>5. ByteInv' BY <2>1 DEF DriverInv, ByteInv, Ordered, First, Advances, Waits, sendBusy
    <2>. QED BY <1>1, <2>2, <2>3, <2>4, <2>5 DEF DriverInv
<1>3. CASE Next
    <2>1. PICK pulses \in VBlank : Rest(pulses) \/ Take(pulses) \/ Works(pulses) BY <1>3 DEF Next
    <2>2. PICK access \in Access, ack \in BOOLEAN : Hardware(access, ack, pulses)
        BY <2>1, DriverTypeStep DEF DriverInv
    <2>3. NestInv' BY <2>1, NestStep DEF DriverInv
    <2>4. FlagInv' BY <2>2, FlagStep DEF DriverInv
    <2>5. HandInv' BY <2>1, HandStep DEF DriverInv
    <2>6. ByteInv' BY <1>1, <2>1, ByteStep DEF DriverInv
    <2>. QED BY <1>1, <2>3, <2>4, <2>5, <2>6 DEF DriverInv
<1>. QED BY <1>2, <1>3

\* Every byte a device sends reaches the program once and in order, and every
\* byte the program writes reaches the device once and in order, through the
\* registers, the driver and its rings, whatever the ports, interrupts, the
\* vertical blank and the program do meanwhile (ps2.c, lines 19-110, and
\* peripheral_controller.vhd).
THEOREM EveryByteOnce ==
    ASSUME AnyClock = FALSE
    PROVE  Spec => []BytesOnce
<1>. USE DEF Spec
<1>1. Init => DriverInv
    BY TypeInit, IntInvInit, NestInit, FlagInit, HandInit, ByteInit DEF DriverInv
<1>2. DriverInv /\ [Next]_vars => DriverInv' BY DriverStep
<1>3. DriverInv => BytesOnce BY ByteInvEnough DEF DriverInv
<1>. QED BY <1>1, <1>2, <1>3, PTL
=============================================================================
