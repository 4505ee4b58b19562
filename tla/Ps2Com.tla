------------------------------- MODULE Ps2Com -------------------------------
(***************************************************************************)
(* RTL/Peripherals/io_ps2_com.vhd, one port, on its two open-collector     *)
(* lines with a keyboard or mouse at the other end.  The device gives the  *)
(* clock in both directions; the host stops it by holding the clock low.   *)
(*                                                                         *)
(* Bits are named by their place in a frame (start, data 0-7, parity,      *)
(* stop), so that a frame out of step shows.                               *)
(***************************************************************************)
EXTENDS Integers, Sequences

CONSTANTS
    ClockFilter,          \* clocks the clock line must be steady for
    Wait100, Wait10,      \* 100 us and 10 us, in clocks with ena high
    MinPhase, MaxPhase    \* how long the device holds its clock high or low
ASSUME Ps2Assumption ==
    /\ ClockFilter \in Nat \ {0} /\ Wait10 \in Nat \ {0}
    \* The device's clock is slow for the filter, and fast for the wait.
    /\ MinPhase \in Nat /\ MinPhase >= ClockFilter + 6
    /\ MaxPhase \in Nat /\ MaxPhase >= MinPhase
    /\ Wait100 \in Nat /\ 2 * Wait100 > MaxPhase + ClockFilter

VARIABLES
    ena, clkReg, clkFilterCnt,
    comState, waitCount, bitCount, currentBit, recvByteLoc,
    sendTriggerLoc, sendDone, recvTrigger, recvByte,
    ps2_clk_out, ps2_dat_out,     \* the host's side of the lines; dat holds the bit it drives
    sendTrigger,                  \* from the peripheral controller
    device                        \* the device: what it does, its lines, and for how long

filterVars == <<ena, clkReg, clkFilterCnt>>
comVars == <<comState, waitCount, bitCount, currentBit, recvByteLoc,
             sendTriggerLoc, sendDone, recvTrigger, recvByte, ps2_clk_out, ps2_dat_out>>
ps2Vars == <<filterVars, comVars, sendTrigger, device>>

ComState == {"Idle", "Wait100", "WaitClockLow", "WaitClockHigh", "ClockAndDataLow", "WaitAck",
             "RecvBit", "WaitHighRecv"}

\* Bits of a frame by place.  A line that nobody drives is high.
StartBit == -1
Parity == 8
StopBit == 9
Bit == StartBit .. StopBit
High == 10
SentFrame == [i \in 1 .. 10 |-> i - 1]              \* data, parity, stop
RecvFrame == [i \in 1 .. 11 |-> i - 2]              \* start, data, parity, stop

-----------------------------------------------------------------------------
(* The lines.                                                              *)

ps2_clk_in == ps2_clk_out /\ device.clk
ps2_dat_in == IF ps2_dat_out # High THEN ps2_dat_out ELSE device.dat

clkLow == ~clkReg /\ clkFilterCnt = 0
clkHigh == clkReg /\ clkFilterCnt = 0

Filter ==
    /\ ena' = ~ena
    /\ clkReg' = ps2_clk_in
    /\ clkFilterCnt' = IF clkReg # ps2_clk_in THEN ClockFilter
                       ELSE IF clkFilterCnt # 0 THEN clkFilterCnt - 1 ELSE 0

-----------------------------------------------------------------------------
(* The state machine: where it goes, and what it drives.                   *)

FromIdle == IF clkLow THEN "RecvBit" ELSE IF sendTriggerLoc THEN "Wait100" ELSE "Idle"

\* Mutant: the start bit is not counted.
LastRecv_tooSoon == bitCount = 10
LastRecv == bitCount = 11

\* Mutant: one clock too many is waited for.
LastSent_tooLate == bitCount = 11
LastSent == bitCount = 10

NextState ==
    CASE comState = "Idle" -> FromIdle
      [] comState = "Wait100" /\ waitCount = 0 -> "ClockAndDataLow"
      [] comState = "ClockAndDataLow" /\ waitCount = 0 -> "WaitClockHigh"
      [] comState = "WaitClockHigh" /\ clkHigh -> "WaitClockLow"
      [] comState = "WaitClockLow" /\ clkLow -> IF LastSent THEN "WaitAck" ELSE "WaitClockHigh"
      [] comState = "WaitAck" /\ clkHigh -> "Idle"
      [] comState = "RecvBit" /\ clkLow -> "WaitHighRecv"
      [] comState = "WaitHighRecv" /\ clkHigh -> IF LastRecv THEN "Idle" ELSE "RecvBit"
      [] OTHER -> comState

Acked == comState = "WaitAck" /\ clkHigh
Received == comState = "WaitHighRecv" /\ clkHigh /\ LastRecv
BitTaken == comState = "RecvBit" /\ clkLow
BitSent == comState = "WaitClockLow" /\ clkLow /\ ~LastSent

BitCount == IF comState = "Idle" THEN 0
            ELSE IF BitTaken \/ BitSent THEN (bitCount + 1) % 16 ELSE bitCount

Last11(s) == SubSeq(s, Len(s) - 10, Len(s))

\* Mutant: the trigger is dropped when the send begins.
Trigger_dropped == (sendTriggerLoc \/ sendTrigger) /\ comState # "Wait100"
Trigger == (sendTriggerLoc \/ sendTrigger) /\ ~Acked

Com ==
    /\ comState' = NextState
    /\ waitCount' = CASE comState = "Idle" /\ sendTriggerLoc -> Wait100
                      [] comState = "Wait100" /\ waitCount = 0 -> Wait10
                      [] OTHER -> IF waitCount # 0 THEN waitCount - 1 ELSE 0
    /\ bitCount' = BitCount
    /\ currentBit' = CASE comState = "ClockAndDataLow" /\ waitCount = 0 -> StartBit
                       [] BitSent -> bitCount     \* data, parity, stop
                       [] OTHER -> currentBit
    /\ recvByteLoc' = IF BitTaken THEN Last11(Append(recvByteLoc, ps2_dat_in)) ELSE recvByteLoc
    /\ sendTriggerLoc' = Trigger
    /\ sendDone' = Acked
    /\ recvTrigger' = Received
    /\ recvByte' = IF Received THEN recvByteLoc ELSE recvByte
    /\ ps2_clk_out' = (comState \notin {"Wait100", "ClockAndDataLow"})
    /\ ps2_dat_out' = CASE comState = "ClockAndDataLow" -> StartBit
                        [] comState \in {"WaitClockHigh", "WaitClockLow"} -> currentBit
                        [] OTHER -> High

Host ==
    /\ Filter
    /\ IF ena THEN Com ELSE UNCHANGED comVars

-----------------------------------------------------------------------------
(* The device: it sends a frame when both lines are high, gives the clock  *)
(* for the host's frame when it finds the clock high and data low, and     *)
(* starts over when the clock is held low under it.                        *)

AtRest == [does |-> "idle", clk |-> TRUE, dat |-> High, bit |-> 0, taken |-> <<>>, since |-> 0]
Since(d) == [d EXCEPT !.since = IF @ < MaxPhase THEN @ + 1 ELSE @]
Now(d) == [d EXCEPT !.since = 0]
MayMove == device.since >= MinPhase
MustMove == device.since = MaxPhase

Begins == /\ device.does = "idle" /\ ps2_clk_in /\ ps2_dat_out = High
          /\ device' = Now([device EXCEPT !.does = "sending", !.dat = StartBit, !.bit = StartBit])
Answers == /\ device.does = "idle" /\ ps2_clk_in /\ ps2_dat_out # High
           /\ device' = Now([device EXCEPT !.does = "taking", !.taken = <<>>])

\* A frame from the device: the next bit is put on the line when the clock
\* goes high, and the frame is over with the stop bit.
SendLow == /\ device.does = "sending" /\ device.clk /\ ps2_clk_in
           /\ device' = Now([device EXCEPT !.clk = FALSE])
SendHigh == /\ device.does = "sending" /\ ~device.clk
            /\ device' = Now(IF device.bit = StopBit THEN AtRest
                             ELSE [device EXCEPT !.clk = TRUE, !.bit = @ + 1, !.dat = device.bit + 1])
Stopped == device.does = "sending" /\ device.clk /\ ~ps2_clk_out
GiveUp == Stopped /\ device' = AtRest

\* A frame to the device: it reads the host's bit at the end of each clock,
\* and holds data low for the last one.
TakeLow == /\ device.does = "taking" /\ device.clk
           /\ device' = Now([device EXCEPT !.clk = FALSE,
                                           !.dat = IF Len(device.taken) = 10 THEN StartBit ELSE High])
TakeHigh == /\ device.does = "taking" /\ ~device.clk
            /\ device' = Now(IF Len(device.taken) = 10 THEN AtRest
                             ELSE [device EXCEPT !.clk = TRUE, !.taken = Append(@, ps2_dat_in)])

Move == Begins \/ Answers \/ SendLow \/ SendHigh \/ TakeLow \/ TakeHigh
Device ==
    \/ GiveUp
    \/ ~Stopped /\ MayMove /\ Move
    \/ /\ ~Stopped /\ ~(MustMove /\ (device.does # "idle" \/ ps2_dat_out # High) /\ ps2_clk_in)
       /\ ~(MustMove /\ ~device.clk)
       /\ device' = Since(device)

-----------------------------------------------------------------------------
\* The peripheral controller triggers a send when the port is not busy, and
\* holds the trigger until the port has seen it.
sendBusy == sendTrigger \/ sendTriggerLoc
Triggers == sendTrigger' \in IF sendBusy THEN {sendTrigger /\ ~ena} ELSE BOOLEAN

ComInit ==
    /\ ena = FALSE /\ clkReg = TRUE /\ clkFilterCnt = 0
    /\ comState = "Idle" /\ waitCount = 0 /\ bitCount = 0 /\ currentBit = StartBit
    /\ recvByteLoc = [i \in 1 .. 11 |-> High] /\ recvByte = [i \in 1 .. 11 |-> High]
    /\ sendTriggerLoc = FALSE /\ sendDone = FALSE /\ recvTrigger = FALSE
    /\ ps2_clk_out = TRUE /\ ps2_dat_out = High
    /\ sendTrigger = FALSE /\ device = AtRest

ComNext == Host /\ Device /\ Triggers

ComSpec == ComInit /\ [][ComNext]_ps2Vars /\ WF_ps2Vars(ComNext)

-----------------------------------------------------------------------------
ComTypeOK ==
    /\ ena \in BOOLEAN /\ clkReg \in BOOLEAN /\ clkFilterCnt \in 0 .. ClockFilter
    /\ comState \in ComState /\ waitCount \in 0 .. (IF Wait10 > Wait100 THEN Wait10 ELSE Wait100)
    /\ bitCount \in 0 .. 15 /\ currentBit \in Bit
    /\ recvByteLoc \in [1 .. 11 -> Bit \union {High}] /\ recvByte \in [1 .. 11 -> Bit \union {High}]
    /\ sendTriggerLoc \in BOOLEAN /\ sendDone \in BOOLEAN /\ recvTrigger \in BOOLEAN
    /\ ps2_clk_out \in BOOLEAN /\ ps2_dat_out \in Bit \union {High}
    /\ sendTrigger \in BOOLEAN

\* Host and device keep step with each other's frames: what is reported as
\* received is one whole frame, however often the device was stopped in the
\* middle of one, and what the device has taken when it ends a frame is every
\* bit the host sent, once and in order.
InStep ==
    /\ recvTrigger => recvByte = RecvFrame
    /\ device.does = "taking" /\ Len(device.taken) = 10 => device.taken = SentFrame

\* The port as the peripheral controller sees it.
com == CASE comState = "Idle" -> "idle"
         [] comState \in {"RecvBit", "WaitHighRecv"} -> "receive"
         [] OTHER -> "send"
Abstract == INSTANCE Ps2Port WITH
    Port <- {"ps2"},
    port <- [p \in {"ps2"} |-> [com |-> com, sendTriggerLoc |-> sendTriggerLoc,
                                recvTrigger |-> recvTrigger, sendDone |-> sendDone]]
ImplementsPort == Abstract!PortSpec

\* A byte handed to the port is sent, although the device may start a frame
\* of its own at any moment the host leaves it.
SendCompletes == sendTriggerLoc ~> sendDone

=============================================================================
