--------------------------- MODULE Devices_proofs ---------------------------
(***************************************************************************)
(* Proofs about the PS/2 port (Ps2Com) and the DMA cache (DmaChannels).    *)
(*                                                                         *)
(* Host and device of a PS/2 port keep step because neither edge of the    *)
(* clock goes unseen: the filter lets it through well before the device's  *)
(* next edge, and a host that takes the clock holds it until the device    *)
(* must have given up.                                                     *)
(*                                                                         *)
(* A channel of the DMA cache delivers a transfer in order because what is *)
(* unread in its FIFO, in the write port, on its way and at its address    *)
(* register is at all times one run of memory that begins with the word    *)
(* its host is owed.                                                       *)
(***************************************************************************)
EXTENDS Ps2Com, DmaChannels, TLAPS, SequenceTheorems, WellFoundedInduction

-----------------------------------------------------------------------------
(* Host and device keep step.                                              *)

\* The device moved its clock no more than k clocks ago, counted to the next
\* clock with ena high.
Within(k) == device.since + (IF ena THEN 0 ELSE 1) <= k

\* The filter has followed the device's clock since the device last moved.
Settled ==
    device.since >= 1 =>
        clkReg = device.clk /\ (clkFilterCnt = 0 \/ clkFilterCnt + device.since <= ClockFilter + 1)

Waiting == device.does = "idle" /\ device.clk
Sending(bit) == device.does = "sending" /\ device.bit = bit /\ device.dat = bit
Taking(k) ==
    /\ device.does = "taking"
    /\ Len(device.taken) = k /\ \A i \in 1 .. k : device.taken[i] = i - 1

Symbols == Bit \union {High}
DeviceType == [does : {"idle", "sending", "taking"}, clk : BOOLEAN, dat : Symbols,
               bit : Bit, taken : Seq(Symbols), since : 0 .. MaxPhase]
DeviceTypeOK == device \in DeviceType /\ (device.does = "idle" => device.clk)

\* The last n bits received are the first n of a frame.
Collected(n) == \A i \in 1 .. n : recvByteLoc[11 - n + i] = i - 2

InIdle ==
    /\ ps2_clk_out /\ ps2_dat_out = High /\ Settled
    /\ \/ Waiting /\ clkReg
       \/ device.clk /\ Sending(StartBit) /\ clkReg
       \/ ~device.clk /\ Sending(StartBit) /\ Within(ClockFilter + 2)

InRecvBit ==
    /\ ps2_clk_out /\ ps2_dat_out = High /\ Settled
    /\ bitCount \in 0 .. 10 /\ Collected(bitCount)
    /\ \/ bitCount >= 1 /\ device.clk /\ Sending(bitCount - 1) /\ clkReg
       \/ ~device.clk /\ Sending(bitCount - 1) /\ Within(ClockFilter + 4)

InWaitHighRecv ==
    /\ ps2_clk_out /\ ps2_dat_out = High /\ Settled
    /\ bitCount \in 1 .. 11 /\ Collected(bitCount)
    /\ \/ ~device.clk /\ Sending(bitCount - 2) /\ device.since >= 1
       \/ bitCount <= 10 /\ device.clk /\ Sending(bitCount - 1) /\ Within(ClockFilter + 2)
       \/ bitCount = 11 /\ Waiting /\ Within(ClockFilter + 2)

\* Clocks since the host pulled the clock low.
Held == 2 * (Wait100 - 1 - waitCount) + (IF ena THEN 1 ELSE 0)

InWait100 ==
    /\ bitCount = 0 /\ ps2_dat_out = High /\ device.does # "taking"
    /\ ps2_clk_out => waitCount = Wait100
    /\ ~ps2_clk_out =>
        /\ waitCount < Wait100
        /\ Held >= 1 => ~clkReg /\ (clkFilterCnt = 0 \/ clkFilterCnt + Held <= ClockFilter + 1)
        /\ device.does = "sending" => Held <= IF device.clk THEN MaxPhase + 1 ELSE device.since

InClockAndDataLow ==
    bitCount = 0 /\ ~ps2_clk_out /\ Waiting /\ ~clkReg /\ clkFilterCnt = 0

InWaitClockHigh ==
    /\ bitCount \in 0 .. 10 /\ currentBit = bitCount - 1
    /\ \/ /\ bitCount = 0 /\ Waiting /\ ps2_dat_out = StartBit
          /\ ~ps2_clk_out => ~clkReg
       \/ /\ ps2_clk_out /\ Settled /\ ps2_dat_out = currentBit
          /\ device.clk /\ Taking(bitCount) /\ Within(ClockFilter + 2)
       \/ /\ ps2_clk_out /\ Settled /\ bitCount >= 1
          /\ ~device.clk /\ Taking(bitCount - 1) /\ device.since >= 1
          /\ ps2_dat_out = currentBit \/ Within(ClockFilter + 4)

InWaitClockLow ==
    /\ bitCount \in 0 .. 10 /\ currentBit = bitCount - 1
    /\ ps2_clk_out /\ ps2_dat_out = currentBit
    /\ \/ bitCount = 0 /\ Waiting /\ clkReg
       \/ Settled /\ device.clk /\ Taking(bitCount) /\ clkReg
       \/ Settled /\ ~device.clk /\ Taking(bitCount) /\ Within(ClockFilter + 2)

InWaitAck ==
    /\ ps2_clk_out /\ Settled
    /\ \/ ~device.clk /\ Taking(10) /\ device.since >= 1
       \/ Waiting /\ Within(ClockFilter + 2)

Lockstep ==
    CASE comState = "Idle" -> InIdle
      [] comState = "RecvBit" -> InRecvBit
      [] comState = "WaitHighRecv" -> InWaitHighRecv
      [] comState = "Wait100" -> InWait100
      [] comState = "ClockAndDataLow" -> InClockAndDataLow
      [] comState = "WaitClockHigh" -> InWaitClockHigh
      [] comState = "WaitClockLow" -> InWaitClockLow
      [] comState = "WaitAck" -> InWaitAck

ComInv ==
    /\ ComTypeOK /\ DeviceTypeOK
    /\ Lockstep
    /\ recvTrigger => recvByte = RecvFrame

-----------------------------------------------------------------------------
(* Types.                                                                  *)

\* What Append does to a sequence, in the form used below.
LEMMA Appended ==
    ASSUME NEW S, NEW s \in Seq(S), NEW x \in S
    PROVE  /\ Append(s, x) \in Seq(S) /\ Len(Append(s, x)) = Len(s) + 1
           /\ \A i \in 1 .. Len(s) : Append(s, x)[i] = s[i]
           /\ Append(s, x)[Len(s) + 1] = x
BY AppendProperties

\* The shift register drops its oldest bit (io_ps2_com.vhd, line 209).
LEMMA Shifted ==
    ASSUME NEW s \in [1 .. 11 -> Symbols], NEW x \in Symbols
    PROVE  Last11(Append(s, x)) = [i \in 1 .. 11 |-> IF i = 11 THEN x ELSE s[i + 1]]
<1>1. s \in Seq(Symbols) /\ Len(s) = 11
    <2>1. s \in Seq(Symbols) BY SeqDef
    <2>. QED BY <2>1, LenProperties, SMT
<1>2. /\ Append(s, x) \in Seq(Symbols) /\ Len(Append(s, x)) = 12
      /\ \A i \in 1 .. 11 : Append(s, x)[i] = s[i]
      /\ Append(s, x)[12] = x
    <2>1. /\ Append(s, x) \in Seq(Symbols) /\ Len(Append(s, x)) = Len(s) + 1
          /\ \A i \in 1 .. Len(s) : Append(s, x)[i] = s[i]
          /\ Append(s, x)[Len(s) + 1] = x BY <1>1, Appended, Zenon
    <2>. QED BY <1>1, <2>1, SMT
<1>3. /\ Last11(Append(s, x)) = SubSeq(Append(s, x), 2, 12)
      /\ SubSeq(Append(s, x), 2, 12) = [i \in 1 .. 11 |-> Append(s, x)[i + 1]]
    BY <1>2, SMT DEF Last11
<1>. QED BY <1>2, <1>3, SMT

\* What is read off the two lines.
LEMMA LineSymbols ==
    ASSUME ComTypeOK, DeviceTypeOK
    PROVE  ps2_dat_in \in Symbols /\ ps2_clk_in \in BOOLEAN
BY DEF ComTypeOK, DeviceTypeOK, ps2_dat_in, ps2_clk_in, DeviceType, Symbols

\* The port's registers keep their types.
LEMMA ComTypeStep ==
    ASSUME ComTypeOK, DeviceTypeOK, Lockstep, ComNext
    PROVE  ComTypeOK'
<1>. USE DEF ComTypeOK
<1>1. ena' \in BOOLEAN /\ clkReg' \in BOOLEAN /\ clkFilterCnt' \in 0 .. ClockFilter
    BY LineSymbols, Ps2Assumption, SMT DEF ComNext, Host, Filter
<1>2. CASE ~ena
    <2>1. UNCHANGED comVars BY <1>2 DEF ComNext, Host
    <2>2. sendTrigger' \in BOOLEAN BY DEF ComNext, Triggers
    <2>. QED BY <1>1, <2>1, <2>2 DEF comVars
<1>3. CASE ena
    <2>1. Com BY <1>3 DEF ComNext, Host
    <2>2. comState' \in ComState BY <2>1 DEF Com, NextState, FromIdle, ComState
    <2>3. waitCount' \in 0 .. (IF Wait10 > Wait100 THEN Wait10 ELSE Wait100)
        BY <2>1, Ps2Assumption, SMT DEF Com
    <2>4. bitCount' \in 0 .. 15 BY <2>1, SMT DEF Com, BitCount
    <2>5. BitSent => bitCount \in 0 .. 9
        BY SMT DEF BitSent, LastSent, Lockstep, InWaitClockLow
    <2>6. currentBit' \in Bit
        BY <2>1, <2>5, SMT DEF Com, Bit, StartBit, StopBit
    <2>7. recvByteLoc' \in [1 .. 11 -> Symbols]
        <3>1. recvByteLoc \in [1 .. 11 -> Symbols] BY DEF Symbols
        <3>2. Last11(Append(recvByteLoc, ps2_dat_in)) \in [1 .. 11 -> Symbols]
            BY <3>1, LineSymbols, Shifted, SMT
        <3>. QED BY <2>1, <3>1, <3>2 DEF Com
    <2>8. recvByte' \in [1 .. 11 -> Symbols] BY <2>1 DEF Com, Symbols
    <2>9. sendTriggerLoc' \in BOOLEAN /\ sendDone' \in BOOLEAN /\ recvTrigger' \in BOOLEAN
        BY <2>1 DEF Com, Trigger, Acked, Received
    <2>10. ps2_clk_out' \in BOOLEAN /\ sendTrigger' \in BOOLEAN
        BY <2>1 DEF Com, ComNext, Triggers
    <2>11. ps2_dat_out' \in Symbols
        BY <2>1, SMT DEF Com, Symbols, Bit, StartBit, StopBit
    <2>. QED BY <1>1, <2>2, <2>3, <2>4, <2>6, <2>7, <2>8, <2>9, <2>10, <2>11 DEF Symbols
<1>. QED BY <1>2, <1>3

SameDevice(d, e) ==
    d.does = e.does /\ d.clk = e.clk /\ d.dat = e.dat /\ d.bit = e.bit /\ d.taken = e.taken

\* Passing a clock and moving change only the device's time.
LEMMA Clocked ==
    ASSUME NEW d \in DeviceType
    PROVE  /\ Now(d) \in DeviceType /\ SameDevice(Now(d), d) /\ Now(d).since = 0
           /\ Since(d) \in DeviceType /\ SameDevice(Since(d), d)
           /\ Since(d).since = IF d.since < MaxPhase THEN d.since + 1 ELSE d.since
<1>1. Now(d) \in DeviceType /\ Now(d).since = 0
    BY Ps2Assumption, SMT DEF Now, DeviceType
<1>2. SameDevice(Now(d), d) BY Zenon DEF Now, DeviceType, SameDevice
<1>3. SameDevice(Since(d), d) BY Zenon DEF Since, DeviceType, SameDevice
<1>4. /\ Since(d) \in DeviceType
      /\ Since(d).since = IF d.since < MaxPhase THEN d.since + 1 ELSE d.since
    <2>. DEFINE s == IF d.since < MaxPhase THEN d.since + 1 ELSE d.since
    <2>1. d.since \in 0 .. MaxPhase BY DEF DeviceType
    <2>2. s \in 0 .. MaxPhase BY <2>1, Ps2Assumption, SMT
    <2>3. Since(d) = [d EXCEPT !.since = s] BY DEF Since
    <2>4. [d EXCEPT !.since = s] \in DeviceType /\ [d EXCEPT !.since = s].since = s
        BY <2>2, Zenon DEF DeviceType
    <2>. QED BY <2>3, <2>4
<1>. QED BY <1>1, <1>2, <1>3, <1>4

\* A device at rest.
LEMMA Resting ==
    /\ AtRest \in DeviceType /\ AtRest.does = "idle" /\ AtRest.clk
    /\ AtRest.dat = High /\ AtRest.since = 0
BY Ps2Assumption, SMT DEF AtRest, DeviceType, Symbols, Bit, StartBit, StopBit, High

\* What the device does in a clock, by what it was doing.
Ages ==
    /\ device' \in DeviceType /\ SameDevice(device', device)
    /\ device'.since = IF device.since < MaxPhase THEN device.since + 1 ELSE device.since
DeviceMoves == device.since >= MinPhase /\ device' \in DeviceType /\ device'.since = 0

\* What an idle device can do: start a frame, or answer the host's.
LEMMA DeviceIdle ==
    ASSUME DeviceTypeOK, Device, device.does = "idle"
    PROVE  \/ Ages
           \/ /\ DeviceMoves /\ ps2_clk_in /\ ps2_dat_out = High
              /\ device'.does = "sending" /\ device'.clk
              /\ device'.dat = StartBit /\ device'.bit = StartBit
           \/ /\ DeviceMoves /\ ps2_clk_in /\ ps2_dat_out # High
              /\ device'.does = "taking" /\ device'.clk /\ device'.taken = <<>>
<1>. USE DEF DeviceTypeOK
<1>1. CASE device' = Since(device) BY <1>1, Clocked DEF Ages
<1>2. CASE MayMove /\ Begins
    <2>. DEFINE d == [device EXCEPT !.does = "sending", !.dat = StartBit, !.bit = StartBit]
    <2>1. StartBit \in Bit /\ StartBit \in Symbols BY DEF StartBit, StopBit, Bit, Symbols
    <2>2. d \in DeviceType BY <2>1, Zenon DEF DeviceType
    <2>3. d.does = "sending" /\ d.clk = device.clk /\ d.dat = StartBit /\ d.bit = StartBit
        BY Zenon DEF DeviceType
    <2>4. device' = Now(d) BY <1>2 DEF Begins
    <2>. QED BY <1>2, <2>2, <2>3, <2>4, Clocked, Zenon DEF Begins, MayMove, DeviceMoves, SameDevice
<1>3. CASE MayMove /\ Answers
    <2>. DEFINE d == [device EXCEPT !.does = "taking", !.taken = <<>>]
    <2>1. <<>> \in Seq(Symbols) OBVIOUS
    <2>2. d \in DeviceType BY <2>1, Zenon DEF DeviceType
    <2>3. d.does = "taking" /\ d.clk = device.clk /\ d.taken = <<>>
        BY Zenon DEF DeviceType
    <2>4. device' = Now(d) BY <1>3 DEF Answers
    <2>. QED BY <1>3, <2>2, <2>3, <2>4, Clocked, Zenon DEF Answers, MayMove, DeviceMoves, SameDevice
<1>. QED BY <1>1, <1>2, <1>3 DEF Device, Move, GiveUp, Stopped, SendLow, SendHigh, TakeLow, TakeHigh

\* What a device that sends can do.
LEMMA DeviceSends ==
    ASSUME DeviceTypeOK, Device, device.does = "sending"
    PROVE  \/ Ages /\ ~Stopped /\ ~(MustMove /\ ~device.clk)
           \/ Stopped /\ device' = AtRest
           \/ /\ DeviceMoves /\ ~Stopped /\ device.clk /\ device'.does = "sending" /\ ~device'.clk
              /\ device'.bit = device.bit /\ device'.dat = device.dat
           \/ /\ DeviceMoves /\ ~device.clk /\ device.bit = StopBit
              /\ device'.does = "idle" /\ device'.clk
           \/ /\ DeviceMoves /\ ~device.clk /\ device.bit # StopBit
              /\ device'.does = "sending" /\ device'.clk
              /\ device'.bit = device.bit + 1 /\ device'.dat = device.bit + 1
<1>. USE DEF DeviceTypeOK
<1>1. CASE ~Stopped /\ ~(MustMove /\ ~device.clk) /\ device' = Since(device) BY <1>1, Clocked DEF Ages
<1>2. CASE GiveUp BY <1>2 DEF GiveUp
<1>3. CASE ~Stopped /\ MayMove /\ SendLow
    <2>. DEFINE d == [device EXCEPT !.clk = FALSE]
    <2>2. d \in DeviceType BY Zenon DEF DeviceType
    <2>3. d.does = "sending" /\ ~d.clk /\ d.dat = device.dat /\ d.bit = device.bit
        BY Zenon DEF DeviceType
    <2>4. device' = Now(d) BY <1>3 DEF SendLow
    <2>. QED BY <1>3, <2>2, <2>3, <2>4, Clocked, Zenon DEF SendLow, MayMove, DeviceMoves, SameDevice
<1>4. CASE ~Stopped /\ MayMove /\ SendHigh /\ device.bit = StopBit
    <2>1. device' = Now(AtRest) BY <1>4 DEF SendHigh
    <2>. QED BY <1>4, <2>1, Resting, Clocked, Zenon DEF SendHigh, MayMove, DeviceMoves, SameDevice
<1>5. CASE ~Stopped /\ MayMove /\ SendHigh /\ device.bit # StopBit
    <2>. DEFINE d == [device EXCEPT !.clk = TRUE, !.bit = @ + 1, !.dat = device.bit + 1]
    <2>1. device.bit + 1 \in Bit /\ device.bit + 1 \in Symbols
        BY <1>5 DEF DeviceType, Bit, StartBit, StopBit, Symbols
    <2>2. d \in DeviceType BY <2>1, Zenon DEF DeviceType
    <2>3. d.does = "sending" /\ d.clk /\ d.dat = device.bit + 1 /\ d.bit = device.bit + 1
        BY Zenon DEF DeviceType
    <2>4. device' = Now(d) BY <1>5 DEF SendHigh
    <2>. QED BY <1>5, <2>2, <2>3, <2>4, Clocked, Zenon DEF SendHigh, MayMove, DeviceMoves, SameDevice
<1>. QED BY <1>1, <1>2, <1>3, <1>4, <1>5
    DEF Device, Move, Begins, Answers, TakeLow, TakeHigh, Stopped

\* What a device that takes the host's frame can do.
LEMMA DeviceTakes ==
    ASSUME ComTypeOK, DeviceTypeOK, Device, device.does = "taking"
    PROVE  \/ Ages
           \/ /\ DeviceMoves /\ device.clk /\ device'.does = "taking" /\ ~device'.clk
              /\ device'.taken = device.taken
           \/ /\ DeviceMoves /\ ~device.clk /\ Len(device.taken) = 10
              /\ device'.does = "idle" /\ device'.clk
           \/ /\ DeviceMoves /\ ~device.clk /\ Len(device.taken) # 10
              /\ device'.does = "taking" /\ device'.clk
              /\ device'.taken = Append(device.taken, ps2_dat_in)
<1>. USE DEF DeviceTypeOK
<1>1. CASE device' = Since(device) BY <1>1, Clocked DEF Ages
<1>2. CASE MayMove /\ TakeLow
    <2>. DEFINE dat == IF Len(device.taken) = 10 THEN StartBit ELSE High
                d == [device EXCEPT !.clk = FALSE, !.dat = dat]
    <2>1. dat \in Symbols BY DEF Symbols, Bit, StartBit, StopBit
    <2>2. d \in DeviceType BY <2>1, Zenon DEF DeviceType
    <2>3. d.does = "taking" /\ ~d.clk /\ d.taken = device.taken BY Zenon DEF DeviceType
    <2>4. device' = Now(d) BY <1>2 DEF TakeLow
    <2>. HIDE DEF d
    <2>. QED BY <1>2, <2>2, <2>3, <2>4, Clocked, Zenon DEF TakeLow, MayMove, DeviceMoves, SameDevice
<1>3. CASE MayMove /\ TakeHigh /\ Len(device.taken) = 10
    <2>1. device' = Now(AtRest) BY <1>3 DEF TakeHigh
    <2>. QED BY <1>3, <2>1, Resting, Clocked, Zenon DEF TakeHigh, MayMove, DeviceMoves, SameDevice
<1>4. CASE MayMove /\ TakeHigh /\ Len(device.taken) # 10
    <2>. DEFINE d == [device EXCEPT !.clk = TRUE, !.taken = Append(@, ps2_dat_in)]
    <2>1. Append(device.taken, ps2_dat_in) \in Seq(Symbols) BY LineSymbols, AppendProperties DEF DeviceType
    <2>2. d \in DeviceType BY <2>1, Zenon DEF DeviceType
    <2>3. d.does = "taking" /\ d.clk /\ d.taken = Append(device.taken, ps2_dat_in)
        BY Zenon DEF DeviceType
    <2>4. device' = Now(d) BY <1>4 DEF TakeHigh
    <2>. QED BY <1>4, <2>2, <2>3, <2>4, Clocked, Zenon DEF TakeHigh, MayMove, DeviceMoves, SameDevice
<1>. QED BY <1>1, <1>2, <1>3, <1>4 DEF Device, Move, Begins, Answers, GiveUp, Stopped, SendLow, SendHigh

\* The device keeps its types.
LEMMA DeviceTypeStep ==
    ASSUME ComTypeOK, DeviceTypeOK, Device
    PROVE  DeviceTypeOK'
<1>1. device.does \in {"idle", "sending", "taking"} BY DEF DeviceTypeOK, DeviceType
<1>. QED BY <1>1, DeviceIdle, DeviceSends, DeviceTakes, Resting, Zenon
    DEF DeviceTypeOK, Ages, DeviceMoves, SameDevice

-----------------------------------------------------------------------------
(* The filter, and the clocks that pass.                                   *)

\* What the assumption says of the constants.
LEMMA Numbers ==
    /\ ClockFilter \in Nat /\ ClockFilter >= 1
    /\ MaxPhase \in Nat /\ MaxPhase >= ClockFilter + 6
BY Ps2Assumption

\* A step of the port and its device.
ComStep == ComTypeOK /\ DeviceTypeOK /\ Lockstep /\ ComNext

\* What every step does, whatever the state of the port.
LEMMA StepTypes ==
    ASSUME ComStep
    PROVE  /\ ComTypeOK' /\ DeviceTypeOK' /\ Filter /\ Device
           /\ ena' = ~ena
           /\ ena => Com
           /\ ~ena => UNCHANGED comVars
BY ComTypeStep, DeviceTypeStep DEF ComStep, ComNext, Host, Filter

\* Time since the device's last move.
LEMMA Ageing ==
    ASSUME DeviceTypeOK, ComTypeOK, Device, ps2_clk_out
    PROVE  Ages \/ DeviceMoves
<1>1. device.does \in {"idle", "sending", "taking"} BY DEF DeviceTypeOK, DeviceType
<1>. QED BY <1>1, DeviceIdle, DeviceSends, DeviceTakes, Zenon DEF Stopped

\* While the device drives the clock line, the filter shows its level no more
\* than ClockFilter + 1 clocks after the edge (io_ps2_com.vhd, lines 103-114).
LEMMA Levels ==
    ASSUME ComStep, ps2_clk_out, Settled
    PROVE  /\ Settled'
           /\ clkReg' = device.clk
           /\ device.since >= 1 => (device.clk => ~clkLow) /\ (~device.clk => ~clkHigh)
           /\ device.since >= ClockFilter + 1 => (device.clk => clkHigh) /\ (~device.clk => clkLow)
<1>. DEFINE since == device.since
<1>1. since \in 0 .. MaxPhase /\ clkFilterCnt \in 0 .. ClockFilter /\ device.clk \in BOOLEAN /\ clkReg \in BOOLEAN
    BY DEF ComStep, DeviceTypeOK, DeviceType, ComTypeOK
<1>2. /\ clkReg' = device.clk
      /\ clkFilterCnt' = IF clkReg # device.clk THEN ClockFilter
                         ELSE IF clkFilterCnt # 0 THEN clkFilterCnt - 1 ELSE 0
    <2>1. ps2_clk_in = device.clk BY <1>1 DEF ps2_clk_in
    <2>. QED BY <2>1, StepTypes DEF Filter
<1>3. since >= ClockFilter + 1 => clkReg = device.clk /\ clkFilterCnt = 0
    BY <1>1, Ps2Assumption, SMT DEF Settled
<1>4. Ages \/ DeviceMoves BY StepTypes, Ageing DEF ComStep
<1>5. CASE DeviceMoves BY <1>1, <1>2, <1>3, <1>5 DEF DeviceMoves, Settled, clkLow, clkHigh
<1>6. CASE Ages
    <2>1. device'.clk = device.clk /\ device'.since = IF since < MaxPhase THEN since + 1 ELSE since
        BY <1>6 DEF Ages, SameDevice
    <2>2. clkFilterCnt' = 0 \/ clkFilterCnt' + device'.since <= ClockFilter + 1
        <3>1. CASE since = 0
            BY <3>1, <2>1, <1>1, <1>2, Ps2Assumption, SMT
        <3>2. CASE since >= 1
            <4>1. clkReg = device.clk /\ (clkFilterCnt = 0 \/ clkFilterCnt + since <= ClockFilter + 1)
                BY <3>2 DEF Settled
            <4>2. clkFilterCnt' = IF clkFilterCnt # 0 THEN clkFilterCnt - 1 ELSE 0
                BY <4>1, <1>2
            <4>. QED BY <4>1, <4>2, <2>1, <1>1, <1>3, Ps2Assumption, SMT
        <3>. QED BY <3>1, <3>2, <1>1
    <2>3. Settled' BY <2>1, <2>2, <1>2 DEF Settled
    <2>. QED BY <2>3, <1>2, <1>3 DEF Settled, clkLow, clkHigh
<1>. QED BY <1>4, <1>5, <1>6

\* Until the host has seen the edge, it is at most ClockFilter + 2 clocks old.
LEMMA Unseen ==
    ASSUME ComStep, ps2_clk_out, Settled, Ages, NEW k \in Int, k >= ClockFilter + 2, Within(k),
           ena => ~(clkLow /\ ~device.clk) /\ ~(clkHigh /\ device.clk)
    PROVE  Within(k)'
<1>1. device.since \in 0 .. MaxPhase /\ ena \in BOOLEAN BY DEF ComStep, DeviceTypeOK, DeviceType, ComTypeOK
<1>2. ena' = ~ena /\ device'.since <= device.since + 1
    BY <1>1, StepTypes, SMT DEF Ages
<1>3. device'.since \in Nat BY StepTypes DEF DeviceTypeOK, DeviceType
<1>4. CASE ena
    <2>1. device.since <= ClockFilter BY <1>4, <1>1, Levels, Ps2Assumption
    <2>2. ~ena' BY <1>4, <1>2
    <2>. QED BY <1>2, <1>3, <2>1, <2>2, <1>1, Ps2Assumption DEF Within
<1>5. CASE ~ena
    <2>1. ena' BY <1>5, <1>2
    <2>2. device.since + 1 <= k BY <1>5 DEF Within
    <2>. QED BY <2>1, <2>2, <1>2, <1>3, <1>1 DEF Within
<1>. QED BY <1>1, <1>4, <1>5

\* A clock passes: an edge within k clocks is within k + 2 after a clock with ena.
LEMMA Later ==
    ASSUME ComStep, Ages, NEW k \in Int, Within(k)
    PROVE  /\ ~ena => Within(k)'
           /\ Within(k + 2)'
           /\ device'.since >= 1
           /\ device.since <= k
<1>1. device.since \in 0 .. MaxPhase /\ ena \in BOOLEAN BY DEF ComStep, DeviceTypeOK, DeviceType, ComTypeOK
<1>2. ena' = ~ena /\ device'.since <= device.since + 1 /\ device'.since >= 1
    BY <1>1, StepTypes, Ps2Assumption, SMT DEF Ages
<1>3. device'.since \in Nat BY StepTypes DEF DeviceTypeOK, DeviceType
<1>4. CASE ena
    <2>1. ~ena' BY <1>4, <1>2
    <2>2. device.since <= k BY <1>4, <1>1 DEF Within
    <2>. QED BY <1>2, <1>3, <2>1, <2>2, <1>1, <1>4 DEF Within
<1>5. CASE ~ena
    <2>1. ena' BY <1>5, <1>2
    <2>2. device.since + 1 <= k BY <1>5 DEF Within
    <2>. QED BY <2>1, <2>2, <1>2, <1>3, <1>1 DEF Within
<1>. QED BY <1>1, <1>4, <1>5

\* An edge of this clock is at most one clock old at the next one with ena high.
LEMMA JustMoved ==
    ASSUME ComStep, DeviceMoves
    PROVE  /\ device.since >= MinPhase /\ device'.since = 0
           /\ Within(ClockFilter + 2)' /\ Within(ClockFilter + 4)'
           /\ Settled'
           /\ ~Within(ClockFilter + 2) /\ ~Within(ClockFilter + 4)
<1>1. device.since >= MinPhase /\ device'.since = 0 BY DEF DeviceMoves
<1>2. Settled' BY <1>1 DEF Settled
<1>3. Within(ClockFilter + 2)' /\ Within(ClockFilter + 4)'
    BY <1>1, Ps2Assumption, SMT DEF Within
<1>4. device.since \in Nat BY DEF ComStep, DeviceTypeOK, DeviceType
<1>5. ~Within(ClockFilter + 2) /\ ~Within(ClockFilter + 4)
    BY <1>1, <1>4, Ps2Assumption, SMT DEF Within
<1>. QED BY <1>1, <1>2, <1>3, <1>5

-----------------------------------------------------------------------------
(* The device's frames, clock by clock.                                    *)

\* A device that waits goes on waiting or begins a frame.
LEMMA WaitingStep ==
    ASSUME ComStep, Waiting
    PROVE  \/ Ages /\ Waiting'
           \/ DeviceMoves /\ ps2_clk_in /\ ps2_dat_out = High /\ device'.clk /\ Sending(StartBit)'
           \/ DeviceMoves /\ ps2_clk_in /\ ps2_dat_out # High /\ device'.clk /\ Taking(0)'
<1>1. CASE Ages BY <1>1 DEF Ages, SameDevice, Waiting
<1>2. device'.taken = <<>> /\ device'.does = "taking" => Taking(0)'
    <2>1. Len(<<>>) = 0 OBVIOUS
    <2>. QED BY <2>1 DEF Taking
<1>. QED BY <1>1, <1>2, StepTypes, DeviceIdle DEF ComStep, Waiting, Sending

\* A device that sends, its clock high: it waits or pulls the clock low.
LEMMA SendingHighStep ==
    ASSUME ComStep, ps2_clk_out, NEW b, device.clk /\ Sending(b)
    PROVE  \/ Ages /\ device'.clk /\ Sending(b)'
           \/ DeviceMoves /\ ~device'.clk /\ Sending(b)'
<1>1. CASE Ages BY <1>1 DEF Ages, SameDevice, Sending
<1>. QED BY <1>1, StepTypes, DeviceSends DEF ComStep, Sending, Stopped

\* A device that sends, its clock low: it waits or goes on to the next bit.
LEMMA SendingLowStep ==
    ASSUME ComStep, ps2_clk_out, NEW b, ~device.clk /\ Sending(b)
    PROVE  \/ Ages /\ ~device'.clk /\ Sending(b)'
           \/ DeviceMoves /\ b = StopBit /\ Waiting'
           \/ DeviceMoves /\ b # StopBit /\ device'.clk /\ Sending(b + 1)'
<1>1. CASE Ages BY <1>1 DEF Ages, SameDevice, Sending
<1>. QED BY <1>1, StepTypes, DeviceSends DEF ComStep, Sending, Stopped, Waiting

\* A device that takes a frame, its clock high.
LEMMA TakingHighStep ==
    ASSUME ComStep, NEW k, device.clk /\ Taking(k)
    PROVE  \/ Ages /\ device'.clk /\ Taking(k)'
           \/ DeviceMoves /\ ~device'.clk /\ Taking(k)'
<1>1. CASE Ages BY <1>1 DEF Ages, SameDevice, Taking
<1>. QED BY <1>1, StepTypes, DeviceTakes DEF ComStep, Taking

\* A device that takes a frame, its clock low: it reads a bit as it lets the
\* clock go.
LEMMA TakingLowStep ==
    ASSUME ComStep, NEW k \in 0 .. 10, ~device.clk /\ Taking(k)
    PROVE  \/ Ages /\ ~device'.clk /\ Taking(k)'
           \/ DeviceMoves /\ k = 10 /\ Waiting'
           \/ DeviceMoves /\ k < 10 /\ device'.clk /\ (ps2_dat_out = k => Taking(k + 1)')
<1>1. CASE Ages BY <1>1 DEF Ages, SameDevice, Taking
<1>2. CASE k = 10 BY <1>1, <1>2, StepTypes, DeviceTakes DEF ComStep, Taking, Waiting
<1>3. ASSUME k # 10, ps2_dat_out = k, device'.does = "taking",
             device'.taken = Append(device.taken, ps2_dat_in)
      PROVE  Taking(k + 1)'
    <2>1. ps2_dat_in = k BY <1>3 DEF ps2_dat_in, High
    <2>2. device.taken \in Seq(Symbols) /\ ps2_dat_in \in Symbols /\ Len(device.taken) = k
        BY LineSymbols DEF ComStep, DeviceTypeOK, DeviceType, Taking
    <2>3. /\ Len(device'.taken) = k + 1 /\ device'.taken[k + 1] = k
          /\ \A i \in 1 .. k : device'.taken[i] = device.taken[i]
        BY <1>3, <2>1, <2>2, Appended
    <2>4. \A i \in 1 .. k + 1 : device'.taken[i] = i - 1
        BY <2>3, SMT DEF Taking
    <2>. QED BY <1>3, <2>3, <2>4 DEF Taking
<1>4. CASE k # 10
    <2>1. k < 10 /\ Len(device.taken) # 10 BY <1>4 DEF Taking
    <2>. QED BY <1>1, <1>3, <1>4, <2>1, StepTypes, DeviceTakes DEF ComStep, Taking
<1>. QED BY <1>2, <1>4

-----------------------------------------------------------------------------
(* A step from each state of the port.                                     *)

\* A bit is shifted in behind those collected.
LEMMA CollectedStep ==
    ASSUME ComStep, NEW n \in 0 .. 10, Collected(n), ps2_dat_in = n - 1,
           recvByteLoc' = Last11(Append(recvByteLoc, ps2_dat_in))
    PROVE  Collected(n + 1)'
<1>1. recvByteLoc \in [1 .. 11 -> Symbols] /\ ps2_dat_in \in Symbols
    BY LineSymbols DEF ComStep, ComTypeOK, Symbols
<1>2. recvByteLoc' = [i \in 1 .. 11 |-> IF i = 11 THEN ps2_dat_in ELSE recvByteLoc[i + 1]]
    BY <1>1, Shifted
<1>. SUFFICES ASSUME NEW i \in 1 .. n + 1 PROVE recvByteLoc'[11 - (n + 1) + i] = i - 2
    BY DEF Collected
<1>3. CASE i = n + 1 BY <1>2, <1>3
<1>4. CASE i # n + 1
    <2>1. i \in 1 .. n /\ 11 - (n + 1) + i \in 1 .. 10 BY <1>4
    <2>2. recvByteLoc'[11 - (n + 1) + i] = recvByteLoc[11 - n + i] BY <1>2, <2>1
    <2>. QED BY <2>1, <2>2 DEF Collected
<1>. QED BY <1>3, <1>4

\* At a clock with ena low the port's registers stand still.
LEMMA Unmoved ==
    ASSUME ComStep, ~ena
    PROVE  /\ comState' = comState /\ waitCount' = waitCount /\ bitCount' = bitCount
           /\ currentBit' = currentBit /\ recvByteLoc' = recvByteLoc
           /\ ps2_clk_out' = ps2_clk_out /\ ps2_dat_out' = ps2_dat_out
           /\ recvTrigger' = recvTrigger /\ recvByte' = recvByte
           /\ \A n : Collected(n)' = Collected(n)
BY StepTypes DEF comVars, Collected

LEMMA StepFromIdle ==
    ASSUME ComStep, comState = "Idle"
    PROVE  Lockstep'
<1>1. InIdle BY DEF ComStep, Lockstep
<1>2. Settled' /\ clkReg' = device.clk BY <1>1, Levels DEF InIdle
<1>3. CASE (Waiting \/ (device.clk /\ Sending(StartBit))) /\ clkReg
    <2>1. \/ Waiting' /\ clkReg'
          \/ device'.clk /\ Sending(StartBit)' /\ clkReg'
          \/ ~device'.clk /\ Sending(StartBit)' /\ Within(ClockFilter + 2)'
        BY <1>1, <1>2, <1>3, WaitingStep, SendingHighStep, JustMoved DEF InIdle, Waiting
    <2>2. device'.does # "taking" BY <2>1 DEF Waiting, Sending
    <2>3. ~clkLow BY <1>3 DEF clkLow
    <2>4. CASE ~ena BY <1>1, <1>2, <2>1, <2>4, Unmoved DEF InIdle, Lockstep
    <2>5. CASE ena
        <3>1. /\ ps2_clk_out' /\ ps2_dat_out' = High /\ bitCount' = 0
              /\ comState' = IF sendTriggerLoc THEN "Wait100" ELSE "Idle"
              /\ sendTriggerLoc => waitCount' = Wait100
            BY <2>3, <2>5, StepTypes DEF Com, NextState, FromIdle, BitCount
        <3>. QED BY <1>2, <2>1, <2>2, <3>1 DEF InIdle, InWait100, Lockstep
    <2>. QED BY <2>4, <2>5
<1>4. CASE ~device.clk /\ Sending(StartBit) /\ Within(ClockFilter + 2)
    <2>1. Ages /\ ~device'.clk /\ Sending(StartBit)'
        BY <1>1, <1>4, SendingLowStep, JustMoved DEF InIdle
    <2>2. /\ ~ena => Within(ClockFilter + 2)'
          /\ Within(ClockFilter + 4)'
        BY <1>4, <2>1, Later, Ps2Assumption
    <2>3. CASE ~ena BY <1>1, <1>2, <2>1, <2>2, <2>3, Unmoved DEF InIdle, Lockstep
    <2>4. CASE ena
        <3>1. /\ ps2_clk_out' /\ ps2_dat_out' = High /\ bitCount' = 0
              /\ comState' = IF clkLow THEN "RecvBit" ELSE IF sendTriggerLoc THEN "Wait100" ELSE "Idle"
              /\ sendTriggerLoc => waitCount' = Wait100
            BY <2>4, StepTypes DEF Com, NextState, FromIdle, BitCount
        <3>2. CASE clkLow
            <4>1. Collected(0)' BY DEF Collected
            <4>. QED BY <1>2, <2>1, <2>2, <3>1, <3>2, <4>1 DEF InRecvBit, StartBit, Lockstep
        <3>3. CASE ~clkLow /\ sendTriggerLoc
            BY <2>1, <3>1, <3>3 DEF InWait100, Sending, Lockstep
        <3>4. CASE ~clkLow /\ ~sendTriggerLoc
            <4>1. Within(ClockFilter + 2)' BY <1>1, <1>4, <2>1, <3>4, Unseen, Ps2Assumption DEF InIdle
            <4>. QED BY <1>2, <2>1, <3>1, <3>4, <4>1 DEF InIdle, Lockstep
        <3>. QED BY <3>2, <3>3, <3>4
    <2>. QED BY <2>3, <2>4, StepTypes DEF ComStep, ComTypeOK
<1>. QED BY <1>1, <1>3, <1>4 DEF InIdle

LEMMA StepFromRecvBit ==
    ASSUME ComStep, comState = "RecvBit"
    PROVE  Lockstep'
<1>1. InRecvBit BY DEF ComStep, Lockstep
<1>2. Settled' /\ clkReg' = device.clk BY <1>1, Levels DEF InRecvBit
<1>3. PICK n \in 0 .. 10 : n = bitCount /\ Collected(n) BY <1>1 DEF InRecvBit
<1>4. CASE n >= 1 /\ device.clk /\ Sending(n - 1) /\ clkReg
    <2>1. /\ Sending(n - 1)'
          /\ device'.clk => clkReg'
          /\ ~device'.clk => Within(ClockFilter + 4)'
        BY <1>1, <1>2, <1>4, SendingHighStep, JustMoved DEF InRecvBit, Ages, SameDevice
    <2>2. /\ comState' = "RecvBit" /\ bitCount' = n /\ ps2_clk_out' /\ ps2_dat_out' = High
          /\ recvByteLoc' = recvByteLoc
        <3>1. ~clkLow BY <1>4 DEF clkLow
        <3>. QED BY <1>1, <1>3, <3>1, StepTypes, Unmoved DEF InRecvBit, Com, NextState, BitCount, BitTaken, BitSent
    <2>3. Collected(n)' BY <1>3, <2>2 DEF Collected
    <2>. QED BY <1>2, <1>3, <1>4, <2>1, <2>2, <2>3, StepTypes DEF InRecvBit, Lockstep, DeviceTypeOK, DeviceType
<1>5. CASE ~device.clk /\ Sending(n - 1) /\ Within(ClockFilter + 4)
    <2>1. Ages /\ ~device'.clk /\ Sending(n - 1)' BY <1>1, <1>5, SendingLowStep, JustMoved DEF InRecvBit
    <2>2. device'.since >= 1 BY <1>5, <2>1, Later, Ps2Assumption
    <2>3. CASE ena /\ clkLow
        <3>0. (n + 1) % 16 = n + 1 BY <1>3
        <3>1. /\ comState' = "WaitHighRecv" /\ bitCount' = n + 1 /\ ps2_clk_out' /\ ps2_dat_out' = High
              /\ recvByteLoc' = Last11(Append(recvByteLoc, ps2_dat_in))
            BY <1>3, <2>3, <3>0, StepTypes, Zenon DEF Com, NextState, BitCount, BitTaken
        <3>2. ps2_dat_in = n - 1 BY <1>1, <1>5 DEF ps2_dat_in, InRecvBit, Sending
        <3>3. Collected(n + 1)' BY <1>3, <3>1, <3>2, CollectedStep
        <3>4. bitCount' - 2 = n - 1 /\ bitCount' \in 1 .. 11 BY <1>3, <3>1
        <3>. QED BY <1>2, <2>1, <2>2, <3>1, <3>3, <3>4 DEF InWaitHighRecv, Lockstep
    <2>4. CASE ~ena \/ ~clkLow
        <3>1. /\ comState' = "RecvBit" /\ bitCount' = n /\ ps2_clk_out' /\ ps2_dat_out' = High
              /\ recvByteLoc' = recvByteLoc
            BY <1>1, <1>3, <2>4, StepTypes, Unmoved DEF InRecvBit, Com, NextState, BitCount, BitTaken, BitSent
        <3>2. Collected(n)' BY <1>3, <3>1 DEF Collected
        <3>3. Within(ClockFilter + 4)'
            BY <1>1, <1>5, <2>1, <2>4, Unseen, Later, Ps2Assumption DEF InRecvBit
        <3>. QED BY <1>2, <1>3, <2>1, <3>1, <3>2, <3>3 DEF InRecvBit, Lockstep
    <2>. QED BY <2>3, <2>4
<1>. QED BY <1>1, <1>3, <1>4, <1>5 DEF InRecvBit

LEMMA StepFromWaitHighRecv ==
    ASSUME ComStep, comState = "WaitHighRecv"
    PROVE  Lockstep'
<1>1. InWaitHighRecv BY DEF ComStep, Lockstep
<1>2. Settled' /\ clkReg' = device.clk BY <1>1, Levels DEF InWaitHighRecv
<1>3. PICK n \in 1 .. 11 : n = bitCount /\ Collected(n) BY <1>1 DEF InWaitHighRecv
<1>4. bitCount' = n /\ ps2_clk_out' /\ ps2_dat_out' = High /\ recvByteLoc' = recvByteLoc
    BY <1>1, <1>3, StepTypes, Unmoved DEF InWaitHighRecv, Com, BitCount, BitTaken, BitSent
<1>5. Collected(n)' BY <1>3, <1>4 DEF Collected
<1>6. comState' = IF ena /\ clkHigh THEN IF n = 11 THEN "Idle" ELSE "RecvBit" ELSE "WaitHighRecv"
    BY <1>3, StepTypes, Unmoved DEF Com, NextState, LastRecv
<1>7. CASE ~device.clk /\ Sending(n - 2) /\ device.since >= 1
    <2>1. \/ Ages /\ ~device'.clk /\ Sending(n - 2)'
          \/ DeviceMoves /\ n = 11 /\ Waiting'
          \/ DeviceMoves /\ n # 11 /\ device'.clk /\ Sending(n - 1)'
        <3>1. (n - 2) + 1 = n - 1 /\ (n - 2 = StopBit <=> n = 11) BY <1>3 DEF StopBit
        <3>. QED BY <1>1, <1>7, <3>1, SendingLowStep DEF InWaitHighRecv
    <2>2. comState' = "WaitHighRecv" BY <1>1, <1>6, <1>7, Levels DEF InWaitHighRecv
    <2>3. Ages => device'.since >= 1
        BY <1>7, Ps2Assumption DEF Ages, ComStep, DeviceTypeOK, DeviceType
    <2>4. n # 11 => n <= 10 BY <1>3
    <2>. QED BY <1>2, <1>3, <1>4, <1>5, <2>1, <2>2, <2>3, <2>4, JustMoved
        DEF InWaitHighRecv, Lockstep
<1>8. CASE /\ Within(ClockFilter + 2)
           /\ (n <= 10 /\ device.clk /\ Sending(n - 1)) \/ (n = 11 /\ Waiting)
    <2>1. Ages /\ device'.clk /\ ((n <= 10 /\ Sending(n - 1)') \/ (n = 11 /\ Waiting'))
        BY <1>1, <1>8, SendingHighStep, WaitingStep, JustMoved DEF InWaitHighRecv, Waiting
    <2>2. clkReg' BY <1>2, <1>8 DEF Waiting
    <2>3. CASE ena /\ clkHigh
        <3>1. CASE n = 11 BY <1>2, <1>4, <1>6, <2>1, <2>2, <2>3, <3>1 DEF InIdle, Lockstep
        <3>2. CASE n # 11
            <4>1. n \in 0 .. 10 /\ n >= 1 BY <1>3, <3>2
            <4>. QED BY <1>2, <1>4, <1>5, <1>6, <2>1, <2>2, <2>3, <3>2, <4>1 DEF InRecvBit, Lockstep
        <3>. QED BY <3>1, <3>2
    <2>4. CASE ~(ena /\ clkHigh)
        <3>1. Within(ClockFilter + 2)'
            BY <1>1, <1>8, <2>1, <2>4, Unseen, Ps2Assumption DEF InWaitHighRecv, Waiting
        <3>. QED BY <1>2, <1>3, <1>4, <1>5, <1>6, <2>1, <2>4, <3>1 DEF InWaitHighRecv, Lockstep
    <2>. QED BY <2>3, <2>4
<1>. QED BY <1>1, <1>3, <1>7, <1>8 DEF InWaitHighRecv

LEMMA StepFromWait100 ==
    ASSUME ComStep, comState = "Wait100"
    PROVE  Lockstep'
<1>1. InWait100 BY DEF ComStep, Lockstep
<1>2. /\ bitCount' = 0 /\ ps2_dat_out' = High
      /\ comState' = IF ena /\ waitCount = 0 THEN "ClockAndDataLow" ELSE "Wait100"
    BY <1>1, StepTypes, Unmoved DEF InWait100, Com, NextState, BitCount, BitTaken, BitSent
<1>3. /\ waitCount \in Nat /\ device.since \in 0 .. MaxPhase /\ clkFilterCnt \in 0 .. ClockFilter
      /\ device'.since \in 0 .. MaxPhase
      /\ device.does \in {"idle", "sending"} /\ ena \in BOOLEAN
      /\ device.does = "idle" => device.clk
    <2>1. waitCount \in Nat BY Ps2Assumption DEF ComStep, ComTypeOK
    <2>. QED BY <1>1, <2>1, StepTypes DEF ComStep, ComTypeOK, DeviceTypeOK, DeviceType, InWait100
<1>4. device'.does # "taking"
    <2>1. CASE device.does = "idle"
        BY <1>1, <2>1, StepTypes, DeviceIdle DEF ComStep, InWait100, Ages, SameDevice
    <2>2. CASE device.does = "sending"
        BY <2>2, StepTypes, DeviceSends, Resting DEF ComStep, Ages, SameDevice
    <2>. QED BY <1>3, <2>1, <2>2
<1>5. CASE ps2_clk_out
    <2>1. waitCount = Wait100 /\ waitCount # 0 BY <1>1, <1>5, Ps2Assumption DEF InWait100
    <2>2. comState' = "Wait100" BY <1>2, <2>1
    <2>3. CASE ~ena
        BY <1>2, <1>4, <1>5, <2>1, <2>2, <2>3, Unmoved DEF InWait100, Lockstep
    <2>4. CASE ena
        <3>1. ~ps2_clk_out' /\ waitCount' = Wait100 - 1
            BY <2>1, <2>4, StepTypes DEF Com
        <3>2. ~ena' BY <2>4, StepTypes
        <3>3. Held' = 0 /\ ~(Held' >= 1) BY <3>1, <3>2, Ps2Assumption DEF Held
        <3>4. waitCount' < Wait100 BY <3>1, Ps2Assumption
        <3>5. Held' <= IF device'.clk THEN MaxPhase + 1 ELSE device'.since
            BY <3>3, <1>3, Ps2Assumption
        <3>. QED BY <1>2, <1>4, <2>2, <3>1, <3>3, <3>4, <3>5 DEF InWait100, Lockstep
    <2>. QED BY <2>3, <2>4
<1>6. CASE ~ps2_clk_out
    <2>. DEFINE h == Held
    <2>1. /\ waitCount < Wait100
          /\ h >= 1 => ~clkReg /\ (clkFilterCnt = 0 \/ clkFilterCnt + h <= ClockFilter + 1)
          /\ device.does = "sending" => h <= IF device.clk THEN MaxPhase + 1 ELSE device.since
          /\ h = 2 * (Wait100 - 1 - waitCount) + (IF ena THEN 1 ELSE 0)
        BY <1>1, <1>6 DEF InWait100, Held
    <2>2. h \in Nat BY <2>1, <1>3, Ps2Assumption
    <2>3. ~ps2_clk_in BY <1>6 DEF ps2_clk_in
    <2>4. ~clkReg' /\ (clkFilterCnt' = 0 \/ clkFilterCnt' + h + 1 <= ClockFilter + 1)
        <3>1. ~clkReg' BY <2>3, StepTypes DEF Filter
        <3>2. clkFilterCnt' <= ClockFilter /\ (h >= 1 => clkFilterCnt' = IF clkFilterCnt # 0 THEN clkFilterCnt - 1 ELSE 0)
            <4>1. clkFilterCnt' <= ClockFilter BY StepTypes DEF ComTypeOK
            <4>2. h >= 1 => clkReg = ps2_clk_in
                BY <2>1, <2>3 DEF ComStep, ComTypeOK, ps2_clk_in
            <4>. QED BY <4>1, <4>2, StepTypes DEF Filter
        <3>3. clkFilterCnt' \in Nat BY StepTypes DEF ComTypeOK
        <3>4. CASE h = 0
            <4>1. clkFilterCnt' + h + 1 = clkFilterCnt' + 1
                <5>. HIDE DEF h
                <5>. QED BY <3>3, <3>4
            <4>2. clkFilterCnt' + 1 <= ClockFilter + 1
                <5>1. PICK c \in Nat : c = clkFilterCnt' BY <3>3
                <5>2. c <= ClockFilter BY <3>2, <5>1
                <5>3. c + 1 <= ClockFilter + 1 BY <5>2, Numbers
                <5>. QED BY <5>1, <5>3
            <4>. QED BY <3>1, <4>1, <4>2
        <3>5. CASE h >= 1
            <4>1. clkFilterCnt = 0 \/ clkFilterCnt + h <= ClockFilter + 1 BY <2>1, <3>5
            <4>2. clkFilterCnt' = IF clkFilterCnt # 0 THEN clkFilterCnt - 1 ELSE 0 BY <3>2, <3>5
            <4>. HIDE DEF h
            <4>. QED BY <1>3, <2>2, <3>1, <4>1, <4>2, Ps2Assumption
        <3>. QED BY <2>2, <3>4, <3>5
    <2>5. CASE ~(ena /\ waitCount = 0)
        <3>1. comState' = "Wait100" /\ ~ps2_clk_out'
            <4>1. ena => ~ps2_clk_out' BY StepTypes DEF Com
            <4>2. ~ena => ~ps2_clk_out' BY <1>6, Unmoved
            <4>. QED BY <1>2, <2>5, <4>1, <4>2
        <3>2. waitCount' = IF ena THEN waitCount - 1 ELSE waitCount
            BY <2>5, StepTypes, Unmoved DEF Com
        <3>3. Held' = h + 1 /\ waitCount' < Wait100
            <4>1. ena' = ~ena BY StepTypes
            <4>2. CASE ena
                <5>1. waitCount' = waitCount - 1 BY <3>2, <4>2
                <5>0. ~ena' BY <4>1, <4>2
                <5>2. Held' = 2 * (Wait100 - 1 - waitCount')
                    <6>1. waitCount' \in Int BY <1>3, <5>1
                    <6>. QED BY <5>0, <6>1, Ps2Assumption DEF Held
                <5>3. h = 2 * (Wait100 - 1 - waitCount) + 1 BY <2>1, <4>2
                <5>. HIDE DEF h
                <5>. QED BY <1>3, <2>1, <5>1, <5>2, <5>3, Ps2Assumption
            <4>3. CASE ~ena
                <5>1. waitCount' = waitCount BY <3>2, <4>3
                <5>2. Held' = 2 * (Wait100 - 1 - waitCount') + 1 BY <4>1, <4>3 DEF Held
                <5>3. h = 2 * (Wait100 - 1 - waitCount) BY <2>1, <4>3, <1>3, Ps2Assumption
                <5>. HIDE DEF h
                <5>. QED BY <2>1, <5>1, <5>2, <5>3
            <4>. QED BY <4>2, <4>3
        <3>4. device'.does = "sending" =>
                  h + 1 <= IF device'.clk THEN MaxPhase + 1 ELSE device'.since
            <4>1. CASE device.does = "idle"
                BY <1>3, <2>3, <4>1, StepTypes, DeviceIdle DEF ComStep, Ages, SameDevice
            <4>2. CASE device.does = "sending" /\ device.clk
                BY <1>6, <4>2, StepTypes, DeviceSends, Resting DEF ComStep, Stopped
            <4>3. CASE device.does = "sending" /\ ~device.clk
                <5>1. h <= device.since BY <2>1, <4>3
                <5>2. CASE Ages /\ ~MustMove
                    BY <1>3, <2>2, <4>3, <5>1, <5>2, Ps2Assumption DEF Ages, SameDevice, MustMove
                <5>3. CASE device'.clk BY <1>3, <2>2, <5>1, <5>3, Ps2Assumption
                <5>. QED BY <4>3, <5>2, <5>3, StepTypes, DeviceSends DEF ComStep, Stopped
            <4>. QED BY <1>3, <4>1, <4>2, <4>3
        <3>5. Held' >= 1 => ~clkReg' /\ (clkFilterCnt' = 0 \/ clkFilterCnt' + Held' <= ClockFilter + 1)
            <4>1. clkFilterCnt' \in Nat BY StepTypes DEF ComTypeOK
            <4>2. clkFilterCnt' + h + 1 = clkFilterCnt' + Held'
                <5>. HIDE DEF h
                <5>. QED BY <2>2, <3>3, <4>1
            <4>. QED BY <2>4, <4>2
        <3>6. device'.does = "sending" => Held' <= IF device'.clk THEN MaxPhase + 1 ELSE device'.since
            BY <3>3, <3>4
        <3>7. InWait100' BY <1>2, <1>4, <3>1, <3>3, <3>5, <3>6 DEF InWait100
        <3>. QED BY <3>1, <3>7 DEF Lockstep
    <2>6. CASE ena /\ waitCount = 0
        <3>1. comState' = "ClockAndDataLow" /\ ~ps2_clk_out' BY <1>2, <2>6, StepTypes DEF Com
        <3>2. h > MaxPhase + ClockFilter - 1 BY <2>1, <2>6, Ps2Assumption
        <3>3. clkFilterCnt' = 0
            <4>1. clkFilterCnt' \in Nat BY StepTypes DEF ComTypeOK
            <4>2. ~(clkFilterCnt' + h + 1 <= ClockFilter + 1)
                <5>. HIDE DEF h
                <5>1. PICK c \in Nat : c = clkFilterCnt' BY <4>1
                <5>2. ~(c + h + 1 <= ClockFilter + 1) BY <2>2, <3>2, Numbers
                <5>. QED BY <5>1, <5>2
            <4>. QED BY <2>4, <4>2
        <3>4. Waiting'
            <4>1. CASE device.does = "idle"
                BY <1>3, <2>3, <4>1, StepTypes, WaitingStep DEF Waiting
            <4>2. CASE device.does = "sending" /\ device.clk
                BY <1>6, <4>2, StepTypes, DeviceSends, Resting DEF ComStep, Stopped, Waiting
            <4>3. CASE device.does = "sending" /\ ~device.clk
                BY <1>3, <2>1, <2>2, <3>2, <4>3, Ps2Assumption
            <4>. QED BY <1>3, <4>1, <4>2, <4>3
        <3>. QED BY <1>2, <2>4, <3>1, <3>3, <3>4 DEF InClockAndDataLow, Lockstep
    <2>. QED BY <2>5, <2>6
<1>. QED BY <1>5, <1>6

LEMMA StepFromClockAndDataLow ==
    ASSUME ComStep, comState = "ClockAndDataLow"
    PROVE  Lockstep'
<1>1. InClockAndDataLow BY DEF ComStep, Lockstep
<1>2. ~ps2_clk_in /\ clkReg = ps2_clk_in
    BY <1>1 DEF InClockAndDataLow, ps2_clk_in, ComStep, ComTypeOK
<1>3. ~clkReg' /\ clkFilterCnt' = 0 BY <1>1, <1>2, StepTypes DEF Filter, InClockAndDataLow
<1>4. Waiting' BY <1>1, <1>2, WaitingStep DEF InClockAndDataLow
<1>5. bitCount' = 0 /\ ~ps2_clk_out'
    <2>1. ena => bitCount' = bitCount /\ ~ps2_clk_out'
        BY StepTypes DEF Com, BitCount, BitTaken, BitSent
    <2>. QED BY <1>1, <2>1, Unmoved DEF InClockAndDataLow
<1>6. \/ comState' = "ClockAndDataLow"
      \/ comState' = "WaitClockHigh" /\ currentBit' = StartBit /\ ps2_dat_out' = StartBit
    <2>1. CASE ena /\ waitCount = 0
        <3>1. NextState = "WaitClockHigh" BY <2>1 DEF NextState
        <3>2. currentBit' = StartBit /\ ps2_dat_out' = StartBit BY <2>1, StepTypes DEF Com, BitSent
        <3>. QED BY <2>1, <3>1, <3>2, StepTypes DEF Com
    <2>2. CASE ~(ena /\ waitCount = 0) BY <2>2, StepTypes, Unmoved DEF Com, NextState
    <2>. QED BY <2>1, <2>2
<1>7. CASE comState' = "ClockAndDataLow"
    BY <1>3, <1>4, <1>5, <1>7 DEF InClockAndDataLow, Lockstep
<1>8. CASE comState' = "WaitClockHigh" /\ currentBit' = StartBit /\ ps2_dat_out' = StartBit
    <2>1. bitCount' \in 0 .. 10 /\ currentBit' = bitCount' - 1 BY <1>5, <1>8 DEF StartBit
    <2>. QED BY <1>3, <1>4, <1>5, <1>8, <2>1 DEF InWaitClockHigh, Lockstep
<1>. QED BY <1>6, <1>7, <1>8

LEMMA StepFromWaitClockHigh ==
    ASSUME ComStep, comState = "WaitClockHigh"
    PROVE  Lockstep'
<1>1. InWaitClockHigh BY DEF ComStep, Lockstep
<1>2. PICK n \in 0 .. 10 : n = bitCount /\ currentBit = n - 1 BY <1>1 DEF InWaitClockHigh
<1>3. bitCount' = n /\ currentBit' = n - 1
    BY <1>2, StepTypes, Unmoved DEF Com, BitCount, BitTaken, BitSent
<1>4. /\ ps2_dat_out' = IF ena THEN n - 1 ELSE ps2_dat_out
      /\ ps2_clk_out' = (ena \/ ps2_clk_out)
    BY <1>2, StepTypes, Unmoved DEF Com, ComStep, ComTypeOK
<1>5. comState' = IF ena /\ clkHigh THEN "WaitClockLow" ELSE "WaitClockHigh"
    BY StepTypes, Unmoved DEF Com, NextState
<1>6. CASE n = 0 /\ Waiting /\ ps2_dat_out = StartBit /\ ~ps2_clk_out /\ ~clkReg
    <2>1. ~ps2_clk_in BY <1>6 DEF ps2_clk_in
    <2>2. ~clkReg' BY <2>1, StepTypes DEF Filter
    <2>3. Waiting' BY <1>6, <2>1, WaitingStep
    <2>4. comState' = "WaitClockHigh" BY <1>5, <1>6 DEF clkHigh
    <2>5. ps2_dat_out' = StartBit BY <1>4, <1>6 DEF StartBit
    <2>. QED BY <1>2, <1>3, <1>6, <2>2, <2>3, <2>4, <2>5 DEF InWaitClockHigh, Lockstep
<1>7. CASE n = 0 /\ Waiting /\ ps2_dat_out = StartBit /\ ps2_clk_out
    <2>1. clkReg' BY <1>7, StepTypes DEF Filter, ps2_clk_in, Waiting
    <2>2. \/ Waiting'
          \/ device'.clk /\ Taking(0)' /\ Settled' /\ Within(ClockFilter + 2)'
        BY <1>7, WaitingStep, JustMoved DEF StartBit, High
    <2>3. ps2_dat_out' = StartBit /\ ps2_dat_out' = currentBit' /\ ps2_clk_out'
        <3>1. ps2_dat_out' = n - 1 /\ n - 1 = StartBit BY <1>4, <1>7 DEF StartBit
        <3>. QED BY <1>3, <1>4, <1>7, <3>1
    <2>4. 0 \in 0 .. 10 /\ bitCount' = 0 BY <1>3, <1>7
    <2>. QED BY <1>3, <1>5, <1>7, <2>1, <2>2, <2>3, <2>4 DEF InWaitClockHigh, InWaitClockLow, Lockstep
<1>8. CASE /\ ps2_clk_out /\ Settled /\ ps2_dat_out = currentBit
           /\ device.clk /\ Taking(n) /\ Within(ClockFilter + 2)
    <2>1. Ages /\ device'.clk /\ Taking(n)' BY <1>8, TakingHighStep, JustMoved
    <2>2. Settled' /\ clkReg' BY <1>8, Levels
    <2>3. ps2_dat_out' = currentBit' /\ ps2_clk_out' BY <1>2, <1>3, <1>4, <1>8
    <2>4. ~(ena /\ clkHigh) => Within(ClockFilter + 2)' BY <1>8, <2>1, Unseen, Ps2Assumption
    <2>. QED BY <1>3, <1>5, <2>1, <2>2, <2>3, <2>4 DEF InWaitClockHigh, InWaitClockLow, Lockstep
<1>9. CASE /\ ps2_clk_out /\ Settled /\ n >= 1 /\ ~device.clk /\ Taking(n - 1) /\ device.since >= 1
           /\ ps2_dat_out = currentBit \/ Within(ClockFilter + 4)
    <2>1. Settled' /\ comState' = "WaitClockHigh" /\ ps2_clk_out' BY <1>4, <1>5, <1>9, Levels
    <2>2. CASE Ages /\ ~device'.clk /\ Taking(n - 1)'
        <3>1. device'.since >= 1
            BY <1>9, <2>2, Ps2Assumption DEF Ages, ComStep, DeviceTypeOK, DeviceType
        <3>2. ps2_dat_out' = currentBit' \/ Within(ClockFilter + 4)'
            <4>1. CASE ena \/ ps2_dat_out = currentBit BY <1>2, <1>3, <1>4, <4>1
            <4>2. CASE ~ena /\ Within(ClockFilter + 4) BY <2>2, <4>2, Later, Ps2Assumption
            <4>. QED BY <1>9, <4>1, <4>2
        <3>. QED BY <1>3, <1>9, <2>1, <2>2, <3>1, <3>2 DEF InWaitClockHigh, Lockstep
    <2>3. CASE DeviceMoves
        <3>1. ps2_dat_out = n - 1 BY <1>2, <1>9, <2>3, JustMoved
        <3>2. n - 1 \in 0 .. 10 /\ n - 1 # 10 /\ (n - 1) + 1 = n BY <1>9
        <3>3. ~Ages BY <1>9, <2>3, Ps2Assumption DEF Ages, DeviceMoves, ComStep, DeviceTypeOK, DeviceType
        <3>4. device'.clk /\ Taking(n)' BY <1>9, <3>1, <3>2, <3>3, TakingLowStep
        <3>5. ps2_dat_out' = currentBit' BY <1>3, <1>4, <3>1
        <3>. QED BY <1>3, <2>1, <2>3, <3>4, <3>5, JustMoved DEF InWaitClockHigh, Lockstep
    <2>4. n - 1 \in 0 .. 10 BY <1>9
    <2>. QED BY <1>9, <2>2, <2>3, <2>4, TakingLowStep
<1>. QED BY <1>1, <1>2, <1>6, <1>7, <1>8, <1>9 DEF InWaitClockHigh

LEMMA StepFromWaitClockLow ==
    ASSUME ComStep, comState = "WaitClockLow"
    PROVE  Lockstep'
<1>1. InWaitClockLow BY DEF ComStep, Lockstep
<1>2. PICK n \in 0 .. 10 : n = bitCount /\ currentBit = n - 1 /\ ps2_dat_out = n - 1
    BY <1>1 DEF InWaitClockLow
<1>3. ps2_clk_out /\ ps2_clk_out' /\ ps2_dat_out' = n - 1
    BY <1>1, <1>2, StepTypes, Unmoved DEF Com, InWaitClockLow
<1>4. ~(ena /\ clkLow) => comState' = "WaitClockLow" /\ bitCount' = n /\ currentBit' = n - 1
    BY <1>2, StepTypes, Unmoved DEF Com, NextState, BitCount, BitTaken, BitSent
<1>5. CASE n = 0 /\ Waiting /\ clkReg
    <2>1. clkReg' BY <1>3, <1>5, StepTypes DEF Filter, ps2_clk_in, Waiting
    <2>2. \/ Waiting'
          \/ device'.clk /\ Taking(n)' /\ Settled'
        BY <1>2, <1>5, WaitingStep, JustMoved DEF High
    <2>3. ~clkLow BY <1>5 DEF clkLow
    <2>. QED BY <1>3, <1>4, <1>5, <2>1, <2>2, <2>3 DEF InWaitClockLow, Lockstep
<1>6. CASE Settled /\ device.clk /\ Taking(n) /\ clkReg
    <2>1. Settled' /\ clkReg' BY <1>3, <1>6, Levels
    <2>2. Taking(n)' /\ (~device'.clk => Within(ClockFilter + 2)')
        BY <1>6, TakingHighStep, JustMoved
    <2>3. ~clkLow BY <1>6 DEF clkLow
    <2>. QED BY <1>3, <1>4, <2>1, <2>2, <2>3, StepTypes DEF InWaitClockLow, Lockstep, DeviceTypeOK, DeviceType
<1>7. CASE Settled /\ ~device.clk /\ Taking(n) /\ Within(ClockFilter + 2)
    <2>1. Ages /\ ~device'.clk /\ Taking(n)' BY <1>7, TakingLowStep, JustMoved
    <2>2. Settled' BY <1>3, <1>7, Levels
    <2>3. CASE ~(ena /\ clkLow)
        <3>1. Within(ClockFilter + 2)' BY <1>3, <1>7, <2>1, <2>3, Unseen, Ps2Assumption
        <3>. QED BY <1>3, <1>4, <2>1, <2>2, <2>3, <3>1 DEF InWaitClockLow, Lockstep
    <2>4. CASE ena /\ clkLow
        <3>1. device'.since >= 1 /\ Within(ClockFilter + 4)'
            <4>1. (ClockFilter + 2) + 2 = ClockFilter + 4 BY Ps2Assumption
            <4>2. Within(ClockFilter + 2 + 2)' /\ device'.since >= 1 BY <1>7, <2>1, Later, Ps2Assumption
            <4>. QED BY <4>1, <4>2
        <3>2. CASE n = 10
            <4>1. comState' = "WaitAck" BY <1>2, <2>4, <3>2, StepTypes DEF Com, NextState, LastSent
            <4>. QED BY <1>3, <2>1, <2>2, <3>1, <3>2, <4>1 DEF InWaitAck, Lockstep
        <3>3. CASE n # 10
            <4>1. (n + 1) % 16 = n + 1 /\ n + 1 \in 0 .. 10 /\ n + 1 >= 1 /\ (n + 1) - 1 = n BY <3>3
            <4>2. comState' = "WaitClockHigh" /\ bitCount' = n + 1 /\ currentBit' = n
                BY <1>2, <2>4, <3>3, <4>1, StepTypes, Zenon
                DEF Com, NextState, LastSent, BitCount, BitTaken, BitSent
            <4>. QED BY <1>3, <2>1, <2>2, <3>1, <4>1, <4>2 DEF InWaitClockHigh, Lockstep
        <3>. QED BY <3>2, <3>3
    <2>. QED BY <2>3, <2>4
<1>. QED BY <1>1, <1>2, <1>5, <1>6, <1>7 DEF InWaitClockLow

LEMMA StepFromWaitAck ==
    ASSUME ComStep, comState = "WaitAck"
    PROVE  Lockstep'
<1>1. InWaitAck BY DEF ComStep, Lockstep
<1>2. Settled' /\ clkReg' = device.clk BY <1>1, Levels DEF InWaitAck
<1>3. ps2_clk_out /\ ps2_clk_out' /\ comState' = IF ena /\ clkHigh THEN "Idle" ELSE "WaitAck"
    BY <1>1, StepTypes, Unmoved DEF Com, NextState, InWaitAck
<1>4. CASE ~device.clk /\ Taking(10) /\ device.since >= 1
    <2>1. comState' = "WaitAck" BY <1>1, <1>3, <1>4, Levels DEF InWaitAck
    <2>2. 10 \in 0 .. 10 OBVIOUS
    <2>3. \/ ~device'.clk /\ Taking(10)' /\ device'.since >= 1
          \/ Waiting' /\ Within(ClockFilter + 2)'
        <3>1. Ages => device'.since >= 1
            BY <1>4, Ps2Assumption DEF Ages, ComStep, DeviceTypeOK, DeviceType
        <3>. QED BY <1>4, <2>2, <3>1, TakingLowStep, JustMoved
    <2>. QED BY <1>2, <1>3, <2>1, <2>3 DEF InWaitAck, Lockstep
<1>5. CASE Waiting /\ Within(ClockFilter + 2)
    <2>1. Ages /\ Waiting' BY <1>5, WaitingStep, JustMoved
    <2>2. CASE ena /\ clkHigh
        <3>1. ps2_dat_out' = High BY <2>2, StepTypes DEF Com
        <3>2. clkReg' BY <1>2, <1>5 DEF Waiting
        <3>. QED BY <1>2, <1>3, <2>1, <2>2, <3>1, <3>2 DEF InIdle, Lockstep
    <2>3. CASE ~(ena /\ clkHigh)
        <3>1. Within(ClockFilter + 2)'
            BY <1>1, <1>5, <2>1, <2>3, Unseen, Ps2Assumption DEF InWaitAck, Waiting
        <3>. QED BY <1>2, <1>3, <2>1, <2>3, <3>1 DEF InWaitAck, Lockstep
    <2>. QED BY <2>2, <2>3
<1>. QED BY <1>1, <1>4, <1>5 DEF InWaitAck

-----------------------------------------------------------------------------
(* The invariant.                                                          *)

\* A byte is reported when eleven bits are in, and they are a whole frame.
LEMMA ReportStep ==
    ASSUME ComStep, recvTrigger => recvByte = RecvFrame
    PROVE  recvTrigger' => recvByte' = RecvFrame
<1>1. CASE ~ena BY <1>1, Unmoved
<1>2. CASE ena /\ ~Received
    BY <1>2, StepTypes DEF Com
<1>3. CASE ena /\ Received
    <2>1. comState = "WaitHighRecv" /\ bitCount = 11 BY <1>3 DEF Received, LastRecv
    <2>2. Collected(11) BY <2>1 DEF ComStep, Lockstep, InWaitHighRecv
    <2>3. recvByteLoc \in [1 .. 11 -> Symbols] BY DEF ComStep, ComTypeOK, Symbols
    <2>4. \A i \in 1 .. 11 : recvByteLoc[i] = i - 2
        <3>1. \A i \in 1 .. 11 : 11 - 11 + i = i OBVIOUS
        <3>. QED BY <2>2, <3>1 DEF Collected
    <2>5. recvByteLoc = RecvFrame BY <2>3, <2>4 DEF RecvFrame
    <2>. QED BY <1>3, <2>5, StepTypes DEF Com
<1>. QED BY <1>1, <1>2, <1>3

\* The initial state.
LEMMA ComInvInit == ComInit => ComInv
<1>. SUFFICES ASSUME ComInit PROVE ComInv OBVIOUS
<1>1. ComTypeOK
    <2>1. High \in Bit \union {High} /\ StartBit \in Bit /\ 0 \in 0 .. 15
          /\ 0 \in 0 .. (IF Wait10 > Wait100 THEN Wait10 ELSE Wait100) /\ 0 \in 0 .. ClockFilter
        BY Ps2Assumption DEF Bit, StartBit, StopBit
    <2>. QED BY <2>1 DEF ComInit, ComTypeOK, ComState
<1>2. DeviceTypeOK BY Resting DEF ComInit, DeviceTypeOK
<1>3. InIdle BY Resting DEF ComInit, InIdle, Settled, Waiting
<1>4. Lockstep BY <1>3 DEF ComInit, Lockstep
<1>. QED BY <1>1, <1>2, <1>4 DEF ComInit, ComInv

\* Every step keeps the two in step.
LEMMA LockstepStep == ComStep => Lockstep'
<1>. SUFFICES ASSUME ComStep PROVE Lockstep' OBVIOUS
<1>1. comState \in ComState BY DEF ComStep, ComTypeOK
<1>. QED BY <1>1, StepFromIdle, StepFromRecvBit, StepFromWaitHighRecv, StepFromWait100,
            StepFromClockAndDataLow, StepFromWaitClockHigh, StepFromWaitClockLow, StepFromWaitAck
         DEF ComState

\* The invariant is inductive.
LEMMA ComInvStep == ComInv /\ [ComNext]_ps2Vars => ComInv'
<1>. SUFFICES ASSUME ComInv, [ComNext]_ps2Vars PROVE ComInv' OBVIOUS
<1>1. CASE ComNext
    <2>1. ComStep BY <1>1 DEF ComStep, ComInv
    <2>. QED BY <2>1, StepTypes, LockstepStep, ReportStep DEF ComInv
<1>2. CASE UNCHANGED ps2Vars
    BY <1>2 DEF ps2Vars, filterVars, comVars, ComInv, ComTypeOK, DeviceTypeOK, Lockstep,
        InIdle, InRecvBit, InWaitHighRecv, InWait100, InClockAndDataLow, InWaitClockHigh,
        InWaitClockLow, InWaitAck, Settled, Within, Waiting, Sending, Taking, Collected, Held
<1>. QED BY <1>1, <1>2

LEMMA ComInvKept == ComSpec => []ComInv
BY ComInvInit, ComInvStep, PTL DEF ComSpec

\* The registers of the port keep their types: the counter of bits its four
\* bits, the filter and the waits their bounds.
THEOREM ComTypeCorrect == ComSpec => []ComTypeOK
<1>1. ComInv => ComTypeOK BY DEF ComInv
<1>. QED BY <1>1, ComInvKept, PTL

\* Ten bits taken are the host's ten.
LEMMA TakenWhole ==
    ASSUME ComInv, device.does = "taking", Len(device.taken) = 10
    PROVE  device.taken = SentFrame
<1>1. \A i \in 1 .. 10 : device.taken[i] = i - 1
    <2>1. \E k \in 0 .. 10 : Taking(k)
        <3>1. comState \in ComState BY DEF ComInv, ComTypeOK
        <3>2. 10 \in 0 .. 10 /\ \A n \in 0 .. 10 : n >= 1 => n - 1 \in 0 .. 10 OBVIOUS
        <3>. QED BY <3>1, <3>2 DEF ComInv, Lockstep, ComState, InIdle, InRecvBit, InWaitHighRecv,
                    InWait100, InClockAndDataLow, InWaitClockHigh, InWaitClockLow, InWaitAck,
                    Waiting, Sending
    <2>. QED BY <2>1 DEF Taking
<1>2. device.taken \in Seq(Symbols) BY DEF ComInv, DeviceTypeOK, DeviceType
<1>3. device.taken = [i \in 1 .. 10 |-> device.taken[i]] BY <1>2, LenProperties
<1>. QED BY <1>1, <1>3 DEF SentFrame

\* Host and device keep step with each other's frames: what io_ps2_com.vhd
\* reports as received is one whole frame, however often the host stopped the
\* device in the middle of one, and the device takes every bit of the host's
\* frame once and in order, for any filter, waits and clock of the device that
\* the assumption allows.
THEOREM FramesInStep == ComSpec => []InStep
<1>1. ComInv => InStep BY TakenWhole DEF ComInv, InStep
<1>. QED BY <1>1, ComInvKept, PTL

-----------------------------------------------------------------------------
(***************************************************************************)
(* The port as the peripheral controller sees it.                          *)

PortRecord == [com |-> com, sendTriggerLoc |-> sendTriggerLoc,
               recvTrigger |-> recvTrigger, sendDone |-> sendDone]

\* A port is its four fields.
LEMMA SamePort ==
    ASSUME NEW c \in Abstract!PortState, NEW e \in Abstract!PortState,
           e.com = c.com, e.sendTriggerLoc = c.sendTriggerLoc,
           e.recvTrigger = c.recvTrigger, e.sendDone = c.sendDone
    PROVE  e = c
BY SMT DEF Abstract!PortState

\* What a port is once its trigger is kept and its reports are over.
LEMMA HeldPort ==
    ASSUME NEW c \in Abstract!PortState, NEW t \in BOOLEAN
    PROVE  LET held == [c EXCEPT !.sendTriggerLoc = @ \/ t, !.recvTrigger = FALSE,
                                 !.sendDone = FALSE]
           IN  /\ held \in Abstract!PortState
               /\ held.com = c.com
               /\ held.sendTriggerLoc = (c.sendTriggerLoc \/ t)
               /\ held.recvTrigger = FALSE /\ held.sendDone = FALSE
<1>1. (c.sendTriggerLoc \/ t) \in BOOLEAN
    BY DEF Abstract!PortState
<1>. QED BY <1>1, Zenon DEF Abstract!PortState

\* The three ways the record is changed, field by field.
LEMMA MovedPort ==
    ASSUME NEW c \in Abstract!PortState, NEW k \in {"idle", "send", "receive"}
    PROVE  LET e == [c EXCEPT !.com = k]
           IN  /\ e \in Abstract!PortState /\ e.com = k
               /\ e.sendTriggerLoc = c.sendTriggerLoc
               /\ e.recvTrigger = c.recvTrigger /\ e.sendDone = c.sendDone
BY Zenon DEF Abstract!PortState

LEMMA ReceivedPort ==
    ASSUME NEW c \in Abstract!PortState
    PROVE  LET e == [c EXCEPT !.com = "idle", !.recvTrigger = TRUE]
           IN  /\ e \in Abstract!PortState /\ e.com = "idle" /\ e.recvTrigger = TRUE
               /\ e.sendTriggerLoc = c.sendTriggerLoc /\ e.sendDone = c.sendDone
BY Zenon DEF Abstract!PortState

LEMMA SentPort ==
    ASSUME NEW c \in Abstract!PortState
    PROVE  LET e == [c EXCEPT !.com = "idle", !.sendTriggerLoc = FALSE, !.sendDone = TRUE]
           IN  /\ e \in Abstract!PortState /\ e.com = "idle" /\ e.sendTriggerLoc = FALSE
               /\ e.recvTrigger = c.recvTrigger /\ e.sendDone = TRUE
BY Zenon DEF Abstract!PortState

\* Where Ps2Port lets a port go, by its fields.
LEMMA PortMoves ==
    ASSUME NEW c \in Abstract!PortState, NEW e \in Abstract!PortState, NEW t \in BOOLEAN,
           NEW k \in {"idle", "send", "receive"},
           e.com = k,
           \/ /\ e.sendTriggerLoc = (c.sendTriggerLoc \/ t)
              /\ e.recvTrigger = FALSE /\ e.sendDone = FALSE
              /\ \/ k = c.com /\ c.com # "idle"
                 \/ c.com = "idle" /\ k = "receive"
                 \/ c.com = "idle" /\ k = (IF c.sendTriggerLoc THEN "send" ELSE "idle")
           \/ /\ c.com = "receive" /\ k = "idle" /\ e.sendTriggerLoc = (c.sendTriggerLoc \/ t)
              /\ e.recvTrigger = TRUE /\ e.sendDone = FALSE
           \/ /\ c.com = "send" /\ k = "idle" /\ e.sendTriggerLoc = FALSE
              /\ e.recvTrigger = FALSE /\ e.sendDone = TRUE
    PROVE  e \in Abstract!PortNext(c, t)
<1>. DEFINE held == [c EXCEPT !.sendTriggerLoc = @ \/ t, !.recvTrigger = FALSE, !.sendDone = FALSE]
<1>1. /\ held \in Abstract!PortState /\ held.com = c.com
      /\ held.sendTriggerLoc = (c.sendTriggerLoc \/ t)
      /\ held.recvTrigger = FALSE /\ held.sendDone = FALSE
    BY HeldPort, Zenon
<1>2. Abstract!PortNext(c, t) =
          CASE c.com = "idle" ->
               {[held EXCEPT !.com = "receive"],
                [held EXCEPT !.com = IF c.sendTriggerLoc THEN "send" ELSE "idle"]}
          [] c.com = "receive" ->
               {held, [held EXCEPT !.com = "idle", !.recvTrigger = TRUE]}
          [] c.com = "send" ->
               {held, [held EXCEPT !.com = "idle", !.sendTriggerLoc = FALSE, !.sendDone = TRUE]}
    BY Zenon DEF Abstract!PortNext
<1>. HIDE DEF held
<1>3. CASE /\ e.sendTriggerLoc = (c.sendTriggerLoc \/ t) /\ e.recvTrigger = FALSE /\ e.sendDone = FALSE
           /\ k = c.com /\ c.com # "idle"
    <2>1. e = held BY <1>1, <1>3, SamePort, Zenon
    <2>2. c.com \in {"send", "receive"} BY <1>3
    <2>3. CASE c.com = "send"
        <3>1. Abstract!PortNext(c, t) = {held, [held EXCEPT !.com = "idle", !.sendTriggerLoc = FALSE,
                                                            !.sendDone = TRUE]}
            BY <1>2, <2>3, SMT
        <3>. QED BY <3>1, <2>1, Zenon
    <2>4. CASE c.com = "receive"
        <3>1. Abstract!PortNext(c, t) = {held, [held EXCEPT !.com = "idle", !.recvTrigger = TRUE]}
            BY <1>2, <2>4, SMT
        <3>. QED BY <3>1, <2>1, Zenon
    <2>. QED BY <2>2, <2>3, <2>4
<1>4. CASE /\ e.sendTriggerLoc = (c.sendTriggerLoc \/ t) /\ e.recvTrigger = FALSE /\ e.sendDone = FALSE
           /\ c.com = "idle"
           /\ k = "receive" \/ k = (IF c.sendTriggerLoc THEN "send" ELSE "idle")
    <2>. DEFINE moved == [held EXCEPT !.com = k]
    <2>1. /\ moved \in Abstract!PortState /\ moved.com = k
          /\ moved.sendTriggerLoc = held.sendTriggerLoc
          /\ moved.recvTrigger = held.recvTrigger /\ moved.sendDone = held.sendDone
        BY <1>1, MovedPort, Zenon
    <2>2. e = moved
        <3>. HIDE DEF moved
        <3>. QED BY <1>1, <1>4, <2>1, SamePort, Zenon
    <2>3. Abstract!PortNext(c, t) =
               {[held EXCEPT !.com = "receive"],
                [held EXCEPT !.com = IF c.sendTriggerLoc THEN "send" ELSE "idle"]}
        BY <1>2, <1>4, SMT
    <2>. QED BY <1>4, <2>2, <2>3, Zenon
<1>5. CASE /\ c.com = "receive" /\ k = "idle" /\ e.sendTriggerLoc = (c.sendTriggerLoc \/ t)
           /\ e.recvTrigger = TRUE /\ e.sendDone = FALSE
    <2>. DEFINE moved == [held EXCEPT !.com = "idle", !.recvTrigger = TRUE]
    <2>1. /\ moved \in Abstract!PortState /\ moved.com = "idle" /\ moved.recvTrigger = TRUE
          /\ moved.sendTriggerLoc = held.sendTriggerLoc /\ moved.sendDone = held.sendDone
        BY <1>1, ReceivedPort, Zenon
    <2>2. e = moved
        <3>. HIDE DEF moved
        <3>. QED BY <1>1, <1>5, <2>1, SamePort, Zenon
    <2>3. Abstract!PortNext(c, t) = {held, moved}
        BY <1>2, <1>5, SMT
    <2>. QED BY <2>2, <2>3, Zenon
<1>6. CASE /\ c.com = "send" /\ k = "idle" /\ e.sendTriggerLoc = FALSE
           /\ e.recvTrigger = FALSE /\ e.sendDone = TRUE
    <2>. DEFINE moved == [held EXCEPT !.com = "idle", !.sendTriggerLoc = FALSE, !.sendDone = TRUE]
    <2>1. /\ moved \in Abstract!PortState /\ moved.com = "idle" /\ moved.sendTriggerLoc = FALSE
          /\ moved.recvTrigger = held.recvTrigger /\ moved.sendDone = TRUE
        BY <1>1, SentPort, Zenon
    <2>2. e = moved
        <3>. HIDE DEF moved
        <3>. QED BY <1>1, <1>6, <2>1, SamePort, Zenon
    <2>3. Abstract!PortNext(c, t) = {held, moved}
        BY <1>2, <1>6, SMT
    <2>. QED BY <2>2, <2>3, Zenon
<1>. QED BY <1>3, <1>4, <1>5, <1>6

\* The port's record.
LEMMA PortTypes ==
    ASSUME ComTypeOK
    PROVE  /\ com \in {"idle", "send", "receive"}
           /\ PortRecord \in Abstract!PortState
           /\ PortRecord.com = com /\ PortRecord.sendTriggerLoc = sendTriggerLoc
           /\ PortRecord.recvTrigger = recvTrigger /\ PortRecord.sendDone = sendDone
<1>1. com \in {"idle", "send", "receive"}
    BY DEF com
<1>. QED BY <1>1, Zenon DEF ComTypeOK, PortRecord, Abstract!PortState

\* At an edge with ena high the port goes where Ps2Port lets it go: a byte
\* that arrives wins over one to be sent, and the trigger is kept until the
\* byte is acknowledged.
LEMMA PortEdge ==
    ASSUME ComTypeOK, ComTypeOK', Com
    PROVE  PortRecord' \in Abstract!PortNext(PortRecord, sendTrigger)
<1>1. /\ PortRecord \in Abstract!PortState
      /\ PortRecord.com = com /\ PortRecord.sendTriggerLoc = sendTriggerLoc
      /\ PortRecord' \in Abstract!PortState
      /\ PortRecord'.com = com' /\ PortRecord'.sendTriggerLoc = sendTriggerLoc'
      /\ PortRecord'.recvTrigger = recvTrigger' /\ PortRecord'.sendDone = sendDone'
      /\ com' \in {"idle", "send", "receive"} /\ sendTrigger \in BOOLEAN
    <2>1. PortRecord' \in Abstract!PortState /\ PortRecord'.com = com'
          /\ PortRecord'.sendTriggerLoc = sendTriggerLoc' /\ PortRecord'.recvTrigger = recvTrigger'
          /\ PortRecord'.sendDone = sendDone' /\ com' \in {"idle", "send", "receive"}
        <3>1. com' \in {"idle", "send", "receive"}
            BY DEF com
        <3>. QED BY <3>1, Zenon DEF ComTypeOK, PortRecord, Abstract!PortState
    <2>. QED BY <2>1, PortTypes DEF ComTypeOK
<1>2. /\ comState' = NextState /\ sendDone' = Acked /\ recvTrigger' = Received
      /\ sendTriggerLoc' = ((sendTriggerLoc \/ sendTrigger) /\ ~Acked)
    BY DEF Com, Trigger
<1>3. ASSUME \/ /\ sendTriggerLoc' = (sendTriggerLoc \/ sendTrigger)
                /\ recvTrigger' = FALSE /\ sendDone' = FALSE
                /\ \/ com' = com /\ com # "idle"
                   \/ com = "idle" /\ com' = "receive"
                   \/ com = "idle" /\ com' = (IF sendTriggerLoc THEN "send" ELSE "idle")
             \/ /\ com = "receive" /\ com' = "idle"
                /\ sendTriggerLoc' = (sendTriggerLoc \/ sendTrigger)
                /\ recvTrigger' = TRUE /\ sendDone' = FALSE
             \/ /\ com = "send" /\ com' = "idle" /\ sendTriggerLoc' = FALSE
                /\ recvTrigger' = FALSE /\ sendDone' = TRUE
      PROVE  PortRecord' \in Abstract!PortNext(PortRecord, sendTrigger)
    <2>. DEFINE c == PortRecord
                e == PortRecord'
    <2>1. /\ c \in Abstract!PortState /\ e \in Abstract!PortState
          /\ com' \in {"idle", "send", "receive"} /\ sendTrigger \in BOOLEAN /\ e.com = com'
        BY <1>1, Zenon
    <2>2. \/ /\ e.sendTriggerLoc = (c.sendTriggerLoc \/ sendTrigger)
             /\ e.recvTrigger = FALSE /\ e.sendDone = FALSE
             /\ \/ com' = c.com /\ c.com # "idle"
                \/ c.com = "idle" /\ com' = "receive"
                \/ c.com = "idle" /\ com' = (IF c.sendTriggerLoc THEN "send" ELSE "idle")
          \/ /\ c.com = "receive" /\ com' = "idle"
             /\ e.sendTriggerLoc = (c.sendTriggerLoc \/ sendTrigger)
             /\ e.recvTrigger = TRUE /\ e.sendDone = FALSE
          \/ /\ c.com = "send" /\ com' = "idle" /\ e.sendTriggerLoc = FALSE
             /\ e.recvTrigger = FALSE /\ e.sendDone = TRUE
        BY <1>1, <1>3, Zenon
    <2>. HIDE DEF c, e
    <2>3. e \in Abstract!PortNext(c, sendTrigger)
        BY <2>1, <2>2, PortMoves, Zenon
    <2>. QED BY <2>3, Zenon DEF c, e
<1>4. sendTriggerLoc \in BOOLEAN /\ sendTrigger \in BOOLEAN
    BY DEF ComTypeOK
<1>5. CASE comState = "Idle"
    <2>1. ~Acked /\ ~Received /\ comState' = FromIdle /\ com = "idle"
        BY <1>2, <1>5 DEF NextState, Acked, Received, com
    <2>2. com' = "receive" \/ com' = (IF sendTriggerLoc THEN "send" ELSE "idle")
        BY <2>1 DEF FromIdle, com
    <2>3. /\ sendTriggerLoc' = (sendTriggerLoc \/ sendTrigger)
          /\ recvTrigger' = FALSE /\ sendDone' = FALSE
        BY <1>2, <1>4, <2>1
    <2>. QED BY <1>3, <2>1, <2>2, <2>3, Zenon
<1>6. CASE comState \in {"RecvBit", "WaitHighRecv"}
    <2>1. ~Acked /\ com = "receive"
        BY <1>6 DEF Acked, com
    <2>2. CASE Received
        <3>1. com' = "idle" BY <1>2, <2>2 DEF NextState, Received, com
        <3>2. /\ sendTriggerLoc' = (sendTriggerLoc \/ sendTrigger)
              /\ recvTrigger' = TRUE /\ sendDone' = FALSE
            BY <1>2, <1>4, <2>1, <2>2
        <3>. QED BY <1>3, <2>1, <3>1, <3>2, Zenon
    <2>3. CASE ~Received
        <3>1. com' = "receive" BY <1>2, <1>6, <2>3 DEF NextState, Received, com
        <3>2. /\ sendTriggerLoc' = (sendTriggerLoc \/ sendTrigger)
              /\ recvTrigger' = FALSE /\ sendDone' = FALSE
            BY <1>2, <1>4, <2>1, <2>3
        <3>. QED BY <1>3, <2>1, <3>1, <3>2, Zenon
    <2>. QED BY <2>2, <2>3
<1>7. CASE comState \in {"Wait100", "WaitClockLow", "WaitClockHigh", "ClockAndDataLow", "WaitAck"}
    <2>1. ~Received /\ com = "send"
        BY <1>7 DEF Received, com
    <2>2. CASE Acked
        <3>1. com' = "idle" BY <1>2, <2>2 DEF NextState, Acked, com
        <3>2. sendTriggerLoc' = FALSE /\ recvTrigger' = FALSE /\ sendDone' = TRUE
            <4>1. Acked = TRUE /\ Received = FALSE
                BY <2>1, <2>2 DEF Acked, Received
            <4>. QED BY <1>2, <4>1, Zenon
        <3>. QED BY <1>3, <2>1, <3>1, <3>2, Zenon
    <2>3. CASE ~Acked
        <3>1. com' = "send" BY <1>2, <1>7, <2>3 DEF NextState, Acked, com
        <3>2. /\ sendTriggerLoc' = (sendTriggerLoc \/ sendTrigger)
              /\ recvTrigger' = FALSE /\ sendDone' = FALSE
            BY <1>2, <1>4, <2>1, <2>3
        <3>. QED BY <1>3, <2>1, <3>1, <3>2, Zenon
    <2>. QED BY <2>2, <2>3
<1>. QED BY <1>5, <1>6, <1>7 DEF ComTypeOK, ComState

\* Every step of the port is a step of Ps2Port with the trigger of that moment.
LEMMA PortStep ==
    ASSUME ComTypeOK, ComTypeOK', ComNext
    PROVE  \E t \in [{"ps2"} -> BOOLEAN] : Abstract!PortTick(t)
<1>. DEFINE trigger == [p \in {"ps2"} |-> sendTrigger]
            port == [p \in {"ps2"} |-> [com |-> com, sendTriggerLoc |-> sendTriggerLoc,
                                        recvTrigger |-> recvTrigger, sendDone |-> sendDone]]
            outcomes(p) == Abstract!PortNext(port[p], trigger[p])
<1>1. trigger \in [{"ps2"} -> BOOLEAN]
    BY DEF ComTypeOK
<1>2. ena' = ~ena /\ (IF ena THEN Com ELSE UNCHANGED comVars)
    BY DEF ComNext, Host, Filter
<1>3. CASE ena
    <2>1. port["ps2"] = PortRecord /\ port' = [p \in {"ps2"} |-> PortRecord'] /\ trigger["ps2"] = sendTrigger
        BY DEF PortRecord
    <2>2. PortRecord' \in outcomes("ps2")
        BY <1>2, <1>3, <2>1, PortEdge, Zenon
    <2>3. port' \in [{"ps2"} -> UNION {outcomes(p) : p \in {"ps2"}}]
        <3>. HIDE DEF outcomes
        <3>. QED BY <2>1, <2>2
    <2>4. \A p \in {"ps2"} : (port')[p] \in outcomes(p)
        <3>. HIDE DEF outcomes
        <3>. QED BY <2>1, <2>2
    <2>5. Abstract!PortTick(trigger)
        BY <1>2, <1>3, <2>3, <2>4, Zenon DEF Abstract!PortTick
    <2>. QED BY <1>1, <2>5, Zenon
<1>4. CASE ~ena
    <2>1. port' = port
        BY <1>2, <1>4 DEF comVars, com
    <2>2. Abstract!PortTick(trigger)
        BY <1>2, <1>4, <2>1, Zenon DEF Abstract!PortTick
    <2>. QED BY <1>1, <2>2, Zenon
<1>. QED BY <1>2, <1>3, <1>4 DEF ComTypeOK

\* io_ps2_com.vhd:103-232 keeps what Ps2Port, and with it the peripheral
\* controller, takes for granted of it: the port works on every second clock,
\* a byte that arrives wins over one to be sent, a trigger is kept until its
\* byte is acknowledged, and a report lasts until the next such clock.
THEOREM PortIsImplemented == ComSpec => ImplementsPort
<1>1. ComInit => Abstract!PortInit
    BY DEF ComInit, Abstract!PortInit, com
<1>2. ASSUME ComTypeOK, ComTypeOK', [ComNext]_ps2Vars
      PROVE  [\E t \in [{"ps2"} -> BOOLEAN] : Abstract!PortTick(t)]_<<ena,
                 [p \in {"ps2"} |-> [com |-> com, sendTriggerLoc |-> sendTriggerLoc,
                                     recvTrigger |-> recvTrigger, sendDone |-> sendDone]]>>
    <2>1. CASE ComNext
        BY <1>2, <2>1, PortStep, Zenon
    <2>2. CASE UNCHANGED ps2Vars
        BY <2>2 DEF ps2Vars, filterVars, comVars, com
    <2>. QED BY <1>2, <2>1, <2>2
<1>. QED BY <1>1, <1>2, ComTypeCorrect, PTL DEF ComSpec, ImplementsPort, Abstract!PortSpec

-----------------------------------------------------------------------------
(* The DMA cache: where a burst is at each phase of the controller.        *)

\* The line that was granted is being fetched, or its words arrive.
Granted == burst # NoBurst /\ phase # 2
Stage == IF phase <= 1 THEN phase + 7 ELSE IF phase <= 10 THEN 1 ELSE phase - 9

Engine ==
    /\ ~Granted => inputstate \in {0, 1} /\ (sdram_req <=> inputstate = 1)
    /\ Granted => inputstate = Stage /\ (sdram_req <=> phase = 3)
    /\ Granted => burst \in Address /\ burst % 8 = 0
    /\ rsp = "ack" <=> Granted /\ phase = 3
    /\ rsp = "nak" => phase = 3

\* The burst asked for or on its way is the channel's; the channel's address
\* and count are already those of the next one.
Owner(c) == activechannel = c /\ inputstate # rd1
Coming(c) == Owner(c) /\ Granted /\ phase # 3

Arrived(c) == IF Owner(c) THEN inputstate - 1 ELSE 0
Missing(c) == IF Owner(c) THEN 9 - inputstate ELSE 0
One(b) == IF b THEN 1 ELSE 0
Landing(c) == One(internals[c].fill)

-----------------------------------------------------------------------------
(* A channel and its host.                                                 *)

\* A request is with the host's pin, the engine, or answered.
HostRules(c) ==
    /\ waiting[c] <=> host[c].req \/ internals[c].pending \/ valid[c]
    /\ ~(host[c].req /\ internals[c].pending) /\ ~(host[c].req /\ valid[c])
    /\ ~(internals[c].pending /\ valid[c])
    /\ host[c].req \/ internals[c].pending => stock[c] > 0
    /\ internals[c].drain <=> valid[c]
    /\ internals[c].fill <=> Landed(c)
    /\ Owner(c) /\ ~Coming(c) => internals[c].count >= 0

\* A new address comes when nothing of the channel moves.
SetRules(c) ==
    host[c].setaddr =>
        /\ ~waiting[c] /\ ~Owner(c) /\ ~Wants(c) /\ ~internals[c].fill
        /\ want[c] = host[c].addr /\ host[c].addr \in Starts[c]
        /\ IF c \in Video THEN ~host[c].setreqlen /\ asked[c] = 0 ELSE host[c].setreqlen
LenRules(c) ==
    host[c].setreqlen =>
        /\ ~waiting[c] /\ asked[c] = host[c].reqlen /\ host[c].reqlen \in Lengths[c]
        /\ c \notin Video => host[c].setaddr

Fresh(c) ==
    /\ ~waiting[c] /\ ~host[c].setaddr /\ ~host[c].setreqlen /\ ~Owner(c) /\ ~internals[c].fill
    /\ asked[c] = 0 /\ stock[c] = 0 /\ internals[c].count = 0 /\ counter[c] = 0

\* Every word that arrives has its place.
Room(c) == stock[c] + Landing(c) + Missing(c) <= Depth

\* The counter starts at one, and counts the words before an unaligned start.
Counting(c) ==
    /\ stock[c] + One(internals[c].drain) + 1 <= counter[c]
    /\ counter[c] <= stock[c] + One(internals[c].drain) + 8
    /\ One(internals[c].drain) + 1 <= counter[c]

\* Where the next word to arrive is written.
Round(n) == IF n >= Depth THEN n - Depth ELSE n
Pointers(c) ==
    /\ internals[c].wrptr % 8 = 0 /\ internals[c].wrptr_next = Round(internals[c].wrptr + 8)
    /\ internals[c].rdptr + stock[c] >= 0
    /\ internals[c].wrptr + Arrived(c) = Round(internals[c].rdptr + stock[c] + Landing(c))
    /\ Landed(c) => cache_wraddr.block + cache_wraddr.lsb = Round(internals[c].rdptr + stock[c])

\* What is in the FIFO, in its write port, and yet to arrive.
Owed(c) == want[c] + One(valid[c])
Content(c) ==
    /\ \A j \in 0 .. stock[c] - 1 : ram[c][Round(internals[c].rdptr + j)] = (Owed(c) + j) % Memory
    /\ Landed(c) => data_from_ram = (Owed(c) + stock[c]) % Memory
    /\ ~(Owner(c) /\ Granted) =>
           LineOf(internals[c].addr) = (Owed(c) + stock[c] + Landing(c)) % Memory
    /\ Owner(c) /\ Granted => burst + Arrived(c) = (Owed(c) + stock[c] + Landing(c)) % Memory
    /\ Coming(c) => LineOf(internals[c].addr) = (burst + 8) % Memory
    /\ Owner(c) /\ Granted /\ phase = 3 => LineOf(internals[c].addr) = burst

Answer(c) == valid[c] => cache_rdaddr.chan = c /\ ram[c][cache_rdaddr.slot] = want[c]

Set(c) == want[c] # NoWord /\ ~host[c].setaddr

ChannelInv(c) ==
    /\ HostRules(c) /\ SetRules(c) /\ LenRules(c) /\ Room(c) /\ Answer(c)
    /\ want[c] = NoWord => Fresh(c)
    /\ Set(c) => Counting(c) /\ Pointers(c) /\ Content(c)

DmaInv == TypeOK /\ Engine /\ \A c \in Channel : ChannelInv(c)

-----------------------------------------------------------------------------
(* Transfers that their bursts cover.                                      *)

InBursts(n) == IF n > 0 THEN 8 * ((n + 7) \div 8) ELSE 0
WholeTransfers ==
    \A c \in Channel : \A a \in Starts[c] :
        IF c \in Video THEN (a % 8) = 0
        ELSE \A n \in Lengths[c] : (a % 8) + n <= InBursts(n)

Covered(c) ==
    /\ c \in Video => stock[c] >= 0
    /\ ~host[c].setaddr /\ ~host[c].setreqlen =>
           asked[c] + One(host[c].req \/ internals[c].pending)
             <= stock[c] + Landing(c) + (IF Coming(c) THEN Missing(c) ELSE 0)
                + InBursts(internals[c].count)
CoverInv == \A c \in Channel : Covered(c)

-----------------------------------------------------------------------------
(* Numbers.                                                                *)

\* The sizes of a FIFO and of memory.
LEMMA Sizes ==
    /\ Depth \in Nat /\ Depth >= 16 /\ Depth % 8 = 0
    /\ Memory \in Nat \ {0} /\ Memory % 8 = 0 /\ Memory >= 8
    /\ MaxLen \in Nat
BY DmaAssumption

\* The channel that is served, of those that may be.
LEMMA FirstIn ==
    ASSUME NEW S, S \subseteq Channel, S # {}
    PROVE  First(S) \in S
<1>1. S \subseteq Nat BY DmaAssumption
<1>2. PICK c \in S : \A d \in S : ~(<<d, c>> \in OpToRel(<, Nat))
    BY <1>1, WFMin, NatLessThanWellFounded
<1>3. \A d \in S : ~(d < c)
    BY <1>1, <1>2 DEF OpToRel
<1>4. \A d \in S : c <= d
    BY <1>1, <1>3
<1>. QED BY <1>4 DEF First

\* Adding a multiple leaves the remainder, and remainders can be taken early.
LEMMA ModOf ==
    ASSUME NEW M \in Nat \ {0}, NEW q \in Int, NEW r \in 0 .. M - 1
    PROVE  (M * q + r) % M = r
OBVIOUS
LEMMA ModRange ==
    ASSUME NEW M \in Nat \ {0}, NEW x \in Int
    PROVE  x % M \in 0 .. M - 1
OBVIOUS
LEMMA ModSmall ==
    ASSUME NEW M \in Nat \ {0}, NEW x \in 0 .. M - 1
    PROVE  x % M = x
OBVIOUS
LEMMA ModAdd ==
    ASSUME NEW M \in Nat \ {0}, NEW x \in Int, NEW y \in Int
    PROVE  ((x % M) + y) % M = (x + y) % M
<1>1. PICK q \in Int, r \in 0 .. M - 1 : x = M * q + r /\ r = x % M
    <2>1. x = M * (x \div M) + (x % M) /\ x \div M \in Int /\ x % M \in 0 .. M - 1
        OBVIOUS
    <2>. QED BY <2>1
<1>2. PICK p \in Int, s \in 0 .. M - 1 : r + y = M * p + s /\ s = (r + y) % M
    <2>1. r + y \in Int OBVIOUS
    <2>2. r + y = M * ((r + y) \div M) + ((r + y) % M) /\ (r + y) \div M \in Int
          /\ (r + y) % M \in 0 .. M - 1
        BY <2>1
    <2>. QED BY <2>2
<1>3. x + y = M * (q + p) + s /\ q + p \in Int
    BY <1>1, <1>2
<1>4. (x + y) % M = s
    BY <1>3, ModOf
<1>. QED BY <1>1, <1>2, <1>4

\* Lines, at multiples of eight.
LEMMA Lines ==
    ASSUME NEW a \in Address
    PROVE  /\ LineOf(a) \in Address /\ LineOf(a) % 8 = 0 /\ LineOf(a) <= a
           /\ a - LineOf(a) = a % 8 /\ a % 8 \in 0 .. 7
           /\ LineOf(a) + 7 < Memory
BY Sizes DEF LineOf, Address

\* The next line's address, around memory.
LEMMA NextLine ==
    ASSUME NEW a \in Address
    PROVE  /\ (a + 8) % Memory \in Address
           /\ LineOf((a + 8) % Memory) = (LineOf(a) + 8) % Memory
<1>1. CASE a + 8 < Memory
    <2>1. (a + 8) % Memory = a + 8
        BY <1>1, Sizes, ModSmall DEF Address
    <2>2. LineOf(a + 8) = LineOf(a) + 8
        BY DEF LineOf, Address
    <2>3. LineOf(a) + 8 \in 0 .. Memory - 1
        <3>1. PICK line \in Int : line = LineOf(a) /\ 0 <= line /\ line <= a
            BY Lines DEF Address
        <3>. QED BY <1>1, <3>1, Sizes DEF Address
    <2>4. (LineOf(a) + 8) % Memory = LineOf(a) + 8
        BY <2>3, Sizes, ModSmall
    <2>. QED BY <1>1, <2>1, <2>2, <2>4, Sizes DEF Address
<1>2. CASE a + 8 >= Memory
    <2>1. a + 8 - Memory \in 0 .. Memory - 1
        BY <1>2, Sizes DEF Address
    <2>2. (a + 8) % Memory = a + 8 - Memory
        <3>1. a + 8 = Memory * 1 + (a + 8 - Memory) BY Sizes DEF Address
        <3>. QED BY <3>1, <2>1, ModOf, Sizes
    <2>3. LineOf(a + 8 - Memory) = LineOf(a) + 8 - Memory
        BY Sizes DEF LineOf, Address
    <2>4. LineOf(a) + 8 - Memory \in 0 .. Memory - 1
        <3>1. PICK line \in Int : line = LineOf(a) /\ line <= a /\ a < line + 8 /\ line % 8 = 0
            BY Lines DEF Address
        <3>. QED BY <1>2, <3>1, Sizes DEF Address
    <2>5. (LineOf(a) + 8) % Memory = LineOf(a) + 8 - Memory
        <3>1. LineOf(a) + 8 = Memory * 1 + (LineOf(a) + 8 - Memory) BY Sizes, Lines DEF Address
        <3>. QED BY <3>1, <2>4, ModOf, Sizes
    <2>. QED BY <2>1, <2>2, <2>3, <2>5 DEF Address
<1>. QED BY <1>1, <1>2, Sizes DEF Address

-----------------------------------------------------------------------------
(* What a tick does.                                                       *)

\* A tick from a state of the invariant, the hosts being neither eager nor
\* abrupt.
Ticks(granted, move) ==
    /\ DmaInv /\ Eager = {} /\ Abrupt = {}
    /\ granted \in BOOLEAN /\ move \in AllMoves /\ Tick(granted, move)
DmaStep == \E granted, move : Ticks(granted, move)

ack == rsp = "ack"

\* The registers of a channel, one by one.
LEMMA RegisterStep ==
    ASSUME DmaStep, NEW c \in Channel
    PROVE  /\ internals'[c].addr = (IF host[c].setaddr THEN host[c].addr
                                    ELSE IF Advanced(c, ack) THEN (internals[c].addr + 8) % Memory
                                    ELSE internals[c].addr)
           /\ internals'[c].count = Remaining(c, host[c], ack)
           /\ internals'[c].extend = (IF host[c].setreqlen THEN internals[c].addr % 4 # 0
                                      ELSE internals[c].extend /\ ~Advanced(c, ack))
           /\ internals'[c].wrptr = (IF host[c].setaddr THEN 0
                                     ELSE IF Finished(c) THEN internals[c].wrptr_next
                                     ELSE internals[c].wrptr)
           /\ internals'[c].wrptr_next = (IF host[c].setaddr THEN 8
                                          ELSE IF Finished(c) THEN NextBlock(internals[c].wrptr_next)
                                          ELSE internals[c].wrptr_next)
           /\ internals'[c].rdptr = (IF host[c].setaddr THEN host[c].addr % 8
                                     ELSE IF Served(c) THEN (internals[c].rdptr + 1) % Depth
                                     ELSE internals[c].rdptr)
           /\ internals'[c].pending = Pending(c, host[c])
           /\ internals'[c].fill = (Receives(fillPhase) /\ c = activechannel)
           /\ internals'[c].drain = Served(c)
<1>1. internals' = [d \in Channel |-> Registers(d, host[d], ack, fillPhase)]
    BY DEF DmaStep, Ticks, Tick, DmaTick, ack
<1>2. internals'[c] = Registers(c, host[c], ack, fillPhase)
    BY <1>1, Zenon
<1>. QED BY <1>2 DEF Registers

\* What the host of a channel does.
Proceeds(c) == want'[c] = IF valid[c] /\ waiting[c] THEN (want[c] + 1) % Memory ELSE want[c]
Silent(c) == ~host'[c].setaddr /\ host'[c].addr = host[c].addr
Unsized(c) == ~host'[c].setreqlen /\ host'[c].reqlen = host[c].reqlen
Sized(c) == host'[c].setreqlen /\ host'[c].reqlen \in Lengths[c] /\ asked'[c] = host'[c].reqlen
HostStep(c) ==
    \/ /\ Silent(c) /\ Unsized(c) /\ ~host'[c].req
       /\ asked'[c] = asked[c] /\ (waiting'[c] <=> waiting[c] /\ ~valid[c]) /\ Proceeds(c)
    \/ /\ MayAsk(c) /\ Silent(c) /\ Unsized(c) /\ host'[c].req
       /\ asked'[c] = asked[c] - 1 /\ waiting'[c] /\ Proceeds(c)
    \/ /\ MayContinue(c) /\ Silent(c) /\ Sized(c) /\ ~host'[c].req
       /\ (waiting'[c] <=> waiting[c] /\ ~valid[c]) /\ Proceeds(c)
    \/ /\ MaySet(c) /\ host'[c].setaddr /\ ~host'[c].req /\ ~waiting'[c]
       /\ host'[c].addr \in Starts[c] /\ want'[c] = host'[c].addr
       /\ \/ c \in Video /\ Unsized(c) /\ asked'[c] = 0
          \/ c \notin Video /\ Sized(c)
\* A host's move is one of these.
LEMMA HostSteps ==
    ASSUME DmaStep, NEW c \in Channel
    PROVE  HostStep(c)
<1>1. PICK granted, move : Ticks(granted, move)
    BY DEF DmaStep
<1>2. Hosts(move) /\ move[c] \in Moves(c)
    BY <1>1, Zenon DEF Ticks, Tick, AllMoves
<1>. DEFINE m == move[c]
<1>3. /\ host'[c].setaddr = Setting(m)
      /\ host'[c].addr = (IF Setting(m) THEN m.addr ELSE host[c].addr)
      /\ host'[c].setreqlen = Sizing(m)
      /\ host'[c].reqlen = (IF Sizing(m) THEN m.len ELSE host[c].reqlen)
      /\ host'[c].req = (m = Ask)
    <2>1. host'[c] = [setaddr |-> Setting(m), addr |-> IF Setting(m) THEN m.addr ELSE host[c].addr,
                      setreqlen |-> Sizing(m), reqlen |-> IF Sizing(m) THEN m.len ELSE host[c].reqlen,
                      req |-> m = Ask]
        BY <1>2, Zenon DEF Hosts
    <2>. QED BY <2>1
<1>4. /\ asked'[c] = CASE Sizing(m) -> m.len [] m.kind = "address" -> 0
                       [] m = Ask -> asked[c] - 1 [] OTHER -> asked[c]
      /\ waiting'[c] = (m = Ask \/ (waiting[c] /\ ~valid[c] /\ ~Setting(m)))
      /\ want'[c] = (IF Setting(m) THEN m.addr
                     ELSE IF valid[c] /\ waiting[c] THEN (want[c] + 1) % Memory ELSE want[c])
    BY <1>2, Zenon DEF Hosts
<1>5. CASE m = Rest
    <2>1. m.kind = "rest" BY <1>5 DEF Rest
    <2>2. ~Setting(m) /\ ~Sizing(m) /\ m # Ask
        BY <2>1 DEF Setting, Sizing, Ask
    <2>3. asked'[c] = asked[c]
        BY <1>4, <2>1, <2>2
    <2>. QED BY <1>3, <1>4, <2>2, <2>3, Zenon DEF HostStep, Proceeds, Silent, Unsized, Sized
<1>6. CASE m = Ask /\ MayAsk(c)
    <2>1. m.kind = "ask" BY <1>6 DEF Ask
    <2>2. ~Setting(m) /\ ~Sizing(m)
        BY <2>1 DEF Setting, Sizing
    <2>3. asked'[c] = asked[c] - 1
        BY <1>4, <1>6, <2>1, <2>2
    <2>. QED BY <1>3, <1>4, <1>6, <2>2, <2>3, Zenon DEF HostStep, Proceeds, Silent, Unsized, Sized
<1>7. ASSUME NEW n \in Lengths[c], m = SetLen(n), MayContinue(c)
      PROVE  HostStep(c)
    <2>1. m.kind = "length" /\ m.len = n BY <1>7 DEF SetLen
    <2>2. ~Setting(m) /\ Sizing(m) /\ m # Ask
        <3>1. Ask.kind = "ask" BY Zenon DEF Ask
        <3>. QED BY <2>1, <3>1 DEF Setting, Sizing
    <2>3. asked'[c] = n
        BY <1>4, <2>1, <2>2
    <2>4. host'[c].reqlen = n BY <1>3, <2>1, <2>2, Zenon
    <2>. QED BY <1>3, <1>4, <1>7, <2>2, <2>3, <2>4, Zenon DEF HostStep, Proceeds, Silent, Unsized, Sized
<1>8. ASSUME NEW a \in Starts[c], m = SetAddr(a), MaySet(c), c \in Video
      PROVE  HostStep(c)
    <2>1. m.kind = "address" /\ m.addr = a BY <1>8 DEF SetAddr
    <2>2. Setting(m) /\ ~Sizing(m) /\ m # Ask
        <3>1. Ask.kind = "ask" BY Zenon DEF Ask
        <3>. QED BY <2>1, <3>1 DEF Setting, Sizing
    <2>3. asked'[c] = 0
        BY <1>4, <2>1, <2>2
    <2>4. host'[c].addr = a /\ want'[c] = a BY <1>3, <1>4, <2>1, <2>2, Zenon
    <2>. QED BY <1>3, <1>4, <1>8, <2>2, <2>3, <2>4, Zenon DEF HostStep, Silent, Unsized, Sized
<1>9. ASSUME NEW a \in Starts[c], NEW n \in Lengths[c], m = SetBoth(a, n), MaySet(c), c \notin Video
      PROVE  HostStep(c)
    <2>1. m.kind = "both" /\ m.addr = a /\ m.len = n BY <1>9 DEF SetBoth
    <2>2. Setting(m) /\ Sizing(m) /\ m # Ask
        <3>1. Ask.kind = "ask" BY Zenon DEF Ask
        <3>. QED BY <2>1, <3>1 DEF Setting, Sizing
    <2>3. asked'[c] = n
        BY <1>4, <2>1, <2>2
    <2>4. host'[c].addr = a /\ want'[c] = a /\ host'[c].reqlen = n BY <1>3, <1>4, <2>1, <2>2, Zenon
    <2>. QED BY <1>3, <1>4, <1>9, <2>2, <2>3, <2>4, Zenon DEF HostStep, Silent, Unsized, Sized
<1>. QED BY <1>2, <1>5, <1>6, <1>7, <1>8, <1>9 DEF Moves

-----------------------------------------------------------------------------
(* The engine.                                                             *)

\* Engine and controller before a tick, and what the tick does to them.
LEMMA EngineTypes ==
    ASSUME DmaStep
    PROVE  /\ inputstate \in 0 .. 8 /\ activechannel \in Channel /\ sdram_req \in BOOLEAN
           /\ phase \in 0 .. 15 /\ rsp \in {"none", "ack", "nak"} /\ Engine
           /\ phase' = (phase + 1) % 16 /\ InputState(ack, rsp = "nak", fillPhase)
           /\ \E granted \in BOOLEAN : Port0(granted)
BY DEF DmaStep, Ticks, DmaInv, TypeOK, DmaTypeOK, Tick, DmaTick, ack, Port0

\* The state machine's step, by what it decides on.
Keeps == sdram_req /\ ~ack /\ ~(inputstate = 1 /\ rsp = "nak")
LEMMA EngineMoves ==
    ASSUME DmaStep
    PROVE  /\ Decides /\ Chosen # {} =>
                  inputstate' = 1 /\ activechannel' = First(Chosen) /\ sdram_req'
           /\ Decides /\ Chosen = {} =>
                  inputstate' = rd1 /\ activechannel' = activechannel /\ (sdram_req' <=> Keeps)
           /\ ~Decides =>
                  /\ activechannel' = activechannel /\ (sdram_req' <=> Keeps)
                  /\ Receives(fillPhase) => inputstate' = inputstate + 1
                  /\ ~Receives(fillPhase) => inputstate' = IF rsp = "nak" THEN rd1 ELSE 1
BY EngineTypes, Zenon DEF InputState, Keeps

\* The burst that is granted is the line the active channel's address is in.
LEMMA LineTypes ==
    ASSUME DmaStep, NEW c \in Channel
    PROVE  /\ internals[c].addr \in Address
           /\ LineOf(internals[c].addr) \in Address /\ LineOf(internals[c].addr) % 8 = 0
           /\ LineOf(internals[c].addr) # NoBurst
<1>1. internals[c] \in Internal
    BY DEF DmaStep, Ticks, DmaInv, TypeOK, DmaTypeOK
<1>2. internals[c].addr \in Address
    BY <1>1 DEF Internal
<1>. QED BY <1>2, Lines DEF Address, NoBurst

\* Where the engine can be within a round, and what the controller has said.
LEMMA EngineKept ==
    ASSUME DmaStep
    PROVE  Engine'
<1>. USE EngineTypes, EngineMoves
<1>1. PICK granted \in BOOLEAN : Port0(granted)
    OBVIOUS
<1>2. phase' = IF phase = 15 THEN 0 ELSE phase + 1
    OBVIOUS
<1>3. LineOf(internals[activechannel].addr) \in Address
      /\ LineOf(internals[activechannel].addr) % 8 = 0
      /\ LineOf(internals[activechannel].addr) # NoBurst
    BY LineTypes
<1>4. CASE phase = 2
    <2>1. ~Granted /\ rsp = "none" /\ ~fillPhase BY <1>4 DEF Granted, Engine, fillPhase
    <2>2. inputstate \in {0, 1} /\ (sdram_req <=> inputstate = 1)
        BY <2>1 DEF Engine
    <2>3. CASE sdram_req /\ granted
        <3>1. rsp' = "ack" /\ burst' = LineOf(internals[activechannel].addr) /\ phase' = 3
            BY <1>1, <1>2, <1>4, <2>3 DEF Port0
        <3>2. inputstate' = 1 /\ sdram_req'
            BY <2>1, <2>2, <2>3 DEF Keeps, Decides, Receives, rd1, ack
        <3>. QED BY <1>3, <3>1, <3>2 DEF Engine, Granted, Stage
    <2>4. CASE ~(sdram_req /\ granted)
        <3>1. rsp' \in {"none", "nak"} /\ burst' = NoBurst /\ phase' = 3
            BY <1>1, <1>2, <1>4, <2>4 DEF Port0
        <3>2. inputstate' \in {0, 1} /\ (sdram_req' <=> inputstate' = 1)
            BY <2>1, <2>2, <2>4 DEF Keeps, Decides, Receives, rd1, ack
        <3>. QED BY <3>1, <3>2 DEF Engine, Granted
    <2>. QED BY <2>3, <2>4
<1>5. CASE phase # 2 /\ ~Granted
    <2>1. rsp' = "none" /\ burst' = NoBurst /\ burst = NoBurst /\ rsp # "ack" /\ ~fillPhase
        BY <1>1, <1>5 DEF Port0, Granted, Engine, fillPhase
    <2>2. inputstate \in {0, 1} /\ (sdram_req <=> inputstate = 1)
        BY <1>5 DEF Engine
    <2>3. inputstate' \in {0, 1} /\ (sdram_req' <=> inputstate' = 1)
        BY <2>1, <2>2 DEF Keeps, Decides, Receives, rd1, ack
    <2>. QED BY <2>1, <2>3 DEF Engine, Granted
<1>6. CASE phase # 2 /\ Granted
    <2>1. rsp' = "none" /\ burst' = burst /\ burst # NoBurst
        BY <1>1, <1>6 DEF Port0, Granted
    <2>2. inputstate = Stage /\ (sdram_req <=> phase = 3) /\ burst \in Address /\ burst % 8 = 0
          /\ (rsp = "ack" <=> phase = 3) /\ rsp # "nak"
        BY <1>6 DEF Engine
    <2>3. CASE phase = 1
        <3>1. inputstate = 8 /\ phase' = 2 BY <1>2, <2>2, <2>3 DEF Stage
        <3>2. inputstate' \in {0, 1} /\ (sdram_req' <=> inputstate' = 1)
            BY <2>2, <2>3, <3>1 DEF Keeps, Decides, rd1, ack
        <3>. QED BY <2>1, <3>1, <3>2 DEF Engine, Granted
    <2>4. CASE phase # 1
        <3>1. inputstate \in 1 .. 7 /\ ~Decides BY <1>6, <2>2, <2>4 DEF Stage, Decides, rd1
        <3>2. ~sdram_req' /\ phase' \in {0, 1} \union (4 .. 15) /\ phase' # 2 /\ phase' # 3
            BY <1>2, <1>6, <2>2, <2>4, <3>1 DEF Keeps, ack
        <3>3. inputstate' = IF fillPhase THEN inputstate + 1 ELSE 1
            <4>1. CASE fillPhase BY <3>1, <4>1 DEF Receives
            <4>2. CASE ~fillPhase
                <5>1. inputstate = 1 BY <1>6, <2>1, <2>2, <2>4, <4>2 DEF Stage, fillPhase
                <5>. QED BY <2>2, <3>1, <4>2, <5>1 DEF Receives
            <4>. QED BY <4>1, <4>2
        <3>4. inputstate' = Stage'
            BY <1>2, <1>6, <2>1, <2>2, <2>4, <3>3 DEF Stage, fillPhase
        <3>. QED BY <2>1, <2>2, <3>2, <3>4 DEF Engine, Granted
    <2>. QED BY <2>3, <2>4
<1>. QED BY <1>4, <1>5, <1>6


\* What becomes of the line being fetched.
LEMMA LineStep ==
    ASSUME DmaStep
    PROVE  /\ phase = 2 => \/ ~Granted'
                           \/ /\ Granted' /\ phase' = 3 /\ sdram_req
                              /\ burst' = LineOf(internals[activechannel].addr)
           /\ phase # 2 => burst' = burst /\ (Granted' <=> Granted /\ phase # 1)
<1>. USE EngineTypes
<1>1. PICK granted \in BOOLEAN : Port0(granted)
    OBVIOUS
<1>. QED BY <1>1 DEF Port0, Granted

-----------------------------------------------------------------------------
(* A burst as its channel sees it.                                         *)

Filled(c) == Receives(fillPhase) /\ c = activechannel
Undisturbed(c) == ~Advanced(c, ack) /\ ~Finished(c) /\ ~Filled(c)

\* Not its burst; its burst is asked for, refused, granted; its address is
\* advanced; the words are waited for; they arrive; the last one arrives.
OtherBurst(c) == ~Owner(c) /\ ~Owner(c)' /\ Undisturbed(c)
AsksBurst(c) == ~Owner(c) /\ Owner(c)' /\ inputstate' = 1 /\ Wants(c) /\ ~Granted' /\ Undisturbed(c)
AwaitsGrant(c) ==
    /\ Owner(c) /\ inputstate = 1 /\ ~Granted
    /\ Owner(c)' => inputstate' = 1
    /\ ~Granted' /\ Undisturbed(c)
GetsGrant(c) ==
    /\ Owner(c) /\ inputstate = 1 /\ ~Granted /\ Owner(c)' /\ inputstate' = 1
    /\ Granted' /\ phase' = 3 /\ burst' = LineOf(internals[c].addr) /\ Undisturbed(c)
Advances(c) ==
    /\ Owner(c) /\ inputstate = 1 /\ Granted /\ phase = 3
    /\ Owner(c)' /\ inputstate' = 1 /\ Granted' /\ phase' # 3 /\ burst' = burst
    /\ Advanced(c, ack) /\ ~Finished(c) /\ ~Filled(c)
AwaitsWord(c) ==
    /\ Coming(c) /\ inputstate = 1 /\ Coming(c)' /\ inputstate' = 1 /\ burst' = burst
    /\ Undisturbed(c)
GetsWord(c) ==
    /\ Coming(c) /\ inputstate \in 1 .. 7 /\ Coming(c)' /\ inputstate' = inputstate + 1
    /\ burst' = burst /\ Strobed = burst + inputstate - 1
    /\ Filled(c) /\ ~Advanced(c, ack) /\ ~Finished(c)
GetsLast(c) ==
    /\ Coming(c) /\ inputstate = 8 /\ Strobed = burst + 7
    /\ ~Granted' /\ (Owner(c)' => inputstate' = 1 /\ Wants(c))
    /\ Filled(c) /\ ~Advanced(c, ack) /\ Finished(c)

BurstStep(c) ==
    \/ OtherBurst(c) \/ AsksBurst(c) \/ AwaitsGrant(c) \/ GetsGrant(c)
    \/ Advances(c) \/ AwaitsWord(c) \/ GetsWord(c) \/ GetsLast(c)

\* Clocks since the first word of a round could arrive.
LEMMA SinceFirst ==
    ASSUME NEW p \in 0 .. 15
    PROVE  (p - 10) % 16 = IF p >= 10 THEN p - 10 ELSE p + 6
OBVIOUS

\* A tick is one of these to each channel.
LEMMA BurstSteps ==
    ASSUME DmaStep, NEW c \in Channel
    PROVE  BurstStep(c)
<1>. USE EngineTypes, EngineMoves, LineStep
<1>1. phase' = IF phase = 15 THEN 0 ELSE phase + 1
    OBVIOUS
<1>2. Chosen # {} => First(Chosen) \in Chosen
    BY FirstIn DEF Chosen
<1>3. ASSUME Owner(c)', Decides
      PROVE  inputstate' = 1 /\ Wants(c)
    BY <1>2, <1>3 DEF Owner, Chosen
<1>4. CASE ~Owner(c)
    <2>1. Undisturbed(c)
        BY <1>4 DEF Owner, Undisturbed, Advanced, Finished, Filled, Receives, Engine, Stage,
               Granted, ack, rd1
    <2>2. ASSUME Owner(c)' PROVE Decides
        BY <1>4, <2>2 DEF Owner, Decides
    <2>3. Decides => ~Granted'
        BY <1>1 DEF Decides, rd1, Engine, Stage, Granted
    <2>. QED BY <1>3, <1>4, <2>1, <2>2, <2>3 DEF BurstStep, OtherBurst, AsksBurst
<1>5. CASE Owner(c) /\ ~Granted
    <2>1. inputstate = 1 /\ ~fillPhase /\ ~ack /\ ~Decides /\ sdram_req
        BY <1>5 DEF Owner, rd1, Engine, Granted, fillPhase, ack, Decides
    <2>2. Undisturbed(c)
        BY <2>1 DEF Undisturbed, Advanced, Finished, Filled, Receives
    <2>3. inputstate' = (IF rsp = "nak" THEN rd1 ELSE 1) /\ activechannel' = activechannel
        BY <2>1 DEF Receives
    <2>4. Owner(c)' => inputstate' = 1
        BY <2>3 DEF Owner
    <2>5. CASE Granted'
        <3>1. phase = 2 BY <1>5, <2>5
        <3>2. rsp # "nak" BY <3>1 DEF Engine
        <3>. QED BY <1>5, <2>1, <2>2, <2>3, <2>5, <3>1, <3>2 DEF Owner, rd1, BurstStep, GetsGrant
    <2>. QED BY <1>5, <2>1, <2>2, <2>4, <2>5 DEF BurstStep, AwaitsGrant
<1>6. CASE Owner(c) /\ Granted
    <2>1. /\ inputstate = Stage /\ (ack <=> phase = 3) /\ rsp # "nak" /\ phase # 2 /\ burst # NoBurst
          /\ burst' = burst /\ activechannel = c /\ burst \in Int
        BY <1>6 DEF Engine, Owner, Granted, ack, Address
    <2>2. CASE phase = 1
        <3>1. inputstate = 8 /\ Decides /\ fillPhase BY <2>1, <2>2 DEF Stage, Decides, fillPhase
        <3>2. Filled(c) /\ ~Advanced(c, ack) /\ Finished(c) /\ Coming(c) /\ ~Granted'
            BY <1>6, <2>1, <2>2, <3>1 DEF Filled, Receives, Advanced, Finished, Coming
        <3>3. Strobed = burst + 7
            <4>1. (phase - 10) % 16 = 7 BY <2>2, SinceFirst
            <4>. QED BY <3>1, <4>1, <2>1 DEF Strobed
        <3>. QED BY <1>3, <3>1, <3>2, <3>3 DEF BurstStep, GetsLast
    <2>3. CASE phase \in 3 .. 9
        <3>1. inputstate = 1 /\ ~Decides /\ ~fillPhase BY <2>1, <2>3 DEF Stage, Decides, fillPhase, rd1
        <3>2. inputstate' = 1 /\ activechannel' = c /\ ~Filled(c) /\ ~Finished(c)
            BY <2>1, <3>1 DEF Receives, Filled, Finished
        <3>3. Owner(c)' /\ Granted' /\ phase' # 3
            BY <1>1, <1>6, <2>3, <3>2 DEF Owner, rd1
        <3>4. CASE phase = 3
            BY <1>6, <2>1, <3>1, <3>2, <3>3, <3>4 DEF BurstStep, Advances, Advanced
        <3>5. CASE phase # 3
            BY <1>6, <2>1, <3>1, <3>2, <3>3, <3>5
               DEF BurstStep, AwaitsWord, Coming, Undisturbed, Advanced
        <3>. QED BY <3>4, <3>5
    <2>4. CASE phase \in (10 .. 15) \union {0}
        <3>1. inputstate \in 1 .. 7 /\ ~Decides /\ fillPhase
            BY <2>1, <2>4 DEF Stage, Decides, fillPhase, rd1
        <3>2. inputstate' = inputstate + 1 /\ activechannel' = c /\ Filled(c) /\ ~Finished(c)
            BY <2>1, <3>1 DEF Receives, Filled, Finished
        <3>3. Coming(c)' /\ Coming(c) /\ ~Advanced(c, ack)
            BY <1>1, <1>6, <2>1, <2>4, <3>1, <3>2 DEF Coming, Owner, rd1, Advanced
        <3>4. Strobed = burst + inputstate - 1
            <4>1. (phase - 10) % 16 = inputstate - 1 BY <2>1, <2>4 DEF Stage
            <4>. QED BY <3>1, <4>1, <2>1 DEF Strobed
        <3>. QED BY <2>1, <3>1, <3>2, <3>3, <3>4 DEF BurstStep, GetsWord
    <2>. QED BY <1>6, <2>2, <2>3, <2>4 DEF Granted
<1>. QED BY <1>4, <1>5, <1>6

-----------------------------------------------------------------------------
(* Types.                                                                  *)

\* What the invariant says of a channel.
LEMMA ChannelTypes ==
    ASSUME DmaStep, NEW c \in Channel
    PROVE  /\ ChannelInv(c)
           /\ internals[c].addr \in Address /\ internals[c].count \in -8 .. MaxLen
           /\ internals[c].extend \in BOOLEAN
           /\ internals[c].wrptr \in Slot /\ internals[c].wrptr_next \in Slot
           /\ internals[c].rdptr \in Slot /\ internals[c].pending \in BOOLEAN
           /\ internals[c].fill \in BOOLEAN /\ internals[c].drain \in BOOLEAN
           /\ counter[c] \in 0 .. 2 * Depth - 1 /\ valid[c] \in BOOLEAN
           /\ host[c].setaddr \in BOOLEAN /\ host[c].setreqlen \in BOOLEAN /\ host[c].req \in BOOLEAN
           /\ host[c].addr \in Address /\ host[c].reqlen \in 0 .. MaxLen
           /\ asked[c] \in 0 .. MaxLen /\ waiting[c] \in BOOLEAN
           /\ want[c] \in Address \union {NoWord} /\ stock[c] \in -8 .. Depth + 8
<1>1. internals[c] \in Internal /\ host[c] \in FromHost
    BY DEF DmaStep, Ticks, DmaInv, TypeOK, DmaTypeOK
<1>. QED BY <1>1 DEF DmaStep, Ticks, DmaInv, TypeOK, DmaTypeOK, Internal, FromHost

\* The bits a tick sets in a channel, and its two counts.
LEMMA ChannelStep ==
    ASSUME DmaStep, NEW c \in Channel
    PROVE  /\ internals'[c].pending <=>
                  (internals[c].pending \/ host[c].req) /\ ~Served(c) /\ ~host[c].setaddr
           /\ (valid'[c] <=> Served(c)) /\ (internals'[c].drain <=> Served(c))
           /\ (internals'[c].fill <=> Filled(c)) /\ (Landed(c)' <=> Filled(c))
           /\ Served(c) => internals[c].pending
           /\ stock'[c] = IF host[c].setaddr THEN -(host[c].addr % 8)
                          ELSE stock[c] + One(Landed(c)) - One(Served(c))
           /\ counter'[c] = IF host[c].setaddr THEN 1
                            ELSE (counter[c] + One(internals[c].fill) - One(internals[c].drain))
                                     % (2 * Depth)
<1>1. PICK granted, move : Tick(granted, move)
    BY DEF DmaStep, Ticks
<1>2. internals'[c].pending <=>
          (internals[c].pending \/ host[c].req) /\ ~Served(c) /\ ~host[c].setaddr
    BY RegisterStep, Zenon DEF Pending
<1>3. /\ valid'[c] <=> Served(c)
      /\ internals'[c].drain <=> Served(c)
      /\ internals'[c].fill <=> Filled(c)
    <2>1. valid'[c] = Served(c)
        BY <1>1, Zenon DEF Tick, DmaTick, ReadPort
    <2>2. internals'[c].drain = Served(c) /\ internals'[c].fill = Filled(c)
        BY RegisterStep, Zenon DEF Filled
    <2>. QED BY <2>1, <2>2, Zenon
<1>4. Landed(c)' <=> Filled(c)
    <2>1. WritePort(fillPhase, Strobed)
        BY <1>1 DEF Tick, DmaTick
    <2>2. cache_wren' = Receives(fillPhase)
        BY <2>1, Zenon DEF WritePort
    <2>3. cache_wraddr'.chan = activechannel
        <3>1. cache_wraddr' = [chan |-> WriteBlock.chan, block |-> WriteBlock.block,
                   lsb |-> IF Receives(fillPhase) THEN inputstate - 1 ELSE cache_wraddr.lsb]
            BY <2>1, Zenon DEF WritePort
        <3>2. WriteBlock.chan = activechannel BY DEF WriteBlock
        <3>. QED BY <3>1, <3>2
    <2>. QED BY <2>2, <2>3, Zenon DEF Landed, Filled
<1>5. Served(c) => internals[c].pending
    BY FirstIn DEF Served, Serviceable
<1>6. stock'[c] = IF host[c].setaddr THEN -(host[c].addr % 8)
                  ELSE stock[c] + One(Landed(c)) - One(Served(c))
    BY <1>1, Zenon DEF Tick, Stock, One
<1>7. counter'[c] = IF host[c].setaddr THEN 1
                    ELSE (counter[c] + One(internals[c].fill) - One(internals[c].drain)) % (2 * Depth)
    <2>1. counter'[c] = Counted(c, host)
        BY <1>1, Zenon DEF Tick, DmaTick
    <2>. QED BY <2>1, Zenon DEF Counted, CounterReset, One
<1>. QED BY <1>2, <1>3, <1>4, <1>5, <1>6, <1>7

-----------------------------------------------------------------------------
(* Requests.                                                               *)

\* A channel whose host set no address has nothing to serve.
LEMMA Calm ==
    ASSUME DmaStep, NEW c \in Channel, ~waiting[c]
    PROVE  /\ ~host[c].req /\ ~internals[c].pending /\ ~valid[c] /\ ~internals[c].drain /\ ~Served(c)
           /\ ~valid'[c] /\ ~internals'[c].pending /\ ~internals'[c].drain
BY ChannelTypes, ChannelStep DEF ChannelInv, HostRules

\* A host that waits has set an address.
LEMMA Waits ==
    ASSUME DmaStep, NEW c \in Channel, waiting[c]
    PROVE  want[c] # NoWord /\ ~host[c].setaddr /\ ~host[c].setreqlen /\ Set(c)
BY ChannelTypes DEF ChannelInv, Fresh, SetRules, LenRules, Set

\* What the host sees and what the engine has agree.
LEMMA RequestStep ==
    ASSUME DmaStep, NEW c \in Channel
    PROVE  /\ waiting'[c] <=> host'[c].req \/ internals'[c].pending \/ valid'[c]
           /\ ~(host'[c].req /\ internals'[c].pending) /\ ~(host'[c].req /\ valid'[c])
           /\ ~(internals'[c].pending /\ valid'[c])
           /\ host'[c].req \/ internals'[c].pending => stock'[c] > 0
<1>1. HostStep(c) /\ HostRules(c)
    BY HostSteps, ChannelTypes DEF ChannelInv
<1>2. /\ stock[c] \in Int /\ One(Landed(c)) \in {0, 1}
      /\ ~Served(c) /\ ~host[c].setaddr /\ stock[c] > 0 => stock'[c] > 0
    BY ChannelTypes, ChannelStep DEF One
<1>3. ~host'[c].req \/ MayAsk(c)
    BY <1>1 DEF HostStep, Silent, Unsized, Sized
<1>4. MayAsk(c) => ~host[c].setaddr /\ stock[c] > 0 /\ (waiting[c] => valid[c])
    BY DEF MayAsk, Ready, DmaStep, Ticks
<1>5. waiting[c] => ~host[c].setaddr
    BY Waits
<1>6. waiting'[c] <=> host'[c].req \/ (waiting[c] /\ ~valid[c])
    <2>1. MaySet(c) => ~waiting[c] BY DEF MaySet, Quiet
    <2>. QED BY <1>1, <2>1 DEF HostStep, Silent, Unsized, Sized
<1>. QED BY <1>1, <1>2, <1>3, <1>4, <1>5, <1>6, ChannelStep DEF HostRules

-----------------------------------------------------------------------------
(* Addresses, lengths and counts.                                          *)

\* The counter of a channel in use does not wrap.
LEMMA CounterStep ==
    ASSUME DmaStep, NEW c \in Channel, Set(c)
    PROVE  /\ counter'[c] = counter[c] + One(internals[c].fill) - One(internals[c].drain)
           /\ counter[c] \in Int /\ stock[c] \in Int
           /\ One(internals[c].fill) \in {0, 1} /\ One(internals[c].drain) \in {0, 1}
<1>. DEFINE n == counter[c] + One(internals[c].fill) - One(internals[c].drain)
<1>1. /\ counter[c] \in Int /\ stock[c] \in Int
      /\ One(internals[c].fill) \in {0, 1} /\ One(internals[c].drain) \in {0, 1}
    BY ChannelTypes DEF One
<1>2. Counting(c) /\ Room(c) /\ Missing(c) \in Nat
    BY ChannelTypes, EngineTypes DEF ChannelInv, Missing
<1>3. n \in 0 .. 2 * Depth - 1
    <2>1. stock[c] + One(internals[c].fill) <= Depth
        BY <1>1, <1>2, Sizes DEF Room, Landing
    <2>. QED BY <1>1, <1>2, <2>1, Sizes DEF Counting
<1>4. n % (2 * Depth) = n
    <2>1. 2 * Depth \in Nat \ {0} BY Sizes
    <2>. QED BY <1>3, <2>1, ModSmall
<1>. QED BY <1>1, <1>4, ChannelStep DEF Set

\* The count of words to fetch.
LEMMA CountStep ==
    ASSUME DmaStep, NEW c \in Channel
    PROVE  /\ internals'[c].count \in -8 .. MaxLen
           /\ Owner(c)' /\ ~Coming(c)' => internals'[c].count >= 0
           /\ ~host[c].setaddr /\ ~host[c].setreqlen /\ ~Advanced(c, ack) =>
                  internals'[c].count = internals[c].count
<1>1. internals'[c].count = Remaining(c, host[c], ack)
    BY RegisterStep
<1>2. internals[c].count \in -8 .. MaxLen /\ host[c].reqlen \in 0 .. MaxLen /\ HostRules(c)
    BY ChannelTypes DEF ChannelInv
<1>3. BurstStep(c)
    BY BurstSteps
<1>4. Advanced(c, ack) => Advances(c) /\ internals[c].count >= 0
    BY <1>2, <1>3 DEF BurstStep, OtherBurst, AsksBurst, AwaitsGrant, GetsGrant, Advances, AwaitsWord,
        GetsWord, GetsLast, Undisturbed, HostRules, Coming
<1>5. Owner(c)' /\ ~Coming(c)' => ~Advanced(c, ack) /\ internals[c].count >= 0
    BY <1>2, <1>3 DEF BurstStep, OtherBurst, AsksBurst, AwaitsGrant, GetsGrant, Advances, AwaitsWord,
        GetsWord, GetsLast, Undisturbed, HostRules, Coming, Wants
<1>6. internals'[c].count \in -8 .. MaxLen
    BY <1>1, <1>2, <1>4, Sizes DEF Remaining
<1>. QED BY <1>1, <1>2, <1>5, <1>6 DEF Remaining

\* A host sets an address only while nothing moves, and nothing starts to move
\* as it does.
LEMMA SetStep ==
    ASSUME DmaStep, NEW c \in Channel
    PROVE  SetRules(c)'
<1>. SUFFICES ASSUME host'[c].setaddr PROVE SetRules(c)'
    BY DEF SetRules
<1>1. /\ MaySet(c) /\ ~waiting'[c] /\ want'[c] = host'[c].addr /\ host'[c].addr \in Starts[c]
      /\ IF c \in Video THEN ~host'[c].setreqlen /\ asked'[c] = 0 ELSE host'[c].setreqlen
    BY HostSteps DEF HostStep, Silent, Unsized, Sized
<1>2. Quiet(c)
    BY <1>1 DEF MaySet, DmaStep, Ticks
<1>3. ~Owner(c) /\ ~Wants(c)
    BY <1>2, ChannelTypes DEF Quiet, Owner, Wants
<1>4. ~Owner(c)' /\ ~internals'[c].fill /\ ~Advanced(c, ack)
    BY <1>3, BurstSteps, ChannelStep
       DEF BurstStep, OtherBurst, AsksBurst, AwaitsGrant, GetsGrant, Advances, AwaitsWord,
           GetsWord, GetsLast, Undisturbed, Coming
<1>5. ~Wants(c)'
    <2>1. internals'[c].count = internals[c].count
        BY <1>2, <1>4, CountStep DEF Quiet
    <2>2. CASE internals[c].count <= 0
        BY <2>1, <2>2, ChannelTypes DEF Wants
    <2>3. CASE Full(c) /\ internals[c].count > 0
        <3>1. Set(c)
            BY <1>2, <2>3, ChannelTypes DEF Set, ChannelInv, Fresh, Quiet
        <3>2. counter'[c] >= counter[c]
            <4>1. One(internals[c].drain) = 0 BY <1>2, Calm DEF Quiet, One
            <4>. QED BY <3>1, <4>1, CounterStep
        <3>3. counter[c] \in Int /\ counter'[c] \in Int BY <3>1, CounterStep
        <3>. QED BY <2>3, <3>2, <3>3, Sizes DEF Wants, Full
    <2>. QED BY <1>2, <2>2, <2>3, ChannelTypes DEF Quiet
<1>. QED BY <1>1, <1>4, <1>5 DEF SetRules

\* A length set is one of the transfer's, and what is asked for starts from it.
LEMMA LenStep ==
    ASSUME DmaStep, NEW c \in Channel
    PROVE  LenRules(c)'
BY HostSteps DEF HostStep, Silent, Unsized, Sized, LenRules, MayContinue

\* A channel whose host has set no address yet stays as it was at the start.
LEMMA FreshStep ==
    ASSUME DmaStep, NEW c \in Channel, want'[c] = NoWord
    PROVE  want[c] = NoWord /\ Fresh(c)'
<1>1. HostStep(c)
    BY HostSteps
<1>2. want[c] = NoWord
    <2>1. \A a \in Starts[c] : a # NoWord
        BY HostAssumption DEF Address, NoWord
    <2>2. CASE want'[c] = want[c]
        BY <2>2
    <2>3. CASE want'[c] = (want[c] + 1) % Memory /\ want[c] \in Address
        <3>1. want[c] + 1 \in Int BY <2>3 DEF Address
        <3>2. (want[c] + 1) % Memory \in Address BY <3>1, Sizes, ModRange DEF Address
        <3>. QED BY <2>3, <3>2 DEF Address, NoWord
    <2>. QED BY <1>1, <2>1, <2>2, <2>3, ChannelTypes DEF HostStep, Silent, Unsized, Sized, Proceeds
<1>3. Fresh(c)
    BY <1>2, ChannelTypes DEF ChannelInv
<1>4. /\ ~host'[c].setaddr /\ ~host'[c].setreqlen /\ asked'[c] = 0 /\ ~waiting'[c]
    <2>1. \A a \in Starts[c] : a # NoWord
        BY HostAssumption DEF Address, NoWord
    <2>. QED BY <1>1, <1>2, <1>3, <2>1 DEF HostStep, Silent, Unsized, Sized, Fresh, MayAsk, MayContinue
<1>5. OtherBurst(c)
    BY <1>3, BurstSteps
       DEF BurstStep, OtherBurst, AsksBurst, AwaitsGrant, GetsGrant, Advances, AwaitsWord,
           GetsWord, GetsLast, Undisturbed, Coming, Fresh, Wants
<1>6. ~Owner(c)' /\ ~internals'[c].fill /\ internals'[c].count = 0
    BY <1>3, <1>5, ChannelStep, CountStep DEF OtherBurst, Undisturbed, Fresh
<1>7. stock'[c] = 0 /\ counter'[c] = 0
    <2>1. ~host[c].setaddr /\ ~Landed(c) /\ ~Served(c) /\ ~internals[c].drain /\ ~internals[c].fill
        BY <1>3, Calm, ChannelTypes DEF Fresh, ChannelInv, HostRules
    <2>2. 0 % (2 * Depth) = 0 BY Sizes
    <2>. QED BY <1>3, <2>1, <2>2, ChannelStep DEF Fresh, One
<1>. QED BY <1>2, <1>4, <1>6, <1>7 DEF Fresh

-----------------------------------------------------------------------------
(* Room for what is asked for.                                             *)

\* A burst is asked for only when it fits: the counter is ahead of the stock,
\* and it has counted the word that is being written.
LEMMA Fits ==
    ASSUME DmaStep, NEW c \in Channel, Wants(c)
    PROVE  Set(c) /\ stock[c] + One(internals[c].drain) + 10 <= Depth
<1>1. Set(c)
    BY ChannelTypes DEF ChannelInv, SetRules, Fresh, Wants, Set
<1>2. Counting(c) /\ counter[c] \in Int /\ stock[c] \in Int /\ One(internals[c].drain) \in {0, 1}
    BY <1>1, ChannelTypes DEF ChannelInv, One
<1>3. counter[c] < Depth - 8
    BY <1>2, Sizes DEF Wants, Full
<1>. QED BY <1>1, <1>2, <1>3, Sizes DEF Counting

\* What a tick does to the words of a burst that are still to come.
LEMMA MissingStep ==
    ASSUME DmaStep, NEW c \in Channel
    PROVE  /\ Missing(c) \in 0 .. 8 /\ One(Filled(c)) \in {0, 1}
           /\ \/ Missing(c)' + One(Filled(c)) <= Missing(c)
              \/ Missing(c)' = 8 /\ Wants(c) /\ Missing(c) = One(Filled(c))
<1>. USE EngineTypes
<1>1. Missing(c) \in 0 .. 8 /\ One(Filled(c)) \in {0, 1}
    BY DEF Missing, Owner, rd1, One
<1>2. CASE OtherBurst(c) BY <1>2 DEF OtherBurst, Missing, One, Undisturbed
<1>3. CASE AsksBurst(c) BY <1>3 DEF AsksBurst, Missing, One, Undisturbed
<1>4. CASE AwaitsGrant(c) BY <1>4 DEF AwaitsGrant, Missing, One, Undisturbed
<1>5. CASE GetsGrant(c) BY <1>5 DEF GetsGrant, Missing, One, Undisturbed
<1>6. CASE Advances(c) BY <1>6 DEF Advances, Missing, One
<1>7. CASE AwaitsWord(c) BY <1>7 DEF AwaitsWord, Missing, One, Undisturbed, Coming
<1>8. CASE GetsWord(c) BY <1>8 DEF GetsWord, Missing, One, Coming
<1>9. CASE GetsLast(c) BY <1>9 DEF GetsLast, Missing, One, Coming
<1>. QED BY <1>1, <1>2, <1>3, <1>4, <1>5, <1>6, <1>7, <1>8, <1>9, BurstSteps DEF BurstStep

\* A burst on its way always has room: the counter is ahead of what has arrived.
LEMMA RoomStep ==
    ASSUME DmaStep, NEW c \in Channel
    PROVE  Room(c)'
<1>. USE ChannelTypes, ChannelStep, MissingStep
<1>1. /\ stock[c] \in Int /\ stock[c] + Landing(c) + Missing(c) <= Depth
      /\ Landing(c) = One(Landed(c)) /\ Landing(c) \in {0, 1}
      /\ One(Served(c)) \in {0, 1}
    BY DEF ChannelInv, Room, HostRules, Landing, One
<1>2. Landing(c)' = One(Filled(c)) /\ One(Filled(c)) \in {0, 1} /\ Missing(c)' \in Int
    <2>1. internals'[c].fill <=> Filled(c) OBVIOUS
    <2>. QED BY <2>1, EngineTypes, EngineKept DEF Landing, One, Missing, Engine, Stage
<1>3. CASE host[c].setaddr
    <2>1. ~Owner(c) /\ ~Wants(c)
        BY <1>3 DEF ChannelInv, SetRules
    <2>2. Missing(c) = 0 BY <2>1 DEF Missing
    <2>3. PICK before \in 0 .. 7 : before = host[c].addr % 8
        BY Lines
    <2>4. stock'[c] = 0 - before
        BY <1>3, <2>3
    <2>. QED BY <1>2, <2>1, <2>2, <2>3, <2>4, Sizes DEF Room
<1>4. CASE ~host[c].setaddr
    <2>1. stock'[c] = stock[c] + Landing(c) - One(Served(c))
        BY <1>1, <1>4
    <2>2. CASE Missing(c)' + One(Filled(c)) <= Missing(c)
        BY <1>1, <1>2, <2>1, <2>2, Sizes DEF Room
    <2>3. CASE Missing(c)' = 8 /\ Wants(c) /\ Missing(c) = One(Filled(c))
        <3>1. stock[c] + 10 <= Depth
            BY <1>1, <2>3, Fits, Sizes DEF One
        <3>. QED BY <1>1, <1>2, <2>1, <2>3, <3>1, Sizes DEF Room
    <2>. QED BY <2>2, <2>3
<1>. QED BY <1>3, <1>4

-----------------------------------------------------------------------------
(* Counter and pointers.                                                   *)

\* A channel in use was in use before, or its address is being set.
LEMMA WasSet ==
    ASSUME DmaStep, NEW c \in Channel, Set(c)'
    PROVE  host[c].setaddr \/ Set(c)
<1>. SUFFICES ASSUME ~host[c].setaddr, want[c] = NoWord PROVE FALSE
    BY DEF Set
<1>1. Fresh(c)
    BY ChannelTypes DEF ChannelInv
<1>2. want'[c] = want[c]
    BY <1>1, HostSteps DEF HostStep, Silent, Unsized, Sized, Proceeds, Set, Fresh
<1>. QED BY <1>2 DEF Set

\* When an address is set, nothing of the channel moves.
LEMMA AtSet ==
    ASSUME DmaStep, NEW c \in Channel, host[c].setaddr
    PROVE  /\ ~Owner(c)' /\ ~Landed(c)' /\ ~valid'[c] /\ ~internals'[c].drain /\ ~internals'[c].fill
           /\ \E before \in 0 .. 7 :
                  before = host[c].addr % 8 /\ stock'[c] = -before /\ host[c].addr - before \in Address
           /\ want[c] = host[c].addr
<1>1. ~waiting[c] /\ ~Owner(c) /\ ~Wants(c) /\ want[c] = host[c].addr
    BY ChannelTypes DEF ChannelInv, SetRules
<1>2. ~Owner(c)' /\ ~Filled(c)
    BY <1>1, BurstSteps
       DEF BurstStep, OtherBurst, AsksBurst, AwaitsGrant, GetsGrant, Advances, AwaitsWord,
           GetsWord, GetsLast, Undisturbed, Coming
<1>3. PICK before \in 0 .. 7 : before = host[c].addr % 8 /\ host[c].addr - before \in Address
    BY ChannelTypes, Lines DEF LineOf
<1>. QED BY <1>1, <1>2, <1>3, Calm, ChannelStep

\* The counter stays between one and eight words ahead of the stock.
LEMMA CountingStep ==
    ASSUME DmaStep, NEW c \in Channel, Set(c)'
    PROVE  Counting(c)'
<1>. USE ChannelTypes, ChannelStep
<1>1. CASE host[c].setaddr
    <2>1. PICK before \in 0 .. 7 : stock'[c] = -before
        BY <1>1, AtSet
    <2>2. counter'[c] = 1 /\ One(internals'[c].drain) = 0
        BY <1>1, AtSet DEF One
    <2>. QED BY <2>1, <2>2 DEF Counting
<1>2. CASE Set(c)
    <2>1. Counting(c) /\ (Served(c) => stock[c] > 0) /\ (internals[c].fill <=> Landed(c))
        BY <1>2 DEF ChannelInv, HostRules
    <2>2. One(internals'[c].drain) = One(Served(c)) /\ One(internals[c].fill) = One(Landed(c))
        BY <2>1 DEF One
    <2>3. /\ counter'[c] = counter[c] + One(Landed(c)) - One(internals[c].drain)
          /\ stock'[c] = stock[c] + One(Landed(c)) - One(Served(c))
          /\ counter[c] \in Int /\ stock[c] \in Int
        BY <1>2, <2>2, CounterStep DEF Set
    <2>4. One(Served(c)) \in {0, 1} /\ One(Landed(c)) \in {0, 1} /\ One(internals[c].drain) \in {0, 1}
          /\ (One(Served(c)) = 1 => stock[c] > 0)
        BY <2>1 DEF One
    <2>. QED BY <2>1, <2>2, <2>3, <2>4 DEF Counting
<1>. QED BY <1>1, <1>2, WasSet

\* Slots around the FIFO.
LEMMA Rounds ==
    ASSUME NEW n \in 0 .. 2 * Depth - 1
    PROVE  n % Depth = Round(n) /\ Round(n) \in Slot
<1>. USE Sizes
<1>1. CASE n < Depth
    <2>1. n \in 0 .. Depth - 1 BY <1>1
    <2>. QED BY <1>1, <2>1, ModSmall DEF Round, Slot
<1>2. CASE n >= Depth
    <2>1. n - Depth \in 0 .. Depth - 1 /\ n = Depth * 1 + (n - Depth) BY <1>2
    <2>2. n % Depth = n - Depth BY <2>1, ModOf
    <2>. QED BY <1>2, <2>1, <2>2 DEF Round, Slot
<1>. QED BY <1>1, <1>2

\* The first word not yet read, counted on from before the tick, is the same.
LEMMA ReadStep ==
    ASSUME DmaStep, NEW c \in Channel, Set(c)
    PROVE  /\ internals'[c].rdptr = Round(internals[c].rdptr + One(Served(c)))
           /\ internals'[c].rdptr \in Slot
           /\ stock'[c] = stock[c] + Landing(c) - One(Served(c))
           /\ One(Served(c)) \in {0, 1} /\ (One(Served(c)) = 1 <=> Served(c))
           /\ Landing(c) \in {0, 1} /\ (Landing(c) = 1 <=> Landed(c))
           /\ stock[c] \in -8 .. Depth /\ (Served(c) => stock[c] > 0)
           /\ stock[c] + Landing(c) + Missing(c) <= Depth /\ Missing(c) \in 0 .. 8
           /\ internals[c].rdptr + stock[c] >= 0
<1>. USE ChannelTypes, ChannelStep, RegisterStep, MissingStep
<1>1. /\ stock[c] \in -8 .. Depth + 8 /\ stock[c] + Landing(c) + Missing(c) <= Depth
      /\ Landing(c) \in {0, 1} /\ (Landing(c) = 1 <=> Landed(c)) /\ Landing(c) = One(Landed(c))
      /\ One(Served(c)) \in {0, 1} /\ (One(Served(c)) = 1 <=> Served(c))
      /\ internals[c].rdptr + stock[c] >= 0
      /\ (Served(c) => stock[c] > 0)
    BY DEF ChannelInv, Room, HostRules, Landing, One, Pointers
<1>2. internals'[c].rdptr = Round(internals[c].rdptr + One(Served(c)))
      /\ internals'[c].rdptr \in Slot
    <2>1. internals[c].rdptr \in 0 .. Depth - 1 BY DEF Slot
    <2>2. CASE Served(c)
        <3>1. internals'[c].rdptr = (internals[c].rdptr + 1) % Depth BY <2>2 DEF Set
        <3>2. internals[c].rdptr + 1 \in 0 .. 2 * Depth - 1 BY <2>1, Sizes
        <3>3. One(Served(c)) = 1 BY <2>2 DEF One
        <3>4. (internals[c].rdptr + 1) % Depth = Round(internals[c].rdptr + 1)
              /\ Round(internals[c].rdptr + 1) \in Slot
            BY <3>2, Rounds
        <3>5. internals[c].rdptr + One(Served(c)) = internals[c].rdptr + 1 BY <3>3
        <3>. QED BY <3>1, <3>4, <3>5
    <2>3. CASE ~Served(c)
        <3>1. internals'[c].rdptr = internals[c].rdptr BY <2>3 DEF Set
        <3>2. One(Served(c)) = 0 BY <2>3 DEF One
        <3>. QED BY <2>1, <3>1, <3>2, Sizes DEF Round, Slot
    <2>. QED BY <2>2, <2>3
<1>3. stock[c] \in -8 .. Depth
    BY <1>1, Sizes
<1>4. stock'[c] = stock[c] + Landing(c) - One(Served(c))
    BY <1>1 DEF Set
<1>. QED BY <1>1, <1>2, <1>3, <1>4

\* The block after a block, around the FIFO.
LEMMA BlockStep ==
    ASSUME NEW w \in Slot, w % 8 = 0
    PROVE  /\ Round(w + 8) \in Slot /\ Round(w + 8) % 8 = 0 /\ w + 8 <= Depth
           /\ NextBlock(Round(w + 8)) = Round(Round(w + 8) + 8)
<1>1. Round(w + 8) \in Slot /\ Round(w + 8) % 8 = 0 /\ w + 8 <= Depth
    BY Sizes DEF Round, Slot
<1>2. Round(w + 8) + 8 \in 0 .. 2 * Depth - 1
    BY <1>1, Sizes DEF Slot
<1>. QED BY <1>1, <1>2, Rounds DEF NextBlock

\* The words a tick adds to a burst, and the blocks it is done with.
LEMMA BlocksStep ==
    ASSUME DmaStep, NEW c \in Channel, Set(c)
    PROVE  /\ Arrived(c) \in 0 .. 7 /\ Landing(c)' = One(Filled(c))
           /\ \/ /\ Arrived(c)' = Arrived(c) + One(Filled(c)) /\ ~Finished(c)
                 /\ Filled(c) => Owner(c) /\ Arrived(c) <= 6
              \/ /\ Arrived(c)' = 0 /\ Arrived(c) = 7 /\ Filled(c) /\ Finished(c) /\ Owner(c)
           /\ Filled(c) => Missing(c) >= 1 /\ inputstate = Arrived(c) + 1
<1>. USE EngineTypes, ChannelStep
<1>1. Arrived(c) \in 0 .. 7 /\ Landing(c)' = One(Filled(c))
    BY DEF Arrived, Owner, rd1, Landing, One
<1>2. CASE OtherBurst(c) BY <1>1, <1>2 DEF OtherBurst, Arrived, One, Undisturbed
<1>3. CASE AsksBurst(c) BY <1>1, <1>3 DEF AsksBurst, Arrived, One, Undisturbed
<1>4. CASE AwaitsGrant(c) BY <1>1, <1>4 DEF AwaitsGrant, Arrived, One, Undisturbed
<1>5. CASE GetsGrant(c) BY <1>1, <1>5 DEF GetsGrant, Arrived, One, Undisturbed
<1>6. CASE Advances(c) BY <1>1, <1>6 DEF Advances, Arrived, One
<1>7. CASE AwaitsWord(c) BY <1>1, <1>7 DEF AwaitsWord, Arrived, One, Undisturbed, Coming
<1>8. CASE GetsWord(c) BY <1>1, <1>8 DEF GetsWord, Arrived, Missing, One, Coming
<1>9. CASE GetsLast(c) BY <1>1, <1>9 DEF GetsLast, Arrived, Missing, One, Coming
<1>. QED BY <1>2, <1>3, <1>4, <1>5, <1>6, <1>7, <1>8, <1>9, BurstSteps DEF BurstStep

\* The write port takes the slot of the word.
LEMMA WritePortStep ==
    ASSUME DmaStep, NEW c \in Channel, Filled(c)
    PROVE  /\ cache_wraddr'.chan = c /\ cache_wraddr'.block = internals[c].wrptr
           /\ cache_wraddr'.lsb = inputstate - 1
           /\ data_from_ram' = Strobed
<1>1. WritePort(fillPhase, Strobed)
    BY DEF DmaStep, Ticks, Tick, DmaTick
<1>2. Receives(fillPhase) /\ activechannel = c
    BY DEF Filled
<1>3. cache_wraddr' = [chan |-> WriteBlock.chan, block |-> WriteBlock.block,
           lsb |-> IF Receives(fillPhase) THEN inputstate - 1 ELSE cache_wraddr.lsb]
      /\ data_from_ram' = IF Receives(fillPhase) THEN Strobed ELSE data_from_ram
    BY <1>1, Zenon DEF WritePort
<1>4. WriteBlock.chan = c /\ WriteBlock.block = internals[c].wrptr
    BY <1>2 DEF WriteBlock
<1>. QED BY <1>2, <1>3, <1>4

\* The write pointers stay where the unread words end.
LEMMA PointersStep ==
    ASSUME DmaStep, NEW c \in Channel, Set(c)'
    PROVE  Pointers(c)'
<1>1. CASE host[c].setaddr
    <2>1. PICK before \in 0 .. 7 : before = host[c].addr % 8 /\ stock'[c] = -before
        BY <1>1, AtSet
    <2>2. internals'[c].wrptr = 0 /\ internals'[c].wrptr_next = 8 /\ internals'[c].rdptr = before
        BY <1>1, <2>1, RegisterStep
    <2>3. Arrived(c)' = 0 /\ Landing(c)' = 0 /\ ~Landed(c)'
        BY <1>1, AtSet DEF Arrived, Landing, One
    <2>4. Round(8) = 8 /\ Round(0) = 0
        BY Sizes DEF Round
    <2>. QED BY <2>1, <2>2, <2>3, <2>4 DEF Pointers
<1>2. CASE Set(c)
    <2>1. /\ internals[c].wrptr % 8 = 0 /\ internals[c].wrptr_next = Round(internals[c].wrptr + 8)
          /\ internals[c].wrptr + Arrived(c) = Round(internals[c].rdptr + stock[c] + Landing(c))
          /\ internals[c].wrptr \in Slot /\ internals[c].rdptr \in Slot
        BY <1>2, ChannelTypes DEF ChannelInv, Pointers
    <2>2. PICK S \in {0, 1}, F \in {0, 1} : S = One(Served(c)) /\ F = One(Filled(c))
        BY DEF One
    <2>3. PICK n \in Int : n = internals[c].rdptr + stock[c] + Landing(c)
        BY <2>1, ReadStep, <1>2 DEF Slot
    <2>4. /\ n >= 0 /\ n + Missing(c) <= 2 * Depth - 1 /\ Missing(c) \in Nat
          /\ S = 1 => stock[c] > 0
        BY <1>2, <2>1, <2>2, <2>3, ReadStep, Sizes DEF Slot
    <2>5. internals'[c].rdptr + stock'[c] = (IF internals[c].rdptr + S = Depth THEN n - Depth ELSE n)
          /\ internals'[c].rdptr + stock'[c] >= 0
        <3>1. internals'[c].rdptr = Round(internals[c].rdptr + S)
              /\ stock'[c] = stock[c] + Landing(c) - S
              /\ stock[c] \in Int /\ Landing(c) \in {0, 1}
              /\ internals[c].rdptr + stock[c] >= 0 /\ (S = 1 => stock[c] > 0)
            BY <1>2, <2>2, ReadStep
        <3>2. PICK r \in Slot, k \in Int, l \in {0, 1} :
                  r = internals[c].rdptr /\ k = stock[c] /\ l = Landing(c)
            BY <2>1, <3>1
        <3>3. r + k >= 0 /\ (S = 1 => k > 0) /\ n = r + k + l /\ r = internals[c].rdptr
            BY <2>3, <3>1, <3>2
        <3>4. /\ Round(r + S) + (k + l - S) = (IF r + S = Depth THEN n - Depth ELSE n)
              /\ Round(r + S) + (k + l - S) >= 0
            BY <2>2, <2>3, <3>2, <3>3, Sizes DEF Round, Slot
        <3>5. internals'[c].rdptr + stock'[c] = Round(r + S) + (k + l - S)
            BY <3>1, <3>2
        <3>. QED BY <3>3, <3>4, <3>5
    <2>6. Round(internals'[c].rdptr + stock'[c]) = Round(n)
        BY <2>4, <2>5, Sizes DEF Round
    <2>7. internals[c].wrptr + Arrived(c) = Round(n)
        BY <2>1, <2>3
    <2>8. Round(internals'[c].rdptr + stock'[c] + F) = Round(n + F)
        BY <2>2, <2>4, <2>5, Sizes, BlocksStep, <1>2 DEF Round, One
    <2>9. internals'[c].wrptr % 8 = 0 /\ internals'[c].wrptr_next = Round(internals'[c].wrptr + 8)
        BY <1>2, <2>1, RegisterStep, BlockStep DEF Set
    <2>10. internals'[c].wrptr + Arrived(c)' = Round(n + F)
        <3>1. internals'[c].wrptr = IF Finished(c) THEN Round(internals[c].wrptr + 8)
                                     ELSE internals[c].wrptr
            BY <1>2, <2>1, RegisterStep DEF Set
        <3>2. Arrived(c) \in 0 .. 7 /\ internals[c].wrptr + 8 <= Depth /\ internals[c].wrptr \in Nat
            BY <1>2, <2>1, BlocksStep, BlockStep DEF Slot
        <3>3. CASE Arrived(c)' = Arrived(c) + F /\ ~Finished(c) /\ (F = 1 => Arrived(c) <= 6)
            <4>1. internals[c].wrptr + Arrived(c) + F < Depth
                BY <2>2, <3>2, <3>3, Sizes
            <4>. QED BY <2>4, <2>7, <3>1, <3>2, <3>3, <4>1, Sizes DEF Round
        <3>4. CASE Arrived(c)' = 0 /\ Arrived(c) = 7 /\ F = 1 /\ Finished(c)
            <4>1. n + 1 <= 2 * Depth - 1
                <5>1. Missing(c) >= 1 BY <1>2, <3>4, BlocksStep DEF One, Finished, Filled
                <5>. QED BY <2>3, <2>4, <5>1, Sizes
            <4>. QED BY <2>4, <2>7, <3>1, <3>2, <3>4, <4>1, Sizes DEF Round
        <3>. QED BY <1>2, <2>2, <3>3, <3>4, BlocksStep DEF One
    <2>11. Landed(c)' => cache_wraddr'.block + cache_wraddr'.lsb = Round(n)
        <3>. SUFFICES ASSUME Filled(c) PROVE cache_wraddr'.block + cache_wraddr'.lsb = Round(n)
            BY ChannelStep
        <3>1. inputstate - 1 = Arrived(c)
            BY <1>2, BlocksStep
        <3>. QED BY <2>7, <3>1, WritePortStep
    <2>12. Landing(c)' = F
        BY <1>2, <2>2, BlocksStep
    <2>. QED BY <2>5, <2>6, <2>8, <2>9, <2>10, <2>11, <2>12 DEF Pointers
<1>. QED BY <1>1, <1>2, WasSet

-----------------------------------------------------------------------------
(* What the FIFO holds.                                                    *)

\* The block RAM changes where its write port points.
LEMMA RamStep ==
    ASSUME DmaStep
    PROVE  /\ ram' \in [Channel -> [Slot -> Address]]
           /\ \A c \in Channel, s \in Slot :
                  ram'[c][s] = IF Landed(c) /\ s = cache_wraddr.block + cache_wraddr.lsb
                               THEN data_from_ram ELSE ram[c][s]
<1>1. ram' = IF cache_wren
             THEN [ram EXCEPT ![cache_wraddr.chan][cache_wraddr.block + cache_wraddr.lsb] =
                       data_from_ram]
             ELSE ram
    BY Zenon DEF DmaStep, Ticks, Tick, DmaTick, WritePort
<1>2. ram \in [Channel -> [Slot -> Address]] /\ data_from_ram \in Address
    BY DEF DmaStep, Ticks, DmaInv, TypeOK, DmaTypeOK
<1>3. CASE ~cache_wren
    <2>1. ram' = ram BY <1>1, <1>3
    <2>. QED BY <1>2, <1>3, <2>1 DEF Landed
<1>4. CASE cache_wren
    <2>. DEFINE d == cache_wraddr.chan
                slot == cache_wraddr.block + cache_wraddr.lsb
    <2>1. ram' = [ram EXCEPT ![d] = [ram[d] EXCEPT ![slot] = data_from_ram]]
        BY <1>1, <1>4
    <2>2. ASSUME NEW c \in Channel
          PROVE  ram'[c] = IF c = d THEN [ram[d] EXCEPT ![slot] = data_from_ram] ELSE ram[c]
        BY <1>2, <2>1, Zenon
    <2>3. ASSUME NEW c \in Channel
          PROVE  [ram[c] EXCEPT ![slot] = data_from_ram] \in [Slot -> Address]
        BY <1>2
    <2>4. ASSUME NEW c \in Channel, NEW s \in Slot
          PROVE  [ram[c] EXCEPT ![slot] = data_from_ram][s]
                     = IF s = slot THEN data_from_ram ELSE ram[c][s]
        BY <1>2
    <2>5. ram' \in [Channel -> [Slot -> Address]]
        BY <1>2, <2>1, <2>3
    <2>6. ASSUME NEW c \in Channel, NEW s \in Slot
          PROVE  ram'[c][s] = IF Landed(c) /\ s = slot THEN data_from_ram ELSE ram[c][s]
        <3>1. CASE c = d
            <4>1. ram'[c] = [ram[c] EXCEPT ![slot] = data_from_ram] BY <2>2, <3>1
            <4>2. Landed(c) BY <1>4, <3>1 DEF Landed
            <4>. QED BY <2>4, <4>1, <4>2
        <3>2. CASE c # d
            <4>1. ram'[c] = ram[c] BY <2>2, <3>2
            <4>2. ~Landed(c) BY <3>2 DEF Landed
            <4>. QED BY <4>1, <4>2
        <3>. QED BY <3>1, <3>2
    <2>. QED BY <2>5, <2>6
<1>. QED BY <1>3, <1>4

\* The unread words stay, and the one in the write port joins them.
LEMMA UnreadStep ==
    ASSUME DmaStep, NEW c \in Channel, Set(c), NEW k \in 0 .. stock[c] + Landing(c) - 1
    PROVE  /\ Round(internals[c].rdptr + k) \in Slot
           /\ ram'[c][Round(internals[c].rdptr + k)] = (Owed(c) + k) % Memory
<1>1. /\ \A j \in 0 .. stock[c] - 1 : ram[c][Round(internals[c].rdptr + j)] = (Owed(c) + j) % Memory
      /\ Landed(c) => data_from_ram = (Owed(c) + stock[c]) % Memory
      /\ Landed(c) => cache_wraddr.block + cache_wraddr.lsb = Round(internals[c].rdptr + stock[c])
    BY ChannelTypes DEF ChannelInv, Content, Pointers
<1>2. PICK r \in 0 .. Depth - 1, n \in Int, l \in {0, 1} :
          /\ r = internals[c].rdptr /\ n = stock[c] /\ l = Landing(c)
          /\ n + l <= Depth /\ (l = 1 <=> Landed(c))
    <2>1. internals[c].rdptr \in 0 .. Depth - 1
        BY ChannelTypes DEF Slot
    <2>2. stock[c] \in Int /\ Landing(c) \in {0, 1} /\ (Landing(c) = 1 <=> Landed(c))
        BY ReadStep
    <2>3. stock[c] + Landing(c) <= Depth
        <3>1. stock[c] + Landing(c) + Missing(c) <= Depth /\ Missing(c) \in 0 .. 8 BY ReadStep
        <3>. QED BY <2>2, <3>1, Sizes
    <2>. QED BY <2>1, <2>2, <2>3
<1>3. k \in 0 .. n + l - 1
    BY <1>2
<1>4. r + k \in 0 .. 2 * Depth - 1
    BY <1>2, <1>3, Sizes
<1>5. Round(r + k) \in Slot
    BY <1>4, Rounds
<1>6. CASE k < n
    <2>1. Landed(c) => Round(r + k) # Round(r + n)
        BY <1>2, <1>3, <1>4, <1>6, Sizes DEF Round
    <2>2. ram'[c][Round(r + k)] = ram[c][Round(r + k)]
        BY <1>1, <1>2, <1>5, <2>1, RamStep
    <2>3. k \in 0 .. stock[c] - 1
        BY <1>2, <1>3, <1>6
    <2>. QED BY <1>1, <1>2, <1>5, <2>2, <2>3
<1>7. CASE k >= n
    <2>1. k = n /\ Landed(c)
        BY <1>2, <1>3, <1>7
    <2>2. ram'[c][Round(r + k)] = data_from_ram
        BY <1>1, <1>2, <1>5, <2>1, RamStep
    <2>. QED BY <1>1, <1>2, <1>5, <2>1, <2>2
<1>. QED BY <1>2, <1>3, <1>6, <1>7

\* The address of the next unread word, which a read advances.
LEMMA OwedStep ==
    ASSUME DmaStep, NEW c \in Channel, Set(c), Set(c)'
    PROVE  /\ Owed(c) \in Int /\ Owed(c)' \in Int /\ want'[c] = Owed(c) % Memory
           /\ \A k \in Int : (Owed(c)' + k) % Memory = (Owed(c) + One(Served(c)) + k) % Memory
<1>. USE Sizes
<1>1. want[c] \in Address /\ (valid[c] => waiting[c]) /\ want[c] \in Int
    BY ChannelTypes DEF ChannelInv, HostRules, Set, Address
<1>2. Proceeds(c)
    BY HostSteps DEF HostStep, Silent, Unsized, Sized, Set
<1>3. PICK v \in {0, 1}, s \in {0, 1} : v = One(valid[c]) /\ s = One(Served(c)) /\ s = One(valid'[c])
    BY ChannelStep DEF One
<1>4. Owed(c) = want[c] + v /\ Owed(c) \in Int
    BY <1>1, <1>3 DEF Owed
<1>5. want'[c] = Owed(c) % Memory
    <2>1. CASE valid[c]
        BY <1>1, <1>2, <1>3, <1>4, <2>1 DEF Proceeds, One
    <2>2. CASE ~valid[c]
        <3>1. want'[c] = want[c] /\ Owed(c) = want[c] BY <1>1, <1>2, <1>3, <1>4, <2>2 DEF Proceeds, One
        <3>2. want[c] % Memory = want[c] BY <1>1, ModSmall DEF Address
        <3>. QED BY <3>1, <3>2
    <2>. QED BY <2>1, <2>2
<1>6. Owed(c)' = (Owed(c) % Memory) + s /\ Owed(c) % Memory \in Int
    BY <1>3, <1>4, <1>5, ModRange DEF Owed
<1>7. ASSUME NEW k \in Int
      PROVE  (Owed(c)' + k) % Memory = (Owed(c) + One(Served(c)) + k) % Memory
    <2>1. s + k \in Int /\ Memory \in Nat \ {0} BY <1>3
    <2>2. ((Owed(c) % Memory) + (s + k)) % Memory = (Owed(c) + (s + k)) % Memory
        BY <1>4, <2>1, ModAdd
    <2>3. /\ Owed(c)' + k = (Owed(c) % Memory) + (s + k)
          /\ Owed(c) + One(Served(c)) + k = Owed(c) + (s + k)
        BY <1>3, <1>4, <1>6
    <2>. QED BY <2>2, <2>3
<1>. QED BY <1>3, <1>4, <1>5, <1>6, <1>7

\* Where the words fetched so far end, and the word a tick adds to them.
Total(c) == Owed(c) + stock[c] + Landing(c)
LEMMA TotalStep ==
    ASSUME DmaStep, NEW c \in Channel, Set(c), Set(c)'
    PROVE  /\ Total(c) \in Int /\ Total(c)' \in Int
           /\ Total(c)' % Memory = (Total(c) + One(Filled(c))) % Memory
           /\ (Owed(c)' + stock'[c]) % Memory = Total(c) % Memory
<1>1. PICK o \in Int : o = Owed(c) BY OwedStep
<1>2. PICK p \in Int : p = Owed(c)' BY OwedStep
<1>3. PICK n \in Int : n = stock[c] BY ReadStep
<1>4. PICK l \in {0, 1} : l = Landing(c) BY ReadStep
<1>5. PICK s \in {0, 1} : s = One(Served(c)) BY ReadStep
<1>6. PICK f \in {0, 1} : f = One(Filled(c)) /\ f = Landing(c)' BY BlocksStep DEF One
<1>7. stock'[c] = n + l - s
    BY <1>3, <1>4, <1>5, ReadStep
<1>8. \A k \in Int : (p + k) % Memory = (o + s + k) % Memory
    BY <1>1, <1>2, <1>5, OwedStep
<1>9. Total(c) = o + n + l /\ Total(c)' = p + (n + l - s) + f /\ Owed(c)' + stock'[c] = p + (n + l - s)
    BY <1>1, <1>2, <1>3, <1>4, <1>6, <1>7 DEF Total
<1>10. n + l - s \in Int /\ n + l - s + f \in Int
    BY <1>3, <1>4, <1>5, <1>6
<1>11. /\ (p + (n + l - s + f)) % Memory = (o + s + (n + l - s + f)) % Memory
       /\ (p + (n + l - s)) % Memory = (o + s + (n + l - s)) % Memory
    BY <1>8, <1>10
<1>12. /\ p + (n + l - s + f) = p + (n + l - s) + f /\ o + s + (n + l - s + f) = o + n + l + f
       /\ o + s + (n + l - s) = o + n + l /\ o + n + l \in Int /\ p + (n + l - s) + f \in Int
    BY <1>1, <1>2, <1>3, <1>4, <1>5, <1>6
<1>. QED BY <1>6, <1>9, <1>11, <1>12

\* The next word of a line, and the first of the next line.
LEMMA WithinLine ==
    ASSUME NEW b \in Address, b % 8 = 0, NEW i \in 0 .. 6, NEW t \in Int, b + i = t % Memory
    PROVE  b + (i + 1) = (t + 1) % Memory
<1>1. b + (i + 1) \in 0 .. Memory - 1
    BY Sizes DEF Address
<1>2. ((t % Memory) + 1) % Memory = (t + 1) % Memory
    <2>1. 1 \in Int /\ Memory \in Nat \ {0} BY Sizes
    <2>. QED BY <2>1, ModAdd
<1>3. (t % Memory) + 1 = b + (i + 1)
    <2>1. b \in Int /\ i \in Int BY DEF Address
    <2>. QED BY <2>1
<1>4. (b + (i + 1)) % Memory = b + (i + 1)
    BY <1>1, Sizes, ModSmall
<1>. QED BY <1>2, <1>3, <1>4
LEMMA PastLine ==
    ASSUME NEW b \in Address, NEW t \in Int, b + 7 = t % Memory
    PROVE  (b + 8) % Memory = (t + 1) % Memory
<1>1. ((t % Memory) + 1) % Memory = (t + 1) % Memory
    <2>1. 1 \in Int /\ Memory \in Nat \ {0} BY Sizes
    <2>. QED BY <2>1, ModAdd
<1>2. (t % Memory) + 1 = b + 8
    <2>1. b \in Int BY DEF Address
    <2>2. b + 7 + 1 = b + 8 BY <2>1
    <2>. QED BY <2>2
<1>. QED BY <1>1, <1>2

\* The word that arrives is the next of its burst.
LEMMA ArrivalStep ==
    ASSUME DmaStep, NEW c \in Channel, Filled(c)
    PROVE  Coming(c) /\ Strobed = burst + Arrived(c) /\ burst \in Address /\ burst % 8 = 0
<1>1. GetsWord(c) \/ GetsLast(c)
    BY BurstSteps
       DEF BurstStep, OtherBurst, AsksBurst, AwaitsGrant, GetsGrant, Advances, AwaitsWord, Undisturbed
<1>2. Coming(c) /\ inputstate \in 1 .. 8 /\ burst \in Int /\ burst \in Address /\ burst % 8 = 0
    BY <1>1, EngineTypes DEF GetsWord, GetsLast, Coming, Engine, Address
<1>3. Strobed = burst + (inputstate - 1)
    BY <1>1, <1>2 DEF GetsWord, GetsLast
<1>. QED BY <1>2, <1>3 DEF Arrived, Coming

\* The line the channel's address is in, and the one on its way, follow on
\* from the words fetched so far.
EngineContent(c) ==
    /\ ~(Owner(c) /\ Granted) => LineOf(internals[c].addr) = Total(c) % Memory
    /\ Owner(c) /\ Granted => burst + Arrived(c) = Total(c) % Memory
    /\ Coming(c) => LineOf(internals[c].addr) = (burst + 8) % Memory
    /\ Owner(c) /\ Granted /\ phase = 3 => LineOf(internals[c].addr) = burst
LEMMA EngineContentStep ==
    ASSUME DmaStep, NEW c \in Channel, Set(c), ~host[c].setaddr, Set(c)'
    PROVE  EngineContent(c)'
<1>1. EngineContent(c)
    BY ChannelTypes DEF ChannelInv, Content, EngineContent, Total
<1>2. Total(c) \in Int /\ Total(c)' \in Int /\ Total(c)' % Memory = (Total(c) + One(Filled(c))) % Memory
    BY TotalStep
<1>3. internals'[c].addr = IF Advanced(c, ack) THEN (internals[c].addr + 8) % Memory
                           ELSE internals[c].addr
    BY RegisterStep
<1>4. Filled(c) => Total(c)' % Memory = (Total(c) + 1) % Memory
    BY <1>2 DEF One
<1>5. ~Filled(c) => Total(c)' % Memory = Total(c) % Memory
    BY <1>2 DEF One
<1>6. CASE OtherBurst(c) \/ AsksBurst(c) \/ AwaitsGrant(c)
    <2>1. ~(Owner(c) /\ Granted) /\ ~(Owner(c) /\ Granted)' /\ Undisturbed(c)
        BY <1>6 DEF OtherBurst, AsksBurst, AwaitsGrant
    <2>. QED BY <1>1, <1>3, <1>5, <2>1 DEF Undisturbed, EngineContent, Coming
<1>7. CASE GetsGrant(c)
    <2>1. Arrived(c)' = 0
        BY <1>7 DEF GetsGrant, Arrived
    <2>2. LineOf(internals[c].addr) = Total(c) % Memory /\ LineOf(internals[c].addr) \in Int
        BY <1>1, <1>7, LineTypes DEF GetsGrant, EngineContent, Address
    <2>. QED BY <1>3, <1>5, <1>7, <2>1, <2>2 DEF Undisturbed, EngineContent, Coming, GetsGrant
<1>8. CASE Advances(c)
    <2>1. Arrived(c)' = 0 /\ Arrived(c) = 0
        BY <1>8 DEF Advances, Arrived
    <2>2. LineOf(internals[c].addr) = burst /\ burst + Arrived(c) = Total(c) % Memory
        BY <1>1, <1>8 DEF Advances, EngineContent
    <2>3. LineOf(internals'[c].addr) = (burst + 8) % Memory
        BY <1>3, <1>8, <2>2, LineTypes, NextLine DEF Advances
    <2>. QED BY <1>3, <1>5, <1>8, <2>1, <2>2, <2>3 DEF EngineContent, Coming, Advances
<1>9. CASE AwaitsWord(c)
    <2>1. Arrived(c)' = 0 /\ Arrived(c) = 0
        BY <1>9 DEF AwaitsWord, Arrived, Coming
    <2>2. LineOf(internals[c].addr) = (burst + 8) % Memory /\ burst + Arrived(c) = Total(c) % Memory
        BY <1>1, <1>9 DEF AwaitsWord, EngineContent, Coming
    <2>. QED BY <1>3, <1>5, <1>9, <2>1, <2>2 DEF EngineContent, Coming, AwaitsWord, Undisturbed
<1>10. CASE GetsWord(c)
    <2>1. Arrived(c)' = Arrived(c) + 1 /\ Arrived(c) \in 0 .. 6
        BY <1>10 DEF GetsWord, Arrived, Coming
    <2>2. LineOf(internals[c].addr) = (burst + 8) % Memory /\ burst + Arrived(c) = Total(c) % Memory
        BY <1>1, <1>10 DEF GetsWord, EngineContent, Coming
    <2>3. burst + (Arrived(c) + 1) = (Total(c) + 1) % Memory
        BY <1>2, <1>10, <2>1, <2>2, ArrivalStep, WithinLine DEF GetsWord
    <2>. QED BY <1>3, <1>4, <1>10, <2>1, <2>2, <2>3 DEF EngineContent, Coming, GetsWord
<1>11. CASE GetsLast(c)
    <2>1. Arrived(c) = 7 /\ Filled(c) /\ ~Advanced(c, ack) /\ ~Granted' /\ Coming(c)
        BY <1>11 DEF GetsLast, Arrived, Coming
    <2>2. LineOf(internals[c].addr) = (burst + 8) % Memory /\ burst + 7 = Total(c) % Memory
        BY <1>1, <2>1 DEF EngineContent, Coming
    <2>3. (burst + 8) % Memory = (Total(c) + 1) % Memory
        BY <1>2, <2>1, <2>2, ArrivalStep, PastLine
    <2>. QED BY <1>3, <1>4, <2>1, <2>2, <2>3 DEF EngineContent, Coming
<1>. QED BY <1>6, <1>7, <1>8, <1>9, <1>10, <1>11, BurstSteps DEF BurstStep

\* The FIFO goes on with the transfer, whatever arrives and is read in a tick.
LEMMA ContentStep ==
    ASSUME DmaStep, NEW c \in Channel, Set(c)'
    PROVE  Content(c)'
<1>1. CASE host[c].setaddr
    <2>1. PICK before \in 0 .. 7 :
              before = host[c].addr % 8 /\ stock'[c] = -before /\ host[c].addr - before \in Address
        BY <1>1, AtSet
    <2>2. ~Owner(c)' /\ ~Landed(c)' /\ ~valid'[c] /\ ~internals'[c].fill /\ want[c] = host[c].addr
        BY <1>1, AtSet
    <2>3. Landing(c)' = 0 /\ One(valid'[c]) = 0
        BY <2>2 DEF Landing, One
    <2>4. want'[c] = host[c].addr
        <3>1. ~waiting[c] BY <1>1, ChannelTypes DEF ChannelInv, SetRules
        <3>. QED BY <2>2, <3>1, HostSteps DEF HostStep, Silent, Unsized, Sized, Proceeds, Set
    <2>5. internals'[c].addr = host[c].addr
        BY <1>1, RegisterStep
    <2>6. host[c].addr \in Int
        BY ChannelTypes DEF Address
    <2>7. /\ Owed(c)' + stock'[c] + Landing(c)' = host[c].addr - before
          /\ LineOf(internals'[c].addr) = host[c].addr - before
        BY <2>1, <2>3, <2>4, <2>5, <2>6 DEF Owed, LineOf
    <2>8. (host[c].addr - before) % Memory = host[c].addr - before
        BY <2>1, Sizes, ModSmall DEF Address
    <2>9. 0 .. stock'[c] - 1 = {}
        BY <2>1
    <2>. QED BY <2>2, <2>7, <2>8, <2>9 DEF Content, Coming
<1>2. CASE Set(c) /\ ~host[c].setaddr
    <2>1. /\ Total(c) \in Int /\ Total(c)' \in Int
          /\ Total(c)' % Memory = (Total(c) + One(Filled(c))) % Memory
        BY <1>2, TotalStep
    <2>2. Content(c)
        BY <1>2, ChannelTypes DEF ChannelInv
    <2>3. \A j \in 0 .. stock'[c] - 1 : ram'[c][Round(internals'[c].rdptr + j)] = (Owed(c)' + j) % Memory
        <3>. SUFFICES ASSUME NEW j \in 0 .. stock'[c] - 1
                      PROVE  ram'[c][Round(internals'[c].rdptr + j)] = (Owed(c)' + j) % Memory
            OBVIOUS
        <3>1. PICK r \in Slot, n \in Int, l \in {0, 1}, s \in {0, 1} :
                  /\ r = internals[c].rdptr /\ n = stock[c] /\ l = Landing(c) /\ s = One(Served(c))
                  /\ n + l <= Depth /\ internals'[c].rdptr = Round(r + s) /\ stock'[c] = n + l - s
            <4>1. stock[c] \in Int /\ Landing(c) \in {0, 1} /\ One(Served(c)) \in {0, 1}
                BY <1>2, ReadStep
            <4>2. stock[c] + Landing(c) <= Depth
                BY <1>2, <4>1, ReadStep, Sizes
            <4>. QED BY <1>2, <4>1, <4>2, ReadStep, ChannelTypes
        <3>2. j \in Int /\ j >= 0 /\ s + j \in 0 .. n + l - 1
            BY <3>1
        <3>3. Round(Round(r + s) + j) = Round(r + (s + j))
            BY <3>1, <3>2, Sizes DEF Round, Slot
        <3>4. ram'[c][Round(r + (s + j))] = (Owed(c) + (s + j)) % Memory
            <4>1. s + j \in 0 .. stock[c] + Landing(c) - 1 BY <3>1, <3>2
            <4>. QED BY <1>2, <3>1, <4>1, UnreadStep
        <3>5. (Owed(c)' + j) % Memory = (Owed(c) + s + j) % Memory /\ Owed(c) \in Int
            BY <1>2, <3>1, <3>2, OwedStep
        <3>6. Owed(c) + (s + j) = Owed(c) + s + j BY <3>1, <3>2, <3>5
        <3>. QED BY <3>1, <3>3, <3>4, <3>5, <3>6
    <2>4. Landed(c)' => data_from_ram' = (Owed(c)' + stock'[c]) % Memory
        <3>. SUFFICES ASSUME Filled(c) PROVE data_from_ram' = (Owed(c)' + stock'[c]) % Memory
            BY ChannelStep
        <3>1. Coming(c) /\ Strobed = burst + Arrived(c)
            BY ArrivalStep
        <3>2. burst + Arrived(c) = Total(c) % Memory
            BY <2>2, <3>1 DEF Content, Coming, Total
        <3>. QED BY <1>2, <3>1, <3>2, WritePortStep, TotalStep
    <2>5. EngineContent(c)'
        BY <1>2, EngineContentStep
    <2>. QED BY <2>3, <2>4, <2>5 DEF Content, EngineContent, Total
<1>. QED BY <1>1, <1>2, WasSet

-----------------------------------------------------------------------------
(* Answers.                                                                *)

\* A word that is read is the one its host is owed.
LEMMA AnswerStep ==
    ASSUME DmaStep, NEW c \in Channel
    PROVE  Answer(c)'
<1>. SUFFICES ASSUME Served(c) PROVE cache_rdaddr'.chan = c /\ ram'[c][cache_rdaddr'.slot] = want'[c]
    BY ChannelStep DEF Answer
<1>1. cache_rdaddr' = [chan |-> c, slot |-> internals[c].rdptr]
    <2>1. ReadPort
        BY DEF DmaStep, Ticks, Tick, DmaTick
    <2>2. Serviceable # {} /\ c = First(Serviceable)
        BY DEF Served
    <2>. QED BY <2>1, <2>2, Zenon DEF ReadPort
<1>2. waiting[c] /\ internals[c].pending /\ ~valid[c]
    BY ChannelStep, ChannelTypes DEF ChannelInv, HostRules
<1>3. Set(c) /\ Set(c)'
    <2>1. Set(c) /\ want[c] \in Address
        BY <1>2, Waits, ChannelTypes DEF Set
    <2>2. ~MaySet(c)
        BY <1>2 DEF MaySet, Quiet, DmaStep, Ticks
    <2>3. want'[c] = want[c] /\ ~host'[c].setaddr
        BY <1>2, <2>2, HostSteps DEF HostStep, Silent, Proceeds
    <2>. QED BY <2>1, <2>3 DEF Set
<1>4. internals[c].rdptr \in Slot /\ stock[c] \in Int /\ stock[c] > 0 /\ Landing(c) \in {0, 1}
    BY <1>3, ReadStep, ChannelTypes
<1>5. 0 \in 0 .. stock[c] + Landing(c) - 1
    BY <1>4
<1>6. ram'[c][Round(internals[c].rdptr + 0)] = (Owed(c) + 0) % Memory
    BY <1>3, <1>5, UnreadStep
<1>7. Round(internals[c].rdptr + 0) = internals[c].rdptr
    BY <1>4, Sizes DEF Round, Slot
<1>8. Owed(c) + 0 = Owed(c)
    BY <1>3, OwedStep
<1>9. cache_rdaddr'.chan = c /\ cache_rdaddr'.slot = internals[c].rdptr
    BY <1>1
<1>. QED BY <1>3, <1>6, <1>7, <1>8, <1>9, OwedStep

-----------------------------------------------------------------------------
(* Types after a tick.                                                     *)

\* Engine and controller.
LEMMA EngineTypeStep ==
    ASSUME DmaStep
    PROVE  /\ inputstate' \in 0 .. 8 /\ activechannel' \in Channel /\ sdram_req' \in BOOLEAN
           /\ phase' \in 0 .. 15 /\ rsp' \in {"none", "ack", "nak"}
           /\ burst' = NoBurst \/ burst' \in Address
<1>. USE EngineTypes
<1>1. phase' \in 0 .. 15 /\ Engine'
    BY EngineKept
<1>2. inputstate' \in 0 .. 8
    BY <1>1 DEF Engine, Stage
<1>3. activechannel' \in Channel
    BY FirstIn, EngineMoves DEF Chosen
<1>4. sdram_req' \in BOOLEAN
    BY Zenon DEF InputState
<1>5. rsp' \in {"none", "ack", "nak"} /\ (burst' = NoBurst \/ burst' \in Address)
    <2>1. PICK granted \in BOOLEAN : Port0(granted)
        OBVIOUS
    <2>2. LineOf(internals[activechannel].addr) \in Address
        BY LineTypes
    <2>3. burst = NoBurst \/ burst \in Address
        BY DEF DmaStep, Ticks, DmaInv, TypeOK
    <2>. QED BY <2>1, <2>2, <2>3 DEF Port0
<1>. QED BY <1>1, <1>2, <1>3, <1>4, <1>5

\* The block RAM's two ports.
LEMMA PortTypeStep ==
    ASSUME DmaStep
    PROVE  /\ cache_wren' \in BOOLEAN /\ data_from_ram' \in Address
           /\ cache_wraddr' \in [chan : Channel, block : Slot, lsb : 0 .. 7]
           /\ cache_rdaddr' \in [chan : Channel, slot : Slot]
<1>1. WritePort(fillPhase, Strobed) /\ ReadPort
    BY DEF DmaStep, Ticks, Tick, DmaTick
<1>2. /\ cache_wren \in BOOLEAN /\ data_from_ram \in Address /\ inputstate \in 0 .. 8
      /\ cache_wraddr \in [chan : Channel, block : Slot, lsb : 0 .. 7]
      /\ cache_rdaddr \in [chan : Channel, slot : Slot] /\ activechannel \in Channel
    BY DEF DmaStep, Ticks, DmaInv, TypeOK, DmaTypeOK
<1>3. cache_wren' \in BOOLEAN
    <2>1. cache_wren' = Receives(fillPhase) BY <1>1, Zenon DEF WritePort
    <2>2. Receives(fillPhase) \in BOOLEAN BY DEF Receives
    <2>. QED BY <2>1, <2>2
<1>4. data_from_ram' \in Address
    <2>1. CASE Receives(fillPhase)
        <3>1. Filled(activechannel) BY <2>1 DEF Filled
        <3>2. burst \in Address /\ burst % 8 = 0 /\ Strobed = burst + Arrived(activechannel)
              /\ Arrived(activechannel) \in 0 .. 7
            BY <1>2, <3>1, ArrivalStep DEF Arrived, Owner, rd1
        <3>3. Strobed \in Address
            BY <3>2, Sizes DEF Address
        <3>. QED BY <1>1, <2>1, <3>3, Zenon DEF WritePort
    <2>2. CASE ~Receives(fillPhase)
        BY <1>1, <1>2, <2>2, Zenon DEF WritePort
    <2>. QED BY <2>1, <2>2
<1>5. cache_wraddr' \in [chan : Channel, block : Slot, lsb : 0 .. 7]
    <2>1. internals[activechannel].wrptr \in Slot
        BY <1>2, ChannelTypes
    <2>2. WriteBlock.chan \in Channel /\ WriteBlock.block \in Slot
        BY <1>2, <2>1 DEF WriteBlock
    <2>3. (IF Receives(fillPhase) THEN inputstate - 1 ELSE cache_wraddr.lsb) \in 0 .. 7
        BY <1>2 DEF Receives
    <2>4. cache_wraddr' = [chan |-> WriteBlock.chan, block |-> WriteBlock.block,
               lsb |-> IF Receives(fillPhase) THEN inputstate - 1 ELSE cache_wraddr.lsb]
        BY <1>1, Zenon DEF WritePort
    <2>. QED BY <2>2, <2>3, <2>4
<1>6. cache_rdaddr' \in [chan : Channel, slot : Slot]
    <2>1. CASE Serviceable # {}
        <3>. DEFINE c == First(Serviceable)
        <3>1. c \in Channel BY <2>1, FirstIn DEF Serviceable
        <3>2. internals[c].rdptr \in Slot BY <3>1, ChannelTypes
        <3>3. cache_rdaddr' = [chan |-> c, slot |-> internals[c].rdptr]
            BY <1>1, <2>1, Zenon DEF ReadPort
        <3>. QED BY <3>1, <3>2, <3>3
    <2>2. CASE Serviceable = {}
        BY <1>1, <1>2, <2>2 DEF ReadPort
    <2>. QED BY <2>1, <2>2
<1>. QED BY <1>3, <1>4, <1>5, <1>6

\* The channels' registers.
LEMMA RegisterTypeStep ==
    ASSUME DmaStep
    PROVE  internals' \in [Channel -> Internal]
<1>1. ASSUME NEW c \in Channel
      PROVE  Registers(c, host[c], ack, fillPhase) \in Internal
    <2>. USE ChannelTypes, Sizes
    <2>. DEFINE i == internals[c]
                h == host[c]
    <2>1. (IF h.setaddr THEN h.addr
           ELSE IF Advanced(c, ack) THEN (i.addr + 8) % Memory ELSE i.addr) \in Address
        BY NextLine
    <2>2. Remaining(c, h, ack) \in -8 .. MaxLen
        BY CountStep, RegisterStep
    <2>3. (IF h.setreqlen THEN i.addr % 4 # 0 ELSE i.extend /\ ~Advanced(c, ack)) \in BOOLEAN
        OBVIOUS
    <2>4. (IF h.setaddr THEN 0 ELSE IF Finished(c) THEN i.wrptr_next ELSE i.wrptr) \in Slot
        <3>1. 0 \in Slot BY DEF Slot
        <3>. QED BY <3>1
    <2>5. (IF h.setaddr THEN 8
           ELSE IF Finished(c) THEN NextBlock(i.wrptr_next) ELSE i.wrptr_next) \in Slot
        <3>1. 8 \in Slot /\ i.wrptr_next + 8 \in Int /\ Depth \in Nat \ {0} BY DEF Slot
        <3>2. NextBlock(i.wrptr_next) \in Slot BY <3>1, ModRange DEF Slot, NextBlock
        <3>. QED BY <3>1, <3>2
    <2>6. (IF h.setaddr THEN h.addr % 8
           ELSE IF Served(c) THEN (i.rdptr + 1) % Depth ELSE i.rdptr) \in Slot
        <3>1. h.addr % 8 \in Slot
            <4>1. PICK k \in 0 .. 7 : k = h.addr % 8 BY Lines
            <4>. QED BY <4>1 DEF Slot
        <3>2. i.rdptr + 1 \in Int /\ Depth \in Nat \ {0} BY DEF Slot
        <3>3. (i.rdptr + 1) % Depth \in Slot BY <3>2, ModRange DEF Slot
        <3>. QED BY <3>1, <3>3
    <2>7. Pending(c, h) \in BOOLEAN /\ (Receives(fillPhase) /\ c = activechannel) \in BOOLEAN
          /\ Served(c) \in BOOLEAN
        BY DEF Pending, Served
    <2>. QED BY <2>1, <2>2, <2>3, <2>4, <2>5, <2>6, <2>7 DEF Registers, Internal
<1>2. internals' = [c \in Channel |-> Registers(c, host[c], ack, fillPhase)]
    BY DEF DmaStep, Ticks, Tick, DmaTick, ack
<1>. QED BY <1>1, <1>2, Zenon

\* Counters, answers and stocks.
LEMMA CountTypeStep ==
    ASSUME DmaStep
    PROVE  /\ counter' \in [Channel -> 0 .. 2 * Depth - 1] /\ valid' \in [Channel -> BOOLEAN]
           /\ stock' \in [Channel -> -8 .. Depth + 8]
<1>1. PICK granted, move : Tick(granted, move)
    BY DEF DmaStep, Ticks
<1>2. ASSUME NEW c \in Channel
      PROVE  Counted(c, host) \in 0 .. 2 * Depth - 1
    <2>. DEFINE n == counter[c] + (IF internals[c].fill THEN 1 ELSE 0)
                       - (IF internals[c].drain THEN 1 ELSE 0)
    <2>1. n \in Int /\ 2 * Depth \in Nat \ {0}
        BY ChannelTypes, Sizes
    <2>2. n % (2 * Depth) \in 0 .. 2 * Depth - 1
        BY <2>1, ModRange
    <2>. QED BY <2>2, Sizes DEF Counted, CounterReset
<1>3. counter' = [c \in Channel |-> Counted(c, host)] /\ valid' = [c \in Channel |-> Served(c)]
    BY <1>1, Zenon DEF Tick, DmaTick, ReadPort
<1>4. ASSUME NEW c \in Channel PROVE Served(c) \in BOOLEAN
    BY DEF Served
<1>5. ASSUME NEW c \in Channel PROVE stock'[c] \in -8 .. Depth + 8
    <2>1. /\ Landing(c)' \in {0, 1} /\ Missing(c)' \in Nat
          /\ stock'[c] + Landing(c)' + Missing(c)' <= Depth
        BY RoomStep, EngineTypeStep DEF Room, Landing, One, Missing
    <2>2. stock'[c] \in Int /\ stock'[c] >= -8
        <3>1. CASE host[c].setaddr BY <3>1, AtSet
        <3>2. CASE ~host[c].setaddr
            <4>1. PICK n \in -8 .. Depth + 8, l, s \in {0, 1} :
                      n = stock[c] /\ l = One(Landed(c)) /\ s = One(Served(c)) /\ (s = 1 => n > 0)
                BY ChannelTypes, ChannelStep DEF One, ChannelInv, HostRules
            <4>2. stock'[c] = n + l - s BY <3>2, <4>1, ChannelStep
            <4>. QED BY <4>1, <4>2, Sizes
        <3>. QED BY <3>1, <3>2
    <2>. QED BY <2>1, <2>2, Sizes
<1>6. stock' = [c \in Channel |-> stock'[c]]
    BY <1>1 DEF Tick, Stock
<1>. QED BY <1>2, <1>3, <1>4, <1>5, <1>6

\* The hosts.
LEMMA HostTypeStep ==
    ASSUME DmaStep
    PROVE  /\ host' \in [Channel -> FromHost] /\ asked' \in [Channel -> 0 .. MaxLen]
           /\ waiting' \in [Channel -> BOOLEAN] /\ want' \in [Channel -> Address \union {NoWord}]
<1>1. PICK granted, move : Ticks(granted, move)
    BY DEF DmaStep
<1>2. Hosts(move)
    BY <1>1 DEF Ticks, Tick
<1>3. ASSUME NEW c \in Channel
      PROVE  /\ host'[c].addr \in Address /\ host'[c].reqlen \in 0 .. MaxLen
             /\ asked'[c] \in 0 .. MaxLen /\ want'[c] \in Address \union {NoWord}
    <2>1. Starts[c] \subseteq Address /\ Lengths[c] \subseteq 0 .. MaxLen
        BY HostAssumption
    <2>2. host'[c].addr \in Address /\ host'[c].reqlen \in 0 .. MaxLen
        BY <2>1, HostSteps, ChannelTypes DEF HostStep, Silent, Unsized, Sized
    <2>3. asked'[c] \in 0 .. MaxLen
        <3>1. MayAsk(c) => asked[c] - 1 \in 0 .. MaxLen
            BY ChannelTypes, Sizes DEF MayAsk
        <3>. QED BY <2>1, <3>1, HostSteps, ChannelTypes, Sizes DEF HostStep, Sized
    <2>4. want'[c] \in Address \union {NoWord}
        <3>1. (want[c] + 1) % Memory \in Address
            <4>1. want[c] + 1 \in Int BY ChannelTypes DEF Address, NoWord
            <4>. QED BY <4>1, Sizes, ModRange DEF Address
        <3>. QED BY <2>1, <3>1, HostSteps, ChannelTypes DEF HostStep, Proceeds
    <2>. QED BY <2>2, <2>3, <2>4
<1>4. ASSUME NEW c \in Channel
      PROVE  host'[c] \in FromHost
    <2>1. host'[c] = [setaddr |-> Setting(move[c]),
                      addr |-> IF Setting(move[c]) THEN move[c].addr ELSE host[c].addr,
                      setreqlen |-> Sizing(move[c]),
                      reqlen |-> IF Sizing(move[c]) THEN move[c].len ELSE host[c].reqlen,
                      req |-> move[c] = Ask]
        BY <1>2, Zenon DEF Hosts
    <2>2. Setting(move[c]) \in BOOLEAN /\ Sizing(move[c]) \in BOOLEAN
        BY DEF Setting, Sizing
    <2>3. /\ host'[c].addr = IF Setting(move[c]) THEN move[c].addr ELSE host[c].addr
          /\ host'[c].reqlen = IF Sizing(move[c]) THEN move[c].len ELSE host[c].reqlen
        BY <2>1
    <2>4. /\ (IF Setting(move[c]) THEN move[c].addr ELSE host[c].addr) \in Address
          /\ (IF Sizing(move[c]) THEN move[c].len ELSE host[c].reqlen) \in 0 .. MaxLen
        BY <1>3, <2>3, Zenon
    <2>. QED BY <2>1, <2>2, <2>4 DEF FromHost
<1>5. /\ host' = [c \in Channel |-> host'[c]] /\ asked' = [c \in Channel |-> asked'[c]]
      /\ want' = [c \in Channel |-> want'[c]]
    BY <1>2 DEF Hosts
<1>6. waiting' \in [Channel -> BOOLEAN]
    <2>1. ASSUME NEW c \in Channel
          PROVE  (move[c] = Ask \/ (waiting[c] /\ ~valid[c] /\ ~Setting(move[c]))) \in BOOLEAN
        OBVIOUS
    <2>. QED BY <1>2, <2>1, Zenon DEF Hosts
<1>. QED BY <1>3, <1>4, <1>5, <1>6

-----------------------------------------------------------------------------
(* The invariant.                                                          *)

\* All of them.
LEMMA DmaTypesStep ==
    ASSUME DmaStep
    PROVE  TypeOK'
BY EngineTypeStep, PortTypeStep, RamStep, RegisterTypeStep, CountTypeStep, HostTypeStep
   DEF TypeOK, DmaTypeOK

\* Requests, the registered FIFO ports, and the count of the burst asked for.
LEMMA HostRulesStep ==
    ASSUME DmaStep, NEW c \in Channel
    PROVE  HostRules(c)'
<1>1. (internals'[c].drain <=> valid'[c]) /\ (internals'[c].fill <=> Landed(c)')
    BY ChannelStep
<1>. QED BY <1>1, RequestStep, CountStep DEF HostRules

\* A tick preserves what the invariant says of each channel.
LEMMA ChannelInvStep ==
    ASSUME DmaStep, NEW c \in Channel
    PROVE  ChannelInv(c)'
BY HostRulesStep, SetStep, LenStep, RoomStep, AnswerStep, FreshStep, CountingStep, PointersStep,
   ContentStep
   DEF ChannelInv

\* The invariant holds at the start,
LEMMA DmaInvInit == Init => DmaInv
<1>. SUFFICES ASSUME Init PROVE DmaInv
    OBVIOUS
<1>. USE Sizes
<1>1. First(Channel) \in Channel
    BY FirstIn, DmaAssumption
<1>2. 0 \in Slot /\ 0 \in Address /\ 0 \in 0 .. MaxLen /\ 0 \in 0 .. 2 * Depth - 1 /\ 0 \in 0 .. 7
      /\ 0 \in -8 .. MaxLen /\ 0 \in -8 .. Depth + 8
    BY DEF Slot, Address
<1>3. TypeOK
    <2>1. internals \in [Channel -> Internal]
        <3>1. [addr |-> 0, count |-> 0, extend |-> FALSE, wrptr |-> 0, wrptr_next |-> 0, rdptr |-> 0,
               pending |-> FALSE, fill |-> FALSE, drain |-> FALSE] \in Internal
            BY <1>2 DEF Internal
        <3>. QED BY <3>1 DEF Init, DmaInit
    <2>2. host \in [Channel -> FromHost]
        BY <1>2 DEF Init, FromHost
    <2>3. ram \in [Channel -> [Slot -> Address]]
        BY <1>2 DEF Init, DmaInit
    <2>4. /\ cache_wraddr \in [chan : Channel, block : Slot, lsb : 0 .. 7]
          /\ cache_rdaddr \in [chan : Channel, slot : Slot]
        BY <1>1, <1>2 DEF Init, DmaInit
    <2>5. inputstate \in 0 .. 8 /\ activechannel \in Channel /\ sdram_req \in BOOLEAN
          /\ cache_wren \in BOOLEAN /\ data_from_ram \in Address
          /\ counter \in [Channel -> 0 .. 2 * Depth - 1] /\ valid \in [Channel -> BOOLEAN]
        <3>1. inputstate \in 0 .. 8 BY DEF Init, DmaInit, rd1
        <3>2. sdram_req \in BOOLEAN /\ cache_wren \in BOOLEAN /\ valid \in [Channel -> BOOLEAN]
            BY Zenon DEF Init, DmaInit
        <3>3. activechannel \in Channel /\ data_from_ram \in Address
              /\ counter \in [Channel -> 0 .. 2 * Depth - 1]
            BY <1>1, <1>2, Zenon DEF Init, DmaInit
        <3>. QED BY <3>1, <3>2, <3>3
    <2>6. /\ phase \in 0 .. 15 /\ rsp \in {"none", "ack", "nak"} /\ burst = NoBurst
          /\ asked \in [Channel -> 0 .. MaxLen] /\ waiting \in [Channel -> BOOLEAN]
          /\ want \in [Channel -> Address \union {NoWord}]
          /\ stock \in [Channel -> -8 .. Depth + 8]
        BY <1>2 DEF Init
    <2>. QED BY <2>1, <2>2, <2>3, <2>4, <2>5, <2>6 DEF TypeOK, DmaTypeOK
<1>4. Engine
    BY DEF Init, DmaInit, Engine, Granted, rd1
<1>5. ASSUME NEW c \in Channel PROVE ChannelInv(c)
    <2>1. /\ ~waiting[c] /\ ~host[c].req /\ ~host[c].setaddr /\ ~host[c].setreqlen
          /\ ~internals[c].pending /\ ~valid[c] /\ ~internals[c].drain /\ ~internals[c].fill /\ ~cache_wren
          /\ internals[c].count = 0 /\ counter[c] = 0 /\ stock[c] = 0 /\ asked[c] = 0
          /\ want[c] = NoWord /\ inputstate = rd1
        BY DEF Init, DmaInit
    <2>2. HostRules(c) /\ SetRules(c) /\ LenRules(c) /\ Answer(c)
        BY <2>1 DEF HostRules, SetRules, LenRules, Answer, Landed, Owner
    <2>3. Room(c) /\ Fresh(c)
        BY <2>1 DEF Room, Fresh, Landing, One, Missing, Owner
    <2>. QED BY <2>1, <2>2, <2>3 DEF ChannelInv, Set
<1>. QED BY <1>3, <1>4, <1>5 DEF DmaInv

\* every step preserves it,
LEMMA DmaInvStep ==
    ASSUME DmaInv, Eager = {}, Abrupt = {}, [Next]_vars
    PROVE  DmaInv'
<1>1. CASE Next
    <2>1. DmaStep
        BY <1>1 DEF Next, DmaStep, Ticks
    <2>. QED BY <2>1, DmaTypesStep, EngineKept, ChannelInvStep DEF DmaInv
<1>2. CASE UNCHANGED vars
    BY <1>2 DEF vars, dmaVars, portVars, hostVars, DmaInv, TypeOK, DmaTypeOK, Engine, Granted, Stage,
        ChannelInv, HostRules, SetRules, LenRules, Room, Answer, Fresh, Set, Counting, Pointers,
        Content, Owed, Landed, Owner, Coming, Arrived, Missing, Landing, Wants, Full
<1>. QED BY <1>1, <1>2

\* and so it always holds.
LEMMA DmaInvariant ==
    ASSUME Eager = {}, Abrupt = {}
    PROVE  Spec => []DmaInv
BY DmaInvInit, DmaInvStep, PTL DEF Spec

-----------------------------------------------------------------------------
(* Theorems.  Eager and Abrupt name hosts that break the rules the engine   *)
(* counts on; a run shows what becomes of them.                             *)

\* Registers, counters and the FIFOs' words stay in their ranges: no counter
\* of words still to fetch falls more than a burst below zero.
THEOREM DmaTypeCorrect ==
    ASSUME Eager = {}, Abrupt = {}
    PROVE  Spec => []TypeOK
<1>1. DmaInv => TypeOK
    BY DEF DmaInv
<1>. QED BY <1>1, DmaInvariant, PTL

\* Every word that is answered was asked for, and is the next of its transfer,
\* for any number of channels, any depth of their FIFOs and any transfers.
THEOREM AnswersInOrder ==
    ASSUME Eager = {}, Abrupt = {}
    PROVE  Spec => []AnsweredInOrder
<1>1. DmaInv => AnsweredInOrder
    BY DEF DmaInv, ChannelInv, HostRules, Answer, AnsweredInOrder, data_out
<1>. QED BY <1>1, DmaInvariant, PTL

\* A word is written only where none is unread, and read only once written.
THEOREM StockIsKept ==
    ASSUME Eager = {}, Abrupt = {}
    PROVE  Spec => []StockKept
<1>1. ASSUME DmaInv, NEW c \in Channel
      PROVE  (Landed(c) => stock[c] < Depth) /\ (Served(c) => stock[c] > 0)
    <2>1. /\ stock[c] \in Int /\ inputstate \in 0 .. 8 /\ ChannelInv(c)
        BY <1>1 DEF DmaInv, TypeOK, DmaTypeOK
    <2>2. Landed(c) => stock[c] < Depth
        <3>1. stock[c] + Landing(c) + Missing(c) <= Depth /\ (Landed(c) => Landing(c) = 1)
              /\ Missing(c) \in Nat /\ Landing(c) \in {0, 1}
            BY <2>1, Sizes DEF ChannelInv, Room, HostRules, Landing, One, Missing
        <3>. QED BY <2>1, <3>1, Sizes
    <2>3. Served(c) => internals[c].pending
        BY FirstIn DEF Served, Serviceable
    <2>. QED BY <2>1, <2>2, <2>3 DEF ChannelInv, HostRules
<1>2. DmaInv => StockKept
    BY <1>1 DEF StockKept
<1>. QED BY <1>2, DmaInvariant, PTL

-----------------------------------------------------------------------------
(* Transfers.                                                              *)

\* Whole bursts cover a length, and each counts for eight words of it.
LEMMA BurstsCover ==
    ASSUME NEW n \in Int
    PROVE  /\ InBursts(n) \in Nat /\ n <= InBursts(n) /\ (n <= 0 => InBursts(n) = 0)
           /\ InBursts(n) <= InBursts(n - 8) + 8
BY DEF InBursts

\* Words of a burst whose address the channel is already past.
Due(c) == IF Coming(c) THEN Missing(c) ELSE 0
ToCome(c) == Due(c) + InBursts(internals[c].count)
Asking(c) == asked[c] + One(host[c].req \/ internals[c].pending)

\* A tick takes from what is to come only what arrives.
LEMMA ComingStep ==
    ASSUME DmaStep, NEW c \in Channel, ~host[c].setaddr, ~host[c].setreqlen
    PROVE  /\ ToCome(c) \in Int /\ ToCome(c)' \in Int
           /\ ToCome(c) <= One(Filled(c)) + ToCome(c)'
<1>. USE EngineTypes
<1>1. PICK n, m \in Int : n = internals[c].count /\ m = internals'[c].count
    <2>1. internals[c].count \in Int BY ChannelTypes
    <2>2. internals'[c].count \in Int BY CountStep
    <2>. QED BY <2>1, <2>2
<1>2. m = n \/ (Advanced(c, ack) /\ m = n - 8)
    BY <1>1, RegisterStep DEF Remaining
<1>3. /\ InBursts(n) \in Nat /\ InBursts(m) \in Nat /\ InBursts(n) <= InBursts(n - 8) + 8
    BY <1>1, BurstsCover
<1>4. Due(c) \in Nat /\ Due(c)' \in Nat /\ One(Filled(c)) \in {0, 1}
    BY EngineTypeStep DEF Due, Coming, Missing, Owner, rd1, One
<1>5. CASE Advances(c)
    <2>1. Due(c) = 0 /\ Due(c)' = 8 /\ One(Filled(c)) = 0
        BY <1>5 DEF Advances, Due, Coming, Missing, One
    <2>. QED BY <1>1, <1>2, <1>3, <2>1 DEF ToCome
<1>6. CASE ~Advances(c)
    <2>1. m = n
        BY <1>2, <1>6, BurstSteps
           DEF BurstStep, OtherBurst, AsksBurst, AwaitsGrant, GetsGrant, AwaitsWord, GetsWord,
               GetsLast, Undisturbed
    <2>2. Due(c) <= One(Filled(c)) + Due(c)'
        <3>1. CASE OtherBurst(c) BY <1>4, <3>1 DEF OtherBurst, Due, Coming
        <3>2. CASE AsksBurst(c) BY <1>4, <3>2 DEF AsksBurst, Due, Coming
        <3>3. CASE AwaitsGrant(c) BY <1>4, <3>3 DEF AwaitsGrant, Due, Coming
        <3>4. CASE GetsGrant(c) BY <1>4, <3>4 DEF GetsGrant, Due, Coming
        <3>5. CASE AwaitsWord(c) BY <1>4, <3>5 DEF AwaitsWord, Due, Coming, Missing
        <3>6. CASE GetsWord(c) BY <3>6 DEF GetsWord, Due, Coming, Missing, One
        <3>7. CASE GetsLast(c) BY <1>4, <3>7 DEF GetsLast, Due, Coming, Missing, One
        <3>. QED BY <1>6, <3>1, <3>2, <3>3, <3>4, <3>5, <3>6, <3>7, BurstSteps DEF BurstStep
    <2>. QED BY <1>1, <1>3, <1>4, <2>1, <2>2 DEF ToCome
<1>. QED BY <1>5, <1>6

\* What a host has yet to be given goes down with each word read, once its
\* length is set.
LEMMA AskingStep ==
    ASSUME DmaStep, NEW c \in Channel, ~host'[c].setaddr, ~host'[c].setreqlen
    PROVE  /\ Asking(c)' \in Int /\ Asking(c) \in Int
           /\ ~host[c].setaddr => Asking(c)' = Asking(c) - One(Served(c))
           /\ host[c].setaddr \/ host[c].setreqlen =>
                  /\ Asking(c)' = asked[c] /\ ~Served(c)
                  /\ host[c].setaddr => ~host'[c].req
<1>. USE ChannelTypes, ChannelStep
<1>1. HostStep(c) /\ HostRules(c)
    BY HostSteps DEF ChannelInv
<1>2. internals'[c].pending <=> (internals[c].pending \/ host[c].req) /\ ~Served(c) /\ ~host[c].setaddr
    OBVIOUS
<1>3. asked[c] \in Int /\ asked'[c] \in Int
    <2>1. asked' \in [Channel -> 0 .. MaxLen] BY HostTypeStep
    <2>. QED BY <2>1
<1>4. Asking(c) \in Int /\ Asking(c)' \in Int
    BY <1>3 DEF Asking, One
<1>5. CASE host'[c].req
    <2>1. MayAsk(c) /\ asked'[c] = asked[c] - 1
        BY <1>1, <1>5 DEF HostStep
    <2>2. ~host[c].setaddr /\ ~host[c].req /\ ~internals[c].pending
        BY <1>1, <2>1 DEF MayAsk, Ready, HostRules, DmaStep, Ticks
    <2>3. ~Served(c)
        BY <2>2
    <2>4. Asking(c)' = asked[c] /\ Asking(c) = asked[c]
        BY <1>3, <1>5, <2>1, <2>2 DEF Asking, One
    <2>. QED BY <1>3, <1>4, <2>2, <2>3, <2>4 DEF One
<1>6. CASE ~host'[c].req
    <2>1. asked'[c] = asked[c]
        BY <1>1, <1>6 DEF HostStep, Sized
    <2>2. Asking(c)' = asked[c] + One(internals'[c].pending)
        BY <1>6, <2>1 DEF Asking, One
    <2>3. CASE host[c].setaddr \/ host[c].setreqlen
        <3>1. ~waiting[c] BY <2>3 DEF ChannelInv, SetRules, LenRules
        <3>2. ~Served(c) /\ ~internals'[c].pending /\ ~host[c].req /\ ~internals[c].pending
            BY <3>1, Calm
        <3>3. Asking(c)' = asked[c] /\ Asking(c) = asked[c]
            BY <1>3, <2>2, <3>2 DEF One, Asking
        <3>. QED BY <1>3, <1>4, <1>6, <3>2, <3>3 DEF One
    <2>4. CASE ~host[c].setaddr /\ ~host[c].setreqlen
        <3>1. CASE Served(c)
            <4>1. internals[c].pending /\ ~internals'[c].pending BY <1>2, <3>1
            <4>. QED BY <1>3, <1>4, <2>2, <2>4, <3>1, <4>1 DEF Asking, One
        <3>2. CASE ~Served(c)
            <4>1. internals'[c].pending <=> (host[c].req \/ internals[c].pending) BY <1>2, <2>4, <3>2
            <4>. QED BY <1>3, <1>4, <2>2, <2>4, <3>2, <4>1 DEF Asking, One
        <3>. QED BY <3>1, <3>2
    <2>. QED BY <2>3, <2>4
<1>. QED BY <1>5, <1>6

\* A tick preserves that what is stocked and to come covers what is asked for.
LEMMA CoverStep ==
    ASSUME DmaStep, WholeTransfers, CoverInv, NEW c \in Channel
    PROVE  Covered(c)'
<1>. USE ChannelTypes
<1>1. Covered(c)
    BY DEF CoverInv
<1>2. PICK n, m \in Int, l, f, s \in {0, 1} :
          /\ n = stock[c] /\ m = stock'[c] /\ l = One(Landed(c)) /\ s = One(Served(c))
          /\ f = Landing(c)' /\ f = One(Filled(c)) /\ l = Landing(c)
          /\ s = 1 => n > 0
          /\ ~host[c].setaddr => m = n + l - s
    <2>1. stock[c] \in Int /\ stock'[c] \in Int
        <3>1. stock' \in [Channel -> -8 .. Depth + 8] BY CountTypeStep
        <3>. QED BY <3>1, Sizes
    <2>2. One(Landed(c)) \in {0, 1} /\ One(Served(c)) \in {0, 1} /\ One(Filled(c)) \in {0, 1}
        BY DEF One
    <2>3. Landing(c)' = One(Filled(c)) /\ Landing(c) = One(Landed(c))
        BY ChannelStep DEF Landing, One, ChannelInv, HostRules
    <2>4. One(Served(c)) = 1 => stock[c] > 0
        BY ChannelStep DEF One, ChannelInv, HostRules
    <2>5. ~host[c].setaddr => stock'[c] = stock[c] + One(Landed(c)) - One(Served(c))
        BY ChannelStep
    <2>. QED BY <2>1, <2>2, <2>3, <2>4, <2>5
<1>3. c \in Video => m >= 0
    <2>1. CASE host[c].setaddr /\ c \in Video
        <3>1. host[c].addr % 8 = 0
            BY <2>1 DEF ChannelInv, SetRules, WholeTransfers
        <3>. QED BY <1>2, <2>1, <3>1, AtSet
    <2>2. CASE ~host[c].setaddr /\ c \in Video
        BY <1>1, <1>2, <2>2 DEF Covered
    <2>. QED BY <2>1, <2>2
<1>4. PICK t, u \in Int : t = ToCome(c)' /\ u = Due(c)' /\ u >= 0
              /\ t = u + InBursts(internals'[c].count)
    <2>1. Due(c)' \in Nat
        BY EngineTypeStep DEF Due, Coming, Missing, Owner, rd1
    <2>2. InBursts(internals'[c].count) \in Nat
        <3>1. internals'[c].count \in Int BY CountStep
        <3>. QED BY <3>1, BurstsCover
    <2>. QED BY <2>1, <2>2 DEF ToCome
<1>5. ASSUME ~host'[c].setaddr, ~host'[c].setreqlen
      PROVE  Asking(c)' <= m + f + t
    <2>1. internals'[c].count = Remaining(c, host[c], ack)
        BY RegisterStep
    <2>2. CASE host[c].setreqlen
        <3>1. /\ Asking(c)' = host[c].reqlen /\ host[c].reqlen \in Lengths[c]
              /\ host[c].reqlen \in Nat /\ ~Served(c)
            BY <1>5, <2>2, AskingStep DEF ChannelInv, LenRules
        <3>2. internals'[c].count = host[c].reqlen
            BY <2>1, <2>2 DEF Remaining
        <3>3. PICK b \in Nat : b = InBursts(host[c].reqlen) /\ host[c].reqlen <= b
            BY <3>1, BurstsCover
        <3>4. CASE c \in Video
            BY <1>2, <1>3, <1>4, <3>1, <3>2, <3>3, <3>4
        <3>5. CASE c \notin Video
            <4>1. host[c].setaddr /\ host[c].addr \in Starts[c]
                BY <2>2, <3>5 DEF ChannelInv, SetRules, LenRules
            <4>2. (host[c].addr % 8) + host[c].reqlen <= b
                BY <3>1, <3>3, <3>5, <4>1 DEF WholeTransfers
            <4>3. PICK before \in 0 .. 7 : before = host[c].addr % 8 /\ m = -before
                BY <1>2, <4>1, AtSet
            <4>. QED BY <1>2, <1>4, <3>1, <3>2, <3>3, <4>2, <4>3
        <3>. QED BY <3>4, <3>5
    <2>3. CASE ~host[c].setreqlen /\ host[c].setaddr
        <3>1. c \in Video /\ asked[c] = 0
            BY <2>3 DEF ChannelInv, SetRules
        <3>2. Asking(c)' = 0
            BY <1>5, <2>3, <3>1, AskingStep
        <3>3. internals'[c].count = 0 /\ InBursts(0) = 0
            BY <2>1, <2>3 DEF Remaining, InBursts
        <3>. QED BY <1>2, <1>3, <1>4, <3>1, <3>2, <3>3
    <2>4. CASE ~host[c].setreqlen /\ ~host[c].setaddr
        <3>1. PICK a, v \in Int : a = Asking(c) /\ v = ToCome(c) /\ Asking(c)' = a - s /\ v <= f + t
            BY <1>2, <1>4, <1>5, <2>4, AskingStep, ComingStep
        <3>2. a <= n + l + v
            <4>1. PICK d \in Int, b \in Int : d = Due(c) /\ b = InBursts(internals[c].count)
                <5>1. Due(c) \in Int BY EngineTypes DEF Due, Coming, Missing, Owner
                <5>. QED BY <5>1, BurstsCover
            <4>2. a <= n + l + d + b
                BY <1>1, <1>2, <2>4, <3>1, <4>1 DEF Covered, Asking, Due
            <4>3. v = d + b BY <3>1, <4>1 DEF ToCome
            <4>. QED BY <1>2, <3>1, <4>1, <4>2, <4>3
        <3>. QED BY <1>2, <1>4, <2>4, <3>1, <3>2
    <2>. QED BY <2>2, <2>3, <2>4
<1>6. ASSUME ~host'[c].setaddr, ~host'[c].setreqlen
      PROVE  Asking(c)' <= m + f + u + InBursts(internals'[c].count)
    <2>1. InBursts(internals'[c].count) \in Int
        <3>1. internals'[c].count \in Int BY CountStep
        <3>. QED BY <3>1, BurstsCover
    <2>. QED BY <1>2, <1>4, <1>5, <1>6, <2>1, AskingStep
<1>. QED BY <1>2, <1>3, <1>4, <1>6 DEF Covered, Asking, Due

\* Stock and bursts to come always cover what hosts have still to ask for.
LEMMA CoverInvariant ==
    ASSUME Eager = {}, Abrupt = {}, WholeTransfers
    PROVE  Spec => [](DmaInv /\ CoverInv)
<1>1. Init => CoverInv
    <2>1. InBursts(0) = 0 BY DEF InBursts
    <2>2. ASSUME Init, NEW c \in Channel PROVE Covered(c)
        <3>1. /\ asked[c] = 0 /\ stock[c] = 0 /\ ~host[c].req /\ ~internals[c].pending
              /\ ~internals[c].fill /\ internals[c].count = 0 /\ inputstate = rd1
            BY <2>2 DEF Init, DmaInit
        <3>. QED BY <2>1, <3>1 DEF Covered, One, Landing, Coming, Owner
    <2>. QED BY <2>2 DEF CoverInv
<1>2. DmaInv /\ CoverInv /\ [Next]_vars => CoverInv'
    <2>. SUFFICES ASSUME DmaInv, CoverInv, [Next]_vars PROVE CoverInv'
        OBVIOUS
    <2>1. CASE Next
        <3>1. DmaStep
            BY <2>1 DEF Next, DmaStep, Ticks
        <3>. QED BY <3>1, CoverStep DEF CoverInv
    <2>2. CASE UNCHANGED vars
        BY <2>2 DEF vars, dmaVars, portVars, hostVars, CoverInv, Covered, Coming, Owner, Granted,
            Missing, Landing
    <2>. QED BY <2>1, <2>2
<1>. QED BY <1>1, <1>2, DmaInvariant, PTL DEF Spec

\* When a transfer's last burst has arrived, every word its host has still to
\* ask for is there, if the bursts of each length cover the words from inside
\* its first line.
THEOREM TransfersCovered ==
    ASSUME Eager = {}, Abrupt = {}, WholeTransfers
    PROVE  Spec => []TransferCovered
<1>1. ASSUME DmaInv, CoverInv, NEW c \in Channel,
             internals[c].count <= 0, ~(activechannel = c /\ inputstate # rd1),
             ~cache_wren, ~host[c].setaddr, ~host[c].setreqlen
      PROVE  asked[c] <= stock[c]
    <2>1. /\ asked[c] \in Int /\ stock[c] \in Int /\ internals[c] \in Internal
          /\ Covered(c) /\ HostRules(c)
        BY <1>1 DEF DmaInv, TypeOK, DmaTypeOK, ChannelInv, CoverInv
    <2>2. internals[c].count \in Int
        BY <2>1 DEF Internal
    <2>3. InBursts(internals[c].count) = 0
        BY <1>1, <2>2, BurstsCover
    <2>4. Landing(c) = 0 /\ ~Coming(c)
        BY <1>1, <2>1 DEF Landing, One, HostRules, Landed, Coming, Owner
    <2>5. One(host[c].req \/ internals[c].pending) \in {0, 1}
        BY DEF One
    <2>. QED BY <1>1, <2>1, <2>3, <2>4, <2>5 DEF Covered
<1>2. DmaInv /\ CoverInv => TransferCovered
    BY <1>1 DEF TransferCovered
<1>. QED BY <1>2, CoverInvariant, PTL

=============================================================================
