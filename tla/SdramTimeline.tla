---------------------------- MODULE SdramTimeline ----------------------------
(***************************************************************************)
(* The inductive invariant behind the properties of the controller: how    *)
(* far the access in each slot has got is a function of its age, the       *)
(* number of clocks since the phase that granted it.  Schedule says so of  *)
(* commands and banks, DataOnTime of strobes, words and the write cache.   *)
(***************************************************************************)
EXTENDS SdramController

Since(first) == IF sdram_state >= first THEN sdram_state - first ELSE sdram_state + 16 - first
Age1 == Since(3)
Age2 == Since(11)

Reader == {"port0", "port1"}

\* The command an access of age a has on the pins for its own bank.
CommandAt(port, a) ==
    CASE port \in Owned /\ a = 0 -> "ACT"
      [] port \in Reader /\ a = 3 -> "READ"
      [] port = "writecache" /\ a = 7 -> "WRITE"
      [] port = "writecache" /\ a = 10 -> "PRE"
      [] OTHER -> "NOP"

\* The state k of its bank.
Opening(k, a) == k.st = "open" /\ k.t = IF TRCD > a THEN TRCD - a ELSE 0
AtStage(k, port, a) ==
    IF port \in Reader
    THEN CASE a \in 1 .. 3 -> Opening(k, a)
           [] a \in 4 .. 11 + TRP -> k.st = "reading" /\ k.t = 12 + TRP - a
           [] OTHER -> k.st = "idle"
    ELSE CASE a \in 1 .. 7 -> Opening(k, a)
           [] a \in 8 .. 10 -> k.st = "writing" /\ k.t = a - 7
           [] a \in 11 .. 10 + TRP -> k.st = "closing" /\ k.t = 11 + TRP - a
           [] OTHER -> k.st = "idle"

\* One slot: its bank is where its age says, its command is on the pins, and
\* the column latch still holds its target when the CAS command needs it.
OnTime(port, b, a, k, latch, c, d) ==
    port \in Owned =>
        /\ AtStage(k, port, a)
        /\ a \in 0 .. 7 => BankOf[latch.line] = b
        /\ a \in 1 .. 7 => k.line = latch.line
        /\ CommandAt(port, a) # "NOP" =>
             /\ c.op = CommandAt(port, a) /\ c.ba = b
             /\ c.op \in {"ACT", "READ", "WRITE"} => c.line = latch.line
        /\ port = "writecache" =>
             /\ a \in 7 .. 8 => d.drive
             /\ a = 9 => d.dqm = Lane
SlotOnTime(port, b, a) == OnTime(port, b, a, bank[b], casaddr, cmd, dq)

\* Nothing is on the pins that no slot put there.
PinsAccounted ==
    /\ cmd.op # "NOP" =>
         \/ cmd.op = "REF" /\ slot1 = "refresh" /\ Age1 = 0
         \/ cmd.op = CommandAt(slot1, Age1) /\ cmd.ba = slot1_bank
         \/ cmd.op = CommandAt(slot2, Age2) /\ cmd.ba = slot2_bank
    /\ dq.drive =>
         \/ slot1 = "writecache" /\ Age1 \in 7 .. 8
         \/ slot2 = "writecache" /\ Age2 \in 7 .. 8

Active(b) == (slot1 \in Owned /\ slot1_bank = b) \/ (slot2 \in Owned /\ slot2_bank = b)

\* Start-up: the only banks not idle are those PRECHARGE ALL has just closed.
StartUp ==
    /\ slot1 = "refresh" /\ slot2 = "idle"
    /\ ~dq.drive
    /\ cmd.op \in {"NOP", "PREALL", "REF", "LMR"}
    /\ cmd.op # "NOP" => sdram_state = 3
    /\ \A b \in Bank :
         \/ bank[b].st = "idle"
         \/ /\ bank[b].st = "closing"
            /\ sdram_state \in 4 .. 6 /\ bank[b].t = TRP + 4 - sdram_state

Running ==
    /\ slot1 \in Owned /\ slot2 \in Owned => slot1_bank # slot2_bank
    /\ slot1 = "refresh" => slot2 = "idle"
    /\ SlotOnTime(slot1, slot1_bank, Age1)
    /\ SlotOnTime(slot2, slot2_bank, Age2)
    /\ PinsAccounted
    /\ \A b \in Bank : ~Active(b) => bank[b].st = "idle"

\* The strobes of a slot come with its ages 7 to 14, from the second round on.
Strobes ==
    /\ slot1_fill => sdram_state \in (10 .. 15) \union {0, 1}
    /\ sdram_state \in 10 .. 15 \/ (sdram_state \in {0, 1} /\ initstate # 0) => slot1_fill
    /\ slot2_fill <=> sdram_state \in 2 .. 9
    /\ init_done => initstate = 15

\* One slot that reads: the column goes out with the CAS command, and the data
\* register holds, with every strobe, the word of the row whose turn it is.
Beat(k, a) == (k.col + (a - 7)) % 8
FetchOnTime(port, b, a) ==
    port \in Reader =>
        /\ a = 3 => cmd.col = casaddr.col
        /\ a \in 7 .. 14 =>
             /\ BankOf[bank[b].line] = b
             /\ sdata_reg = [valid |-> TRUE, line |-> bank[b].line, col |-> Beat(bank[b], a),
                             data |-> Content(bank[b].line, Beat(bank[b], a))]

\* One slot that writes: the pair it was opened for is the one the write cache
\* holds until its two words are out; the first is in the device when the
\* second is on the pins.
FirstOf(pair) == 2 * pair
PostOnTime(port, b, a) ==
    port = "writecache" =>
        /\ a \in 0 .. 7 => casaddr = [line |-> wc_addr.line, col |-> FirstOf(wc_addr.pair)]
        /\ a = 7 => cmd.col = casaddr.col /\ dq = Drive(0)
        /\ a = 8 =>
             /\ bank[b].line = wc_addr.line /\ bank[b].col = FirstOf(wc_addr.pair)
             /\ BankOf[wc_addr.line] = b
             /\ dq = Drive(1)
             /\ FirstOf(wc_addr.pair) \in Word =>
                  \A lane \in Lane \ wc_dqm[0] :
                     ram[wc_addr.line][FirstOf(wc_addr.pair)][lane] = wc_word[0][lane]

\* The write cache is shut while its pair is sent, and is empty or asks for a
\* slot when it is not.
Writing(ages) == (slot1 = "writecache" /\ Age1 \in ages) \/ (slot2 = "writecache" /\ Age2 \in ages)
Posted ==
    /\ slot1 = "writecache" => slot2 # "writecache"
    /\ wc_burst <=> Writing(5 .. 7)
    /\ wc_state = "fill" <=> Writing(6 .. 8)
    /\ wc_req <=> wc_dirty /\ wc_state = "waitwrite"
    /\ Writing(0 .. 8) => wc_dirty
    /\ ~wc_dirty => wc_dqm = [h \in 0 .. 1 |-> Lane]

DataOnTime ==
    /\ Strobes
    /\ Posted
    /\ FetchOnTime(slot1, slot1_bank, Age1) /\ FetchOnTime(slot2, slot2_bank, Age2)
    /\ PostOnTime(slot1, slot1_bank, Age1) /\ PostOnTime(slot2, slot2_bank, Age2)

Schedule == IF init_done THEN Running ELSE StartUp

\* Every access is on schedule: bank states, command pins, latched column and
\* data are the ones its phase calls for, and the two slots never share a bank
\* (phases 2 and 10 of the state machine).
Timeline == Schedule /\ DataOnTime

=============================================================================
