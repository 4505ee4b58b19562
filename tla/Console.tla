------------------------------- MODULE Console -------------------------------
(***************************************************************************)
(* The keyboard and the screen as Apps/Demo/main.c puts them together: the *)
(* vertical blank interrupt decodes what is in the PS/2 ring and echoes    *)
(* it; the main program writes messages and tests single keys, and may be  *)
(* interrupted at any point where interrupts are not disabled.  Sending    *)
(* the lights enables them in the middle of the handler.                   *)
(***************************************************************************)
EXTENDS Keyboard, TextBuffer

CONSTANTS
    Keys,         \* <<with prefix, code>>: the keys somebody presses
    TestKeys,     \* codes the main program tests
    Messages,     \* what the main program writes
    MaxPresses    \* bound on presses and repeats

\* No key has shift's code behind a prefix: keyboard.c would take it for shift.
ASSUME ConsoleAssumption ==
    /\ Keys \subseteq BOOLEAN \X (Codes \ {Ack}) /\ <<TRUE, "shift">> \notin Keys
    /\ TestKeys \subseteq Codes
    /\ MaxPresses \in Nat

VARIABLES
    held, sending, presses,   \* keyboard: keys down, codes not yet sent
    capsOn,                   \* keyboard: caps lock, as its user sees it
    ring,                     \* input ring of ps2.c
    kb,                       \* keyboard.c
    handlers,                 \* vblank_int: those running, the last begun first
    text,                     \* textbuffer.c
    main,                     \* main program: what it does, with its registers
    terminal,                 \* history: a terminal given all that was written
    echoed,                   \* history: characters written by the handler
    expected,                 \* history: characters due from the keys
    unseen,                   \* history: keys pressed since last found pressed
    prefixed,                 \* history: a key with a prefix was used
    mixed                     \* history: an echo fell into a message

keyboardVars == <<held, sending, presses, capsOn, expected, prefixed>>
outputs == <<terminal, echoed>>
consoleVars == <<keyboardVars, ring, kb, handlers, text, main, outputs, unseen, mixed>>

Loop == [pc |-> "loop"]

ConsoleInit ==
    /\ held = {} /\ sending = <<>> /\ presses = 0 /\ capsOn = FALSE
    /\ ring = <<>> /\ kb = KeysInit /\ handlers = <<>>
    /\ text = Cleared
    /\ \E m \in Messages : main = [pc |-> "write", msg |-> m, p |-> toaddr(0, 0)]
    /\ terminal = NothingTyped /\ echoed = <<>> /\ expected = <<>> /\ unseen = {}
    /\ prefixed = FALSE /\ mixed = FALSE

-----------------------------------------------------------------------------
(* The keyboard, external.                                                 *)

Make(k) == IF k[1] THEN <<Ext, k[2]>> ELSE <<k[2]>>
Break(k) == IF k[1] THEN <<Ext, KeyUp, k[2]>> ELSE <<KeyUp, k[2]>>

\* The characters are those the keyboard's own shift and caps lock ask for.
Due(k) ==
    LET upper == capsOn \/ <<FALSE, "shift">> \in held
        c == kblookup[k[2]][IF upper THEN 2 ELSE 1]
    IN  IF c = NoChar THEN <<>> ELSE <<c>>

\* A press, or a repeat of a key held.
Press(k) ==
    /\ sending = <<>> /\ presses < MaxPresses
    /\ presses' = presses + 1 /\ held' = held \union {k} /\ sending' = Make(k)
    /\ expected' = expected \o Due(k)
    /\ capsOn' = IF k[2] = "caps" THEN ~capsOn ELSE capsOn
    /\ prefixed' = (prefixed \/ k[1])
    /\ UNCHANGED <<ring, kb, handlers, text, main, outputs, unseen, mixed>>
Release(k) ==
    /\ sending = <<>> /\ k \in held
    /\ held' = held \ {k} /\ sending' = Break(k)
    /\ UNCHANGED <<presses, capsOn, expected, prefixed, ring, kb, handlers, text, main, outputs, unseen, mixed>>
Send ==
    /\ sending # <<>>
    /\ ring' = Append(ring, Head(sending)) /\ sending' = Tail(sending)
    /\ UNCHANGED <<held, presses, capsOn, expected, prefixed, kb, handlers, text, main, outputs, unseen, mixed>>

-----------------------------------------------------------------------------
(* vblank_int                                                              *)

\* DisableInterrupts in TestKey.
\* Mutants: it is left out; EnableInterrupts is.
Disabled_never == FALSE
Disabled_ever == main.pc # "write"
Disabled == main.pc = "test"

Runs == handlers # <<>>
Doing(what) == Runs /\ Head(handlers).does = what
Now(handler) == <<handler>> \o Tail(handlers)

\* The handler starts, or, while lights are sent, starts again within itself.
VBlank ==
    /\ (~Runs /\ ~Disabled) \/ Doing("lights")
    /\ ring # <<>>
    /\ handlers' = <<[does |-> "codes", updateleds |-> FALSE]>> \o handlers
    /\ UNCHANGED <<keyboardVars, ring, kb, text, main, outputs, unseen, mixed>>

\* HandlePS2RawCodes returns a character, and is called again, with a new
\* updateleds, after it was echoed.
Code ==
    /\ Doing("codes") /\ ring # <<>>
    /\ LET code == Head(ring)
           c == Echo(kb, code)
       IN  /\ ring' = Tail(ring) /\ kb' = Decoded(kb, code)
           /\ unseen' = IF code \in Codes /\ ~kb.keyup THEN unseen \union {code} ELSE unseen
           /\ handlers' = Now([Head(handlers) EXCEPT !.updateleds =
                                c = NoChar /\ (@ \/ (code = "caps" /\ ~kb.keyup))])
           /\ IF c = NoChar THEN UNCHANGED <<text, outputs, mixed>>
              ELSE /\ text' = Put(text, toaddr(text.row, text.col), c).text
                   /\ terminal' = Typed(terminal, c) /\ echoed' = Append(echoed, c)
                   /\ mixed' = (mixed \/ main.pc = "write")
    /\ UNCHANGED <<keyboardVars, main>>

\* Without lights to send the handler returns; else it writes 0xED and then
\* their state.  The keyboard acknowledges each once it has sent what it is at.
HandlerEnds ==
    /\ Doing("codes") /\ ring = <<>>
    /\ \/ ~Head(handlers).updateleds /\ handlers' = Tail(handlers) /\ sending' = sending
       \/ /\ Head(handlers).updateleds
          /\ handlers' = Now([Head(handlers) EXCEPT !.does = "lights"])
          /\ sending' = Append(sending, Ack)
    /\ UNCHANGED <<held, presses, capsOn, expected, prefixed, ring, kb, text, main, outputs, unseen, mixed>>
LightsSent ==
    /\ Doing("lights")
    /\ handlers' = Tail(handlers) /\ sending' = Append(sending, Ack)
    /\ UNCHANGED <<held, presses, capsOn, expected, prefixed, ring, kb, text, main, outputs, unseen, mixed>>

-----------------------------------------------------------------------------
(* The main program, while no handler runs.                                *)

\* charbuffer_write looks up its pointer once for a message.  It can be
\* interrupted within a character, too; no property looks at the text then.
WriteOne ==
    /\ ~Runs /\ main.pc = "write" /\ main.msg # <<>>
    /\ LET w == Put(text, main.p, Head(main.msg))
       IN  /\ text' = w.text
           /\ main' = [main EXCEPT !.msg = Tail(@), !.p = w.p]
    /\ terminal' = Typed(terminal, Head(main.msg))
    /\ UNCHANGED <<keyboardVars, ring, kb, handlers, echoed, unseen, mixed>>
Written ==
    /\ ~Runs /\ main.pc = "write" /\ main.msg = <<>>
    /\ main' = Loop
    /\ UNCHANGED <<keyboardVars, ring, kb, handlers, text, outputs, unseen, mixed>>

\* TestKey: the entry is read, then its second bit cleared.
Test(code) ==
    /\ ~Runs /\ main = Loop
    /\ main' = [pc |-> "test", code |-> code, result |-> kb.table[keyidx(FALSE, code)]]
    /\ UNCHANGED <<keyboardVars, ring, kb, handlers, text, outputs, unseen, mixed>>
Tested ==
    /\ ~Runs /\ main.pc = "test"
    /\ kb' = [kb EXCEPT !.table[keyidx(FALSE, main.code)].since = FALSE]
    /\ unseen' = IF main.result.down \/ main.result.since THEN unseen \ {main.code} ELSE unseen
    /\ main' = Loop
    /\ UNCHANGED <<keyboardVars, ring, handlers, text, outputs, mixed>>

Works == Send \/ VBlank \/ Code \/ HandlerEnds \/ LightsSent \/ WriteOne \/ Written \/ Tested
ConsoleNext ==
    \/ \E k \in Keys : Press(k) \/ Release(k)
    \/ \E code \in TestKeys : Test(code)
    \/ Works

\* The blank's interrupt stays on record while interrupts are disabled.
ConsoleSpec ==
    /\ ConsoleInit /\ [][ConsoleNext]_consoleVars
    /\ WF_consoleVars(Send) /\ SF_consoleVars(VBlank) /\ WF_consoleVars(Code) /\ WF_consoleVars(HandlerEnds)
    /\ WF_consoleVars(LightsSent)
    /\ WF_consoleVars(WriteOne) /\ WF_consoleVars(Written) /\ WF_consoleVars(Tested)

-----------------------------------------------------------------------------
ConsoleTypeOK ==
    /\ held \subseteq Keys /\ presses \in 0 .. MaxPresses
    /\ sending \in Seq(Codes \union {Ext, KeyUp}) /\ ring \in Seq(Codes \union {Ext, KeyUp})
    /\ kb.table \in [Entries -> [down : BOOLEAN, since : BOOLEAN]]
    /\ ~mixed => text.row \in 0 .. Rows - 1 /\ text.col \in 0 .. Cols - 1 /\ DOMAIN text.mem = Cell
    /\ main.pc \in {"write", "loop", "test"} /\ unseen \subseteq Codes

\* The screen shows the last lines of all that was written, by program and
\* echo, and the row below it stays blank: it is what scrolling moves in.  So
\* it is as long as nothing is echoed in the middle of a message: there the
\* program goes on with the pointer it had.
ScreenShows ==
    ~mixed =>
    /\ Shows(text, terminal.lines)
    /\ \A k \in 0 .. Cols - 1 : text.mem[toaddr(Rows, k)] = Nothing

\* A key pressed since it was last found pressed is never reported untouched,
\* wherever the interrupt falls: no press is missed between two tests.
PressNoticed ==
    main.pc = "test" /\ ~main.result.down /\ ~main.result.since /\ ~prefixed =>
        main.code \notin unseen

Quiet == sending = <<>> /\ ring = <<>> /\ ~Runs /\ main.pc # "write"

\* Once all codes are decoded the table has down the keys that are held, as
\* long as no key with a prefix was used: all but the one whose entry the
\* keyboard's acknowledge falls in, which goes down with it and stays so.
HeldKeysDown ==
    Quiet /\ ~prefixed =>
        \A i \in Entries \ {Number[Ack]} :
            kb.table[i].down <=> \E k \in held : keyidx(k[1], k[2]) = i

\* Every character typed is echoed once, in the order of the keys, and in the
\* case the keyboard was in when the key went down.
Typewritten ==
    IsPrefix(echoed, expected) /\ (Quiet => echoed = expected)

\* What is in the ring is decoded in the end, however often keys are tested.
RingDrained == ring # <<>> ~> Quiet
=============================================================================
