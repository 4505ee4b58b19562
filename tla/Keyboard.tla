------------------------------- MODULE Keyboard -------------------------------
(***************************************************************************)
(* Firmware_Common/keyboard.c: the decoder of the codes a PS/2 keyboard    *)
(* sends.  A code of the model is a key's scan code; the arrow keys and    *)
(* their like share the codes of others and are told apart by a prefix.    *)
(***************************************************************************)
EXTENDS Naturals, Sequences

CONSTANTS
    Codes,     \* scan codes, with "shift", "caps" and the acknowledge
    Number,    \* [Codes -> their numbers]
    kblookup   \* [Codes -> <<character, character with shift or caps>>]

NoChar == ""
Ext == "E0"
KeyUp == "F0"
Ack == "FA"

ASSUME KeyboardAssumption ==
    /\ {Ext, KeyUp} \intersect Codes = {} /\ Ack \in Codes
    /\ DOMAIN kblookup = Codes /\ Number \in [Codes -> 0 .. 255] /\ Number[Ack] = 250
    /\ \A c, d \in Codes : Number[c] = Number[d] => c = d
    /\ \A c \in Codes : Number[c] > 127 \/ c \in {"shift", "caps"} => kblookup[c] = <<NoChar, NoChar>>

\* A code above 127 has the entry of a key with a prefix, or, after a prefix,
\* none: it falls behind the table.
keyidx(ext, code) == IF ext THEN 128 + Number[code] ELSE Number[code]
Entries == {keyidx(ext, code) : ext \in BOOLEAN, code \in Codes} \intersect 0 .. 255

\* Entries of keytable: bit 0, pressed now, and bit 1, pressed since tested.
Untouched == [down |-> FALSE, since |-> FALSE]

\* The static variables, and the table.
KeysInit ==
    [keyup |-> FALSE, extkey |-> FALSE, shift |-> FALSE, caps |-> FALSE,
     table |-> [i \in Entries |-> Untouched]]

Character(kb, code) == kblookup[code][IF kb.shift \/ kb.caps THEN 2 ELSE 1]

\* Mutant: a released key stays down.
AfterRelease_down(entry) == [entry EXCEPT !.down = TRUE]
AfterRelease(entry) == [entry EXCEPT !.down = FALSE]
Marked(kb, code) ==
    [i \in Entries |->
        IF i # keyidx(kb.extkey, code) THEN kb.table[i]
        ELSE IF kb.keyup THEN AfterRelease(kb.table[i]) ELSE [down |-> TRUE, since |-> TRUE]]

\* A prefix is remembered.
Prefix(kb, code) ==
    IF code = KeyUp THEN [kb EXCEPT !.keyup = TRUE] ELSE [kb EXCEPT !.extkey = TRUE]

\* A key that goes down and is no character uses up extkey; one that is a
\* character does not, nor one that goes up.
Pressed(kb, code) ==
    IF Character(kb, code) # NoChar THEN [kb EXCEPT !.table = Marked(kb, code)]
    ELSE [kb EXCEPT !.table = Marked(kb, code), !.extkey = FALSE,
                    !.caps = IF code = "caps" THEN ~@ ELSE @,
                    !.shift = IF code = "shift" THEN TRUE ELSE @]
Released(kb, code) ==
    [kb EXCEPT !.table = Marked(kb, code), !.keyup = FALSE,
               !.shift = IF code = "shift" THEN FALSE ELSE @]

\* One code taken from the ring, and the character returned for it.
\* Mutant: releasing a key types it once more.
Typing_again(kb, code) == code \in Codes
Typing(kb, code) == code \in Codes /\ ~kb.keyup
Decoded(kb, code) ==
    IF code \in {Ext, KeyUp} THEN Prefix(kb, code)
    ELSE IF kb.keyup THEN Released(kb, code) ELSE Pressed(kb, code)
Echo(kb, code) == IF Typing(kb, code) THEN Character(kb, code) ELSE NoChar
=============================================================================
