------------------------------ MODULE TextBuffer ------------------------------
(***************************************************************************)
(* Firmware_Common/textbuffer.c.  The character buffer is memory, with one *)
(* row more than is shown: scroll copies that row up too, and clears it.   *)
(***************************************************************************)
EXTENDS Integers, SequencesExt

CONSTANTS Rows, Cols    \* text_rows and text_cols, 25 and 76

ASSUME TextAssumption == Rows \in Nat \ {0} /\ Cols \in Nat \ {0, 1}

Nothing == "none"
Cell == 0 .. (Rows + 1) * Cols - 1
toaddr(row, col) == Cols * row + col

\* ClearTextBuffer.
Cleared == [mem |-> [i \in Cell |-> Nothing], row |-> 0, col |-> 0]

Scrolled(mem) == [i \in Cell |-> IF i + Cols \in Cell THEN mem[i + Cols] ELSE Nothing]

\* Mutant: one row too late.
Full_late(row) == row > Rows
Full(row) == row >= Rows
ScrollIfFull(t, p) ==
    IF Full(t.row)
    THEN [text |-> [mem |-> Scrolled(t.mem), row |-> Rows - 1, col |-> 0], p |-> toaddr(Rows - 1, 0)]
    ELSE [text |-> t, p |-> p]

Backspace(t, p) ==
    [text |-> [t EXCEPT !.mem = [@ EXCEPT ![p - 1] = " "], !.col = @ - 1], p |-> p - 1]
Newline(t) ==
    ScrollIfFull([t EXCEPT !.row = @ + 1, !.col = 0], toaddr(t.row + 1, 0))
\* Mutant: the last column is left empty.
AtEnd_early(col) == col + 2 = Cols
AtEnd(col) == col + 1 = Cols
Glyph(t, p, c) ==
    LET written == [t EXCEPT !.mem = [@ EXCEPT ![p] = c]]
    IN  ScrollIfFull(IF AtEnd(t.col) THEN [written EXCEPT !.col = 0, !.row = @ + 1]
                     ELSE [written EXCEPT !.col = @ + 1], p + 1)

\* One turn of the loop of charbuffer_write, with the pointer it has by now.
Put(t, p, c) ==
    IF c = "bs" /\ t.col > 0 THEN Backspace(t, p)
    ELSE IF c = "nl" THEN Newline(t) ELSE Glyph(t, p, c)

-----------------------------------------------------------------------------
(* What a terminal shows: all lines ever written, of which the last fit.   *)

BlankLine == [k \in 1 .. Cols |-> Nothing]
NothingTyped == [lines |-> <<BlankLine>>, at |-> 1]
Typed(s, c) ==
    LET n == Len(s.lines)
    IN  IF c = "nl" THEN [lines |-> Append(s.lines, BlankLine), at |-> 1]
        ELSE IF c = "bs" /\ s.at > 1
        THEN [lines |-> [s.lines EXCEPT ![n] = [@ EXCEPT ![s.at - 1] = " "]], at |-> s.at - 1]
        ELSE LET line == [s.lines[n] EXCEPT ![s.at] = c]
             IN  IF s.at = Cols
                 THEN [lines |-> Append([s.lines EXCEPT ![n] = line], BlankLine), at |-> 1]
                 ELSE [lines |-> [s.lines EXCEPT ![n] = line], at |-> s.at + 1]

Shows(t, lines) ==
    LET first == IF Len(lines) > Rows THEN Len(lines) - Rows ELSE 0
    IN  \A r \in 0 .. Rows - 1 : \A k \in 1 .. Cols :
            t.mem[toaddr(r, k - 1)] = IF first + r < Len(lines) THEN lines[first + r + 1][k] ELSE Nothing
=============================================================================
