-------------------------------- MODULE Score --------------------------------
(***************************************************************************)
(* What the commands of a module mean to whoever writes one: which row     *)
(* follows which, and after how many ticks.                                *)
(***************************************************************************)
EXTENDS Integers, Sequences

CONSTANTS Rows, Positions, Voices, FirstSpeed, FirstTempo
VARIABLES
    song,
    next,     \* the row to be played next, [pos, row]
    wait,     \* ticks till then
    speed,    \* ticks of a row
    loops     \* of each voice: where its loop starts, and rounds still to go

vars == <<song, next, wait, speed, loops>>

Voice == 1 .. Voices
Cells == song.cell[song.order[next.pos]][next.row]
With(cmd) == {v \in Voice : Cells[v].cmd = cmd}
Last(V) == CHOOSE v \in V : \A w \in V : w <= v

Init ==
    /\ next = [pos |-> 0, row |-> 0] /\ wait = FirstSpeed /\ speed = FirstSpeed
    /\ loops = [v \in Voice |-> [start |-> 0, count |-> 0]]

\* The last voice that says so sets speed and delay; 0 sets none.
Speeds == {v \in With("F") : Cells[v].arg \in 1 .. FirstTempo - 1}
NewSpeed == IF Speeds = {} THEN speed ELSE Cells[Last(Speeds)].arg
Times == IF With("EE") = {} THEN 1 ELSE Cells[Last(With("EE"))].arg + 1

\* A loop is played once more as often as its end says.
LoopEnds == {v \in With("E6") : Cells[v].arg # 0}
Again == {v \in LoopEnds : loops[v].count # 1}
NewLoops ==
    [v \in Voice |->
        IF v \in LoopEnds
        THEN [loops[v] EXCEPT !.count = IF @ = 0 THEN Cells[v].arg ELSE @ - 1]
        ELSE IF v \in With("E6") THEN [loops[v] EXCEPT !.start = next.row] ELSE loops[v]]

\* A jump goes to the first row of its position, a break to its row of the
\* next position, both together to what the later voice says of the row.
Leaves == With("B") \union With("D")
Position ==
    LET p == (IF With("B") = {} THEN next.pos + 1 ELSE Cells[Last(With("B"))].arg) % Positions
    IN  IF p >= song.length THEN 0 ELSE p
RowOf(v) ==
    IF Cells[v].cmd = "D" /\ Cells[v].arg < Rows THEN Cells[v].arg ELSE 0

Follower ==
    IF Leaves # {}
    THEN [pos |-> Position, row |-> IF Again = {} THEN RowOf(Last(Leaves)) ELSE 0]
    ELSE IF Again # {} THEN [pos |-> next.pos, row |-> loops[Last(Again)].start]
    ELSE IF next.row = Rows - 1 THEN [pos |-> Position, row |-> 0]
    ELSE [pos |-> next.pos, row |-> next.row + 1]

Tick == wait > 1 /\ wait' = wait - 1 /\ UNCHANGED <<song, next, speed, loops>>
Play ==
    /\ wait = 1
    /\ speed' = NewSpeed /\ wait' = NewSpeed * Times
    /\ next' = Follower /\ loops' = NewLoops
    /\ UNCHANGED song

Spec == Init /\ [][Tick \/ Play]_vars
=============================================================================
