----------------------------- MODULE Replay_proofs -----------------------------
(***************************************************************************)
(* That the player stays within its song, for every song: any commands in  *)
(* any cells, held rows with jumps in them and loops across patterns       *)
(* included.  And that it plays the rows the song asks for, as long as it  *)
(* asks for, when no row that is held jumps, breaks or loops.  And that it *)
(* starts every note as often as its cell asks.                            *)
(***************************************************************************)
EXTENDS Replay, TLAPS

\* What a call of mt_music finds and keeps: a row to break to is noted only
\* until the end of the call, and nothing is noted on ticks within a row.
Typed ==
    /\ song \in Songs
    /\ mt_counter \in Nat /\ mt_PattDelTime \in Nat /\ mt_PattDelTime2 \in Nat
    /\ mt_SongPos \in Int /\ mt_PBreakFlag \in BOOLEAN /\ mt_PosJumpFlag \in BOOLEAN
    /\ music \in [does : {"nothing", "play", "hold", "effects"}, voice : Nat, pos : Int]
    /\ ch \in [Voice -> [cell : Cell, pattpos : Row, loopcount : Int]]
Noted ==
    /\ music.does \in {"nothing", "effects"} => ~mt_PosJumpFlag /\ ~mt_PBreakFlag
    /\ music.does = "hold" => ~mt_PosJumpFlag
    /\ ~mt_PosJumpFlag /\ ~mt_PBreakFlag => mt_PBreakPos = 0
    /\ music.does = "effects" => mt_counter # 0
    /\ music.does = "play" => music.pos \in 0 .. Positions - 1
IInv == Typed /\ Noted /\ InSong

LEMMA RowZero == 0 \in Row
  BY ReplayAssumption DEF Row

\* A cell of a song is a cell.
LEMMA CellRead ==
  ASSUME NEW s \in Songs, NEW p \in 0 .. Positions - 1, NEW r \in Row, NEW v \in Voice
  PROVE  s.cell[s.order[p]][r][v] \in Cell
  BY ReplayAssumption

\* A break leads to a row.
LEMMA BreakRowIsRow ==
  ASSUME NEW n \in Nat
  PROVE  BreakRow(n) \in Row
  BY ReplayAssumption DEF BreakRow, Row

\* The position that follows any number is one of the song.
LEMMA FollowingInSong ==
  ASSUME song \in Songs, NEW pos \in Int
  PROVE  Following(pos) \in 0 .. song.length - 1
<1>1. song.length \in 1 .. Positions
  BY ReplayAssumption
<1>2. (pos + 1) % Positions \in Nat
  BY ReplayAssumption
<1> DEFINE next == (pos + 1) % Positions
<1>3. next \in Nat
  BY <1>2
<1>4. Following(pos) = IF next >= song.length THEN 0 ELSE next
  BY DEF Following
<1> HIDE DEF next
<1> QED
  BY <1>1, <1>3, <1>4

\* What a loop leaves in its voice.
LEMMA LoopedTyped ==
  ASSUME Typed, InSong, NEW v \in Voice, NEW c \in Cell
  PROVE  [cell |-> c, pattpos |-> Looped(v, c).start, loopcount |-> Looped(v, c).count]
            \in [cell : Cell, pattpos : Row, loopcount : Int]
<1>1. c.arg \in Nat /\ ch[v].pattpos \in Row /\ ch[v].loopcount \in Int /\ mt_PatternPos \in Row
  BY DEF Typed, InSong, Cell
<1>2. RoundsLeft(v, c.arg) \in Int
  BY <1>1 DEF RoundsLeft
<1> QED
  BY <1>1, <1>2 DEF Looped

LEMMA ReturnedTyped ==
  Returned \in [does : {"nothing", "play", "hold", "effects"}, voice : Nat, pos : Int]
  BY DEF Returned

LEMMA InitInv == Init => IInv
<1> SUFFICES ASSUME Init PROVE IInv
  OBVIOUS
<1>1. song.length \in 1 .. Positions
  BY ReplayAssumption DEF Init
<1>2. Typed
  <2>1. NoCell \in Cell
    BY DEF NoCell, Cell, Commands
  <2>2. [cell |-> NoCell, pattpos |-> 0, loopcount |-> 0] \in [cell : Cell, pattpos : Row, loopcount : Int]
    BY <2>1, RowZero
  <2>3. ch \in [Voice -> [cell : Cell, pattpos : Row, loopcount : Int]]
    BY <2>2 DEF Init
  <2>4. music \in [does : {"nothing", "play", "hold", "effects"}, voice : Nat, pos : Int]
    BY ReturnedTyped DEF Init
  <2>5. /\ song \in Songs /\ mt_counter \in Nat /\ mt_PattDelTime \in Nat /\ mt_PattDelTime2 \in Nat
        /\ mt_SongPos \in Int
    BY DEF Init
  <2>6. mt_PBreakFlag \in BOOLEAN /\ mt_PosJumpFlag \in BOOLEAN
    BY Zenon DEF Init
  <2> QED
    BY <2>3, <2>4, <2>5, <2>6 DEF Typed
<1>3. Noted
  BY DEF Init, Noted, Returned
<1>4. InSong
  BY <1>1, RowZero DEF Init, InSong
<1> QED
  BY <1>2, <1>3, <1>4 DEF IInv

LEMMA TickInv == IInv /\ Tick => IInv'
<1> SUFFICES ASSUME IInv, Tick PROVE IInv'
  OBVIOUS
<1> USE DEF IInv, Tick, delays, breaks
<1>1. mt_SongPos \in 0 .. Positions - 1 /\ mt_counter' \in Nat
  BY ReplayAssumption DEF InSong, Noted, Typed
<1>2. CASE mt_counter + 1 >= mt_speed
  BY <1>1, <1>2 DEF Typed, Noted, InSong, Goes
<1>3. CASE ~(mt_counter + 1 >= mt_speed)
  <2>1. mt_counter' = mt_counter + 1 /\ mt_counter' # 0
    BY <1>3 DEF Typed
  <2>2. music' = [does |-> "effects", voice |-> 1, pos |-> mt_SongPos]
    BY <1>3 DEF Goes
  <2> QED
    BY <1>1, <2>1, <2>2 DEF Typed, Noted, InSong
<1> QED
  BY <1>2, <1>3

\* What one command does to the notes of the player.
LEMMA CommandInv ==
  ASSUME IInv, NEW v \in Voice, NEW c \in Cell,
         \/ /\ music.does = "play"
            /\ PositionJump(c) \/ PatternBreak(c) \/ SetSpeed(c)
         \/ JumpLoop(v, c) \/ PatternDelay(c)
         \/ \E S \in SUBSET Commands : NoOrder(S, c),
         music.does # "nothing"
  PROVE  /\ mt_SongPos' \in Int /\ mt_PBreakPos' \in Row
         /\ mt_PBreakFlag' \in BOOLEAN /\ mt_PosJumpFlag' \in BOOLEAN
         /\ mt_PattDelTime' \in Nat /\ mt_PattDelTime2' \in Nat
         /\ ~mt_PosJumpFlag' => mt_SongPos' = mt_SongPos /\ ~mt_PosJumpFlag
         /\ ~mt_PosJumpFlag' /\ ~mt_PBreakFlag' => mt_PBreakPos' = 0
         /\ music.does # "play" => ~mt_PosJumpFlag'
         /\ music.does = "effects" => ~mt_PBreakFlag'
<1> USE DEF IInv, delays, breaks
<1>1. c.arg \in Nat /\ ch[v].pattpos \in Row
  BY DEF Typed, Cell
<1>2. CASE music.does = "play" /\ PositionJump(c)
  BY <1>1, <1>2, RowZero DEF PositionJump, Typed
<1>3. CASE music.does = "play" /\ PatternBreak(c)
  BY <1>1, <1>3, BreakRowIsRow DEF PatternBreak, Typed
<1>4. CASE music.does = "play" /\ SetSpeed(c)
  BY <1>4 DEF SetSpeed, Typed, Noted, InSong
<1>5. CASE JumpLoop(v, c)
  BY <1>1, <1>5 DEF JumpLoop, Typed, Noted, InSong
<1>6. CASE PatternDelay(c)
  BY <1>1, <1>6 DEF PatternDelay, Typed, Noted, InSong
<1>7. CASE \E S \in SUBSET Commands : NoOrder(S, c)
  BY <1>7 DEF NoOrder, Typed, Noted, InSong
<1> QED
  BY <1>2, <1>3, <1>4, <1>5, <1>6, <1>7

LEMMA PlayVoiceInv == IInv /\ PlayVoice => IInv'
<1> SUFFICES ASSUME IInv, PlayVoice PROVE IInv'
  OBVIOUS
<1> DEFINE v == music.voice
           c == song.cell[song.order[music.pos]][mt_PatternPos][v]
<1>1. v \in Voice /\ music.does = "play"
  BY DEF PlayVoice
<1>2. c \in Cell
  BY <1>1, CellRead DEF IInv, Typed, Noted, InSong
<1>3. \/ PositionJump(c) \/ PatternBreak(c) \/ SetSpeed(c) \/ JumpLoop(v, c) \/ PatternDelay(c)
      \/ NoOrder({"B", "D", "EE", "E6", "F"}, c)
  <2>1. {"B", "D", "F", "E6", "EE"} = {"B", "D", "EE", "E6", "F"}
    OBVIOUS
  <2> QED
    BY <2>1 DEF PlayVoice
<1>4. ch' = [ch EXCEPT ![v] = [cell |-> c, pattpos |-> Looped(v, c).start,
                               loopcount |-> Looped(v, c).count]]
  BY DEF PlayVoice
<1>5. music' = [music EXCEPT !.voice = @ + 1] /\ UNCHANGED <<song, mt_counter, mt_PatternPos>>
  BY DEF PlayVoice, NextVoice
<1>6. [cell |-> c, pattpos |-> Looped(v, c).start, loopcount |-> Looped(v, c).count]
         \in [cell : Cell, pattpos : Row, loopcount : Int]
  BY <1>1, <1>2, LoopedTyped DEF IInv
<1> HIDE DEF c, v
<1>7. /\ mt_SongPos' \in Int /\ mt_PBreakPos' \in Row
      /\ mt_PBreakFlag' \in BOOLEAN /\ mt_PosJumpFlag' \in BOOLEAN
      /\ mt_PattDelTime' \in Nat /\ mt_PattDelTime2' \in Nat
      /\ ~mt_PosJumpFlag' => mt_SongPos' = mt_SongPos /\ ~mt_PosJumpFlag
      /\ ~mt_PosJumpFlag' /\ ~mt_PBreakFlag' => mt_PBreakPos' = 0
  <2>1. {"B", "D", "EE", "E6", "F"} \in SUBSET Commands
    BY DEF Commands
  <2> QED
    BY <1>1, <1>2, <1>3, <2>1, CommandInv
<1>8. ch' \in [Voice -> [cell : Cell, pattpos : Row, loopcount : Int]]
  BY <1>4, <1>6 DEF IInv, Typed
<1>9. /\ music' \in [does : {"nothing", "play", "hold", "effects"}, voice : Nat, pos : Int]
      /\ music'.does = "play" /\ music'.pos = music.pos
  BY <1>1, <1>5 DEF IInv, Typed
<1> QED
  BY <1>1, <1>5, <1>7, <1>8, <1>9 DEF IInv, Typed, Noted, InSong

LEMMA CheckEfxInv == IInv /\ CheckEfx => IInv'
<1> SUFFICES ASSUME IInv, CheckEfx PROVE IInv'
  OBVIOUS
<1> DEFINE v == music.voice
           c == ch[v].cell
<1>1. v \in Voice /\ music.does \in {"hold", "effects"}
  BY DEF CheckEfx
<1>2. c \in Cell
  BY <1>1 DEF IInv, Typed
<1>3. JumpLoop(v, c) \/ PatternDelay(c) \/ NoOrder({"E6", "EE"}, c)
  BY DEF CheckEfx
<1>4. ch' = [ch EXCEPT ![v] = [cell |-> c, pattpos |-> Looped(v, c).start,
                               loopcount |-> Looped(v, c).count]]
  BY DEF CheckEfx
<1>5. music' = [music EXCEPT !.voice = @ + 1] /\ UNCHANGED <<song, mt_counter, mt_PatternPos>>
  BY DEF CheckEfx, NextVoice
<1>6. [cell |-> c, pattpos |-> Looped(v, c).start, loopcount |-> Looped(v, c).count]
         \in [cell : Cell, pattpos : Row, loopcount : Int]
  BY <1>1, <1>2, LoopedTyped DEF IInv
<1> HIDE DEF c, v
<1>7. /\ mt_SongPos' \in Int /\ mt_PBreakPos' \in Row
      /\ mt_PBreakFlag' \in BOOLEAN /\ mt_PosJumpFlag' \in BOOLEAN
      /\ mt_PattDelTime' \in Nat /\ mt_PattDelTime2' \in Nat
      /\ ~mt_PosJumpFlag' => mt_SongPos' = mt_SongPos /\ ~mt_PosJumpFlag
      /\ ~mt_PosJumpFlag' /\ ~mt_PBreakFlag' => mt_PBreakPos' = 0
      /\ ~mt_PosJumpFlag'
      /\ music.does = "effects" => ~mt_PBreakFlag'
  <2>1. {"E6", "EE"} \in SUBSET Commands
    BY DEF Commands
  <2> QED
    BY <1>1, <1>2, <1>3, <2>1, CommandInv
<1>8. ch' \in [Voice -> [cell : Cell, pattpos : Row, loopcount : Int]]
  BY <1>4, <1>6 DEF IInv, Typed
<1>9. /\ music' \in [does : {"nothing", "play", "hold", "effects"}, voice : Nat, pos : Int]
      /\ music'.does = music.does
  BY <1>1, <1>5 DEF IInv, Typed
<1> QED
  BY <1>1, <1>5, <1>7, <1>8, <1>9 DEF IInv, Typed, Noted, InSong

\* The end of a call, when a row is taken or a new position.
LEMMA DskipInv == IInv /\ Dskip => IInv'
<1> SUFFICES ASSUME IInv, Dskip PROVE IInv'
  OBVIOUS
<1> DEFINE advanced == IF DelayLeft > 0 THEN mt_PatternPos ELSE mt_PatternPos + 1
           row == IF mt_PBreakFlag THEN mt_PBreakPos ELSE advanced
<1>1. DelayLeft \in Nat
  BY DEF IInv, Typed, DelayLeft, Delay
<1>2. row \in 0 .. Rows
  BY <1>1, ReplayAssumption DEF IInv, InSong, Row
<1>3. BreakPosLeft \in Row /\ (~mt_PosJumpFlag => BreakPosLeft = 0)
  BY RowZero DEF IInv, InSong, Noted, BreakPosLeft
<1>4. /\ mt_PattDelTime' = 0 /\ mt_PattDelTime2' = DelayLeft /\ mt_PBreakFlag' = FALSE
      /\ music' = Returned /\ UNCHANGED <<song, mt_counter, mt_speed, ch>>
  BY DEF Dskip
<1>5. IF row >= Rows \/ mt_PosJumpFlag
      THEN NextPosition(BreakPosLeft)
      ELSE /\ mt_PatternPos' = row /\ mt_PBreakPos' = BreakPosLeft
           /\ UNCHANGED <<mt_SongPos, mt_PosJumpFlag>>
  BY DEF Dskip
<1>6. Following(mt_SongPos) \in 0 .. song.length - 1
  BY FollowingInSong DEF IInv, Typed
<1>7. song.length \in 1 .. Positions
  BY ReplayAssumption DEF IInv, Typed
<1>8. /\ mt_PatternPos' \in Row /\ mt_PBreakPos' = 0 /\ mt_PosJumpFlag' = FALSE
      /\ mt_SongPos' \in 0 .. song.length - 1
  <2> HIDE DEF row
  <2>1. CASE row >= Rows \/ mt_PosJumpFlag
    BY <1>3, <1>5, <1>6, <2>1 DEF NextPosition
  <2>2. CASE ~(row >= Rows \/ mt_PosJumpFlag)
    BY <1>2, <1>3, <1>5, <2>2, ReplayAssumption DEF IInv, InSong, Typed, Row
  <2> QED
    BY <2>1, <2>2
<1>9. mt_PBreakFlag' \in BOOLEAN /\ mt_PosJumpFlag' \in BOOLEAN
  BY <1>4, <1>8, Zenon
<1>10. Typed'
  BY <1>1, <1>4, <1>7, <1>8, <1>9, ReturnedTyped DEF IInv, Typed
<1> QED
  BY <1>4, <1>8, <1>10, RowZero DEF IInv, Noted, InSong, Returned

LEMMA EffectsEndInv == IInv /\ EffectsEnd => IInv'
  BY DEF IInv, EffectsEnd, Typed, Noted, InSong, Returned, delays

LEMMA StepInv == IInv /\ [Next]_vars => IInv'
<1> SUFFICES ASSUME IInv, [Next]_vars PROVE IInv'
  OBVIOUS
<1>1. CASE UNCHANGED vars
  BY <1>1 DEF vars, delays, breaks, IInv, Typed, Noted, InSong
<1>2. CASE Next
  BY <1>2, TickInv, PlayVoiceInv, CheckEfxInv, DskipInv, EffectsEndInv DEF Next
<1> QED
  BY <1>1, <1>2

\* Every row read is a row of a pattern, at a position of the song, whatever
\* its cells hold (mt_dskip, mt_nextPosition).
THEOREM StaysInSong == Spec => []InSong
<1>1. IInv => InSong
  BY DEF IInv
<1> QED
  BY <1>1, InitInv, StepInv, PTL DEF Spec

-----------------------------------------------------------------------------
(* The order of rows, as whoever writes a song means it.  A row that is    *)
(* held must not jump, break or loop: the code carries out such a command  *)
(* again, or before the row has been held as long as it asks.              *)

PlainSongs == \A s \in Songs : \A p \in 0 .. Positions - 1 : \A r \in Row :
    (\E v \in Voice : s.cell[s.order[p]][r][v].cmd = "EE" /\ s.cell[s.order[p]][r][v].arg # 0)
    => \A v \in Voice : s.cell[s.order[p]][r][v].cmd \notin {"B", "D", "E6"}

\* What the cells of the row to be played say, and the voices that say it.
RowCells == song.cell[song.order[settled.pos]][settled.row]
Args == [v \in Voice |-> RowCells[v].arg]
With(cmd) == {v \in Voice : RowCells[v].cmd = cmd}
SpeedVoices == {v \in With("F") : RowCells[v].arg \in 1 .. FirstTempo - 1}
EndVoices == {v \in With("E6") : RowCells[v].arg # 0}
AgainVoices == {v \in EndVoices : settled.loops[v].count # 1}
LeaveVoices == With("B") \union With("D")
Broken == [v \in Voice |-> IF v \in AgainVoices THEN settled.loops[v].start
                           ELSE IF v \in With("D") /\ RowCells[v].arg < Rows THEN RowCells[v].arg ELSE 0]
LoopAfter(v) ==
    IF v \in EndVoices
    THEN [settled.loops[v] EXCEPT !.count = IF @ = 0 THEN RowCells[v].arg ELSE @ - 1]
    ELSE IF v \in With("E6") THEN [settled.loops[v] EXCEPT !.start = settled.row] ELSE settled.loops[v]

\* x is what the last of the voices S says, f, or what it was without them.
Says(x, S, f, was) ==
    IF S = {} THEN x = was ELSE \E v \in S : (\A w \in S : w <= v) /\ x = f[v]

\* Between two voices of a new row: what those before have said so far.
Before(S) == {v \in S : v < music.voice}
MidRow ==
    /\ music.voice \in 1 .. Voices + 1
    /\ settled.del = 0 /\ settled.counter + 1 = settled.speed
    /\ mt_counter = 0 /\ mt_PattDelTime2 = 0
    /\ music.pos = settled.pos /\ mt_PatternPos = settled.row
    /\ \A v \in Voice :
         IF v < music.voice
         THEN /\ ch[v].cell = RowCells[v]
              /\ ch[v].pattpos = LoopAfter(v).start /\ ch[v].loopcount = LoopAfter(v).count
         ELSE ch[v].pattpos = settled.loops[v].start /\ ch[v].loopcount = settled.loops[v].count
    /\ Says(mt_speed, Before(SpeedVoices), Args, settled.speed)
    /\ Says(mt_PattDelTime, Before(With("EE")), [v \in Voice |-> Args[v] + 1], 0)
    /\ Says(mt_SongPos, Before(With("B")), [v \in Voice |-> Args[v] - 1], settled.pos)
    /\ Says(mt_PBreakPos, Before(LeaveVoices \union AgainVoices), Broken, 0)
    /\ mt_PosJumpFlag <=> Before(LeaveVoices) # {}
    /\ mt_PBreakFlag <=> Before(AgainVoices) # {}

\* At other times nothing is noted but the delay of a row that is held.
Between ==
    /\ mt_PattDelTime2 = settled.del /\ mt_PattDelTime = 0 /\ mt_speed = settled.speed
    /\ mt_SongPos = settled.pos /\ mt_PatternPos = settled.row
    /\ ~mt_PBreakFlag /\ mt_PBreakPos = 0 /\ Loops = settled.loops
    /\ settled.del > 0 => \A v \in Voice : ch[v].cell.cmd # "E6"

Settled ==
    /\ settled \in [pos : 0 .. Positions - 1, row : Row, del : Nat, counter : Nat, speed : Nat \ {0},
                    loops : [Voice -> [start : Row, count : Int]]]
    /\ settled.counter < settled.speed

ScoreInv ==
    /\ Settled
    /\ music.does # "play" => Between
    /\ music.does = "nothing" => mt_counter = settled.counter
    /\ music.does = "effects" => mt_counter = settled.counter + 1 /\ mt_counter < settled.speed
    /\ music.does = "hold" => mt_counter = 0 /\ settled.counter + 1 = settled.speed /\ settled.del > 0
    /\ music.does = "play" => MidRow

RefInv == IInv /\ ScoreInv

LEMMA SaysNext ==
  ASSUME NEW S \in SUBSET Voice, NEW k \in Nat, NEW f, NEW was, NEW x, NEW y,
         Says(x, {v \in S : v < k}, f, was),
         k \in S => y = f[k], k \notin S => y = x
  PROVE  Says(y, {v \in S : v < k + 1}, f, was)
<1>1. S \subseteq Nat
  BY DEF Voice
<1>2. CASE k \in S
  <2>1. k \in {v \in S : v < k + 1} /\ \A w \in {v \in S : v < k + 1} : w <= k
    BY <1>1, <1>2
  <2> QED
    BY <1>2, <2>1 DEF Says
<1>3. CASE k \notin S
  <2>1. \A v \in S : v < k + 1 <=> v < k
    BY <1>1, <1>3
  <2>2. {v \in S : v < k + 1} = {v \in S : v < k}
    BY <2>1
  <2> QED
    BY <1>3, <2>2
<1> QED
  BY <1>2, <1>3

\* The last voice is the greatest.
LEMMA LastIs ==
  ASSUME NEW S \in SUBSET Voice, NEW v \in S, \A w \in S : w <= v
  PROVE  Played!Last(S) = v
<1>1. S \subseteq Nat
  BY DEF Voice
<1>2. \A u \in S : (\A w \in S : w <= u) => u = v
  BY <1>1
<1> QED
  BY <1>2 DEF Played!Last

LEMMA AllSaid ==
  ASSUME NEW S \in SUBSET Voice, NEW f, NEW was, NEW x,
         Says(x, {v \in S : v < Voices + 1}, f, was)
  PROVE  x = (IF S = {} THEN was ELSE f[Played!Last(S)]) /\ {v \in S : v < Voices + 1} = S
<1>1. {v \in S : v < Voices + 1} = S
  <2>1. \A v \in S : v < Voices + 1
    BY ReplayAssumption DEF Voice
  <2> QED
    BY <2>1
<1>2. CASE S = {}
  BY <1>1, <1>2 DEF Says
<1>3. CASE S # {}
  <2>1. PICK v \in S : (\A w \in S : w <= v) /\ x = f[v]
    BY <1>1, <1>3 DEF Says
  <2>2. Played!Last(S) = v
    BY <2>1, LastIs
  <2> QED
    BY <1>1, <1>3, <2>1, <2>2
<1> QED
  BY <1>2, <1>3

LEMMA RowCellsAre ==
  ASSUME IInv, Settled
  PROVE  /\ \A v \in Voice : RowCells[v] \in Cell /\ RowCells[v].arg \in Nat /\ Args[v] = RowCells[v].arg
         /\ \A v \in Voice : settled.loops[v] \in [start : Row, count : Int]
         /\ \A v \in Voice : LoopAfter(v) \in [start : Row, count : Int]
<1>1. \A v \in Voice : RowCells[v] \in Cell
  BY CellRead DEF IInv, Typed, Settled, RowCells
<1>2. \A v \in Voice : RowCells[v].arg \in Nat /\ Args[v] = RowCells[v].arg
  BY <1>1 DEF Cell, Args
<1>3. settled.row \in Row /\ \A v \in Voice : settled.loops[v] \in [start : Row, count : Int]
  BY DEF Settled
<1>4. ASSUME NEW v \in Voice PROVE LoopAfter(v) \in [start : Row, count : Int]
  <2>1. settled.loops[v] \in [start : Row, count : Int] /\ RowCells[v].arg \in Nat
    BY <1>2, <1>3
  <2> QED
    BY <1>3, <2>1 DEF LoopAfter
<1> QED
  BY <1>1, <1>2, <1>3, <1>4

LEMMA ScoreInvInit == Init => ScoreInv
<1> SUFFICES ASSUME Init PROVE ScoreInv
  OBVIOUS
<1>1. music.does = "nothing" /\ settled = Left(0, 0, 0, 0, FirstSpeed, Loops)
  BY DEF Init, Returned
<1>2. Loops = [v \in Voice |-> [start |-> 0, count |-> 0]]
  BY DEF Init, Loops
<1>3. /\ settled.pos = 0 /\ settled.row = 0 /\ settled.del = 0 /\ settled.counter = 0
      /\ settled.speed = FirstSpeed /\ settled.loops = Loops
  BY <1>1 DEF Left
<1>4. Settled
  <2>1. 0 \in 0 .. Positions - 1 /\ FirstSpeed \in Nat \ {0} /\ 0 < FirstSpeed
    BY ReplayAssumption
  <2>2. Loops \in [Voice -> [start : Row, count : Int]]
    BY <1>2, RowZero
  <2> QED
    BY <1>1, <2>1, <2>2, RowZero DEF Settled, Left
<1>5. Between
  BY <1>3 DEF Between, Init
<1>6. mt_counter = settled.counter
  BY <1>3 DEF Init
<1> QED
  BY <1>1, <1>4, <1>5, <1>6 DEF ScoreInv

\* A call begins.
LEMMA ScoreTick == RefInv /\ Tick => ScoreInv'
<1> SUFFICES ASSUME RefInv, Tick PROVE ScoreInv'
  OBVIOUS
<1> USE DEF RefInv, ScoreInv, Tick, delays, breaks
<1>1. /\ music.does = "nothing" /\ settled' = settled /\ Settled /\ Between /\ mt_counter = settled.counter
      /\ UNCHANGED <<song, ch, mt_speed, mt_PatternPos, delays, breaks>>
  OBVIOUS
<1>2. Settled' /\ Between'
  BY <1>1 DEF Settled, Between, Loops
<1>3. settled.counter \in Nat /\ settled.speed \in Nat \ {0} /\ settled.counter < settled.speed
      /\ mt_speed = settled.speed /\ settled.del \in Nat
  BY <1>1 DEF Settled, Between
<1>4. CASE mt_counter + 1 < mt_speed
  <2>1. mt_counter' = mt_counter + 1 /\ music'.does = "effects"
    BY <1>1, <1>3, <1>4 DEF Goes
  <2> QED
    BY <1>1, <1>2, <1>3, <1>4, <2>1
<1>5. CASE ~(mt_counter + 1 < mt_speed)
  <2>1. settled.counter + 1 = settled.speed /\ mt_counter' = 0
    BY <1>1, <1>3, <1>5
  <2>2. music' = Goes(IF mt_PattDelTime2 = 0 THEN "play" ELSE "hold")
    BY <1>1, <1>3, <1>5
  <2>3. CASE mt_PattDelTime2 # 0
    <3>1. music'.does = "hold" /\ settled.del > 0
      BY <1>1, <1>3, <2>2, <2>3 DEF Goes, Between
    <3> QED
      BY <1>1, <1>2, <2>1, <3>1
  <2>4. CASE mt_PattDelTime2 = 0
    <3>1. music'.does = "play" /\ music'.voice = 1 /\ music'.pos = settled.pos
      BY <1>1, <2>2, <2>4 DEF Goes, Between
    <3>2. settled.del = 0 /\ mt_SongPos = settled.pos /\ mt_PatternPos = settled.row
          /\ mt_PattDelTime = 0 /\ mt_PBreakPos = 0 /\ ~mt_PBreakFlag /\ ~mt_PosJumpFlag
      BY <1>1, <2>4 DEF Between, IInv, Noted
    <3>3. \A v \in Voice : ch[v].pattpos = settled.loops[v].start /\ ch[v].loopcount = settled.loops[v].count
      BY <1>1 DEF Between, Loops
    <3>4. /\ SpeedVoices \subseteq Voice /\ EndVoices \subseteq Voice /\ AgainVoices \subseteq Voice
          /\ LeaveVoices \subseteq Voice /\ \A cmd : With(cmd) \subseteq Voice
      BY DEF SpeedVoices, EndVoices, AgainVoices, LeaveVoices, With
    <3>5. \A S \in SUBSET Voice : Before(S)' = {v \in S' : v < 1}
      BY <3>1 DEF Before
    <3>6. /\ SpeedVoices' = SpeedVoices /\ AgainVoices' = AgainVoices /\ LeaveVoices' = LeaveVoices
          /\ Args' = Args /\ Broken' = Broken /\ \A cmd : With(cmd)' = With(cmd)
      BY <1>1 DEF SpeedVoices, EndVoices, AgainVoices, LeaveVoices, With, Args, Broken, RowCells
    <3>7. MidRow'
      <4>1. 1 \in 1 .. Voices + 1
        BY ReplayAssumption
      <4>2. \A v \in Voice : ~(v < 1)
        BY DEF Voice
      <4>3. /\ Before(SpeedVoices)' = {v \in SpeedVoices : v < 1}
            /\ Before(AgainVoices)' = {v \in AgainVoices : v < 1}
            /\ Before(LeaveVoices)' = {v \in LeaveVoices : v < 1}
            /\ Before(LeaveVoices \union AgainVoices)' = {v \in LeaveVoices \union AgainVoices : v < 1}
            /\ Before(With("EE"))' = {v \in With("EE") : v < 1}
            /\ Before(With("B"))' = {v \in With("B") : v < 1}
        BY <3>1, <3>6 DEF Before
      <4>4. /\ Says(mt_speed, Before(SpeedVoices), Args, settled.speed)'
            /\ Says(mt_PattDelTime, Before(With("EE")), [v \in Voice |-> Args[v] + 1], 0)'
            /\ Says(mt_SongPos, Before(With("B")), [v \in Voice |-> Args[v] - 1], settled.pos)'
            /\ Says(mt_PBreakPos, Before(LeaveVoices \union AgainVoices), Broken, 0)'
        <5>1. Before(SpeedVoices)' = {} /\ Before(With("EE"))' = {} /\ Before(With("B"))' = {}
              /\ Before(LeaveVoices \union AgainVoices)' = {}
          BY <3>4, <4>2, <4>3
        <5> QED
          BY <1>1, <1>3, <3>2, <5>1 DEF Says
      <4>5. Before(LeaveVoices)' = {} /\ Before(AgainVoices)' = {}
        BY <3>4, <4>2, <4>3
      <4>6. /\ music'.voice \in 1 .. Voices + 1
            /\ settled'.del = 0 /\ settled'.counter + 1 = settled'.speed
            /\ mt_counter' = 0 /\ mt_PattDelTime2' = 0
            /\ music'.pos = settled'.pos /\ mt_PatternPos' = settled'.row
            /\ mt_PosJumpFlag' = FALSE /\ mt_PBreakFlag' = FALSE
        BY <1>1, <2>1, <2>4, <3>1, <3>2, <4>1, Zenon DEF IInv, Typed
      <4>7. \A v \in Voice : ~(v < music'.voice)
               /\ ch'[v].pattpos = settled'.loops[v].start /\ ch'[v].loopcount = settled'.loops[v].count
        BY <1>1, <3>1, <3>3, <4>2
      <4> QED
        BY <4>4, <4>5, <4>6, <4>7 DEF MidRow
    <3> QED
      BY <1>1, <1>2, <3>1, <3>7
  <2> QED
    BY <2>3, <2>4
<1> QED
  BY <1>4, <1>5

\* The sets of voices do not change while a row is carried out.
Kept == /\ SpeedVoices' = SpeedVoices /\ AgainVoices' = AgainVoices /\ LeaveVoices' = LeaveVoices
        /\ EndVoices' = EndVoices /\ With("B")' = With("B") /\ With("D")' = With("D")
        /\ With("EE")' = With("EE") /\ With("E6")' = With("E6")
        /\ Args' = Args /\ Broken' = Broken /\ RowCells' = RowCells
        /\ \A v : LoopAfter(v)' = LoopAfter(v)
LEMMA RowKept == UNCHANGED <<song, settled>> => Kept
  BY DEF Kept, SpeedVoices, EndVoices, AgainVoices, LeaveVoices, With, Args, Broken, RowCells, LoopAfter

\* One voice of a new row: what its command notes is what the score reads.
LEMMA VoiceNotes ==
  ASSUME IInv, Settled, MidRow, music.does = "play", music.voice \in Voice,
         NEW v \in Voice, v = music.voice, NEW c, c = RowCells[v],
         \/ PositionJump(c) \/ PatternBreak(c) \/ SetSpeed(c) \/ JumpLoop(v, c) \/ PatternDelay(c)
         \/ NoOrder({"B", "D", "F", "E6", "EE"}, c)
  PROVE  /\ mt_speed' = IF v \in SpeedVoices THEN Args[v] ELSE mt_speed
         /\ mt_PattDelTime' = IF v \in With("EE") THEN Args[v] + 1 ELSE mt_PattDelTime
         /\ mt_PattDelTime2' = mt_PattDelTime2
         /\ mt_SongPos' = IF v \in With("B") THEN Args[v] - 1 ELSE mt_SongPos
         /\ mt_PBreakPos' = IF v \in LeaveVoices \union AgainVoices THEN Broken[v] ELSE mt_PBreakPos
         /\ mt_PosJumpFlag' <=> mt_PosJumpFlag \/ v \in LeaveVoices
         /\ mt_PBreakFlag' <=> mt_PBreakFlag \/ v \in AgainVoices
<1>1. /\ c.arg \in Nat /\ Args[v] = c.arg /\ mt_counter = 0 /\ mt_PattDelTime2 = 0
      /\ ch[v].pattpos = settled.loops[v].start /\ ch[v].loopcount = settled.loops[v].count
      /\ settled.loops[v].count \in Int
  BY RowCellsAre DEF MidRow, Voice
<1>2. /\ v \in SpeedVoices <=> c.cmd = "F" /\ c.arg \in 1 .. FirstTempo - 1
      /\ \A cmd : v \in With(cmd) <=> c.cmd = cmd
      /\ v \in LeaveVoices <=> c.cmd \in {"B", "D"}
      /\ v \in AgainVoices <=> c.cmd = "E6" /\ c.arg # 0 /\ settled.loops[v].count # 1
  BY DEF SpeedVoices, With, LeaveVoices, AgainVoices, EndVoices
<1>3. Broken[v] = IF v \in AgainVoices THEN settled.loops[v].start
                  ELSE IF c.cmd = "D" /\ c.arg < Rows THEN c.arg ELSE 0
  BY <1>2 DEF Broken
<1> USE DEF delays, breaks
<1>4. CASE PositionJump(c)
  BY <1>1, <1>2, <1>3, <1>4 DEF PositionJump
<1>5. CASE PatternBreak(c)
  <2>1. BreakRow(c.arg) = Broken[v]
    BY <1>1, <1>2, <1>3, <1>5, ReplayAssumption DEF PatternBreak, BreakRow
  <2> QED
    BY <1>1, <1>2, <1>5, <2>1 DEF PatternBreak
<1>6. CASE SetSpeed(c)
  BY <1>1, <1>2, <1>6 DEF SetSpeed
<1>7. CASE JumpLoop(v, c)
  <2>1. RoundsLeft(v, c.arg) # 0 <=> IF settled.loops[v].count = 0 THEN c.arg # 0
                                     ELSE settled.loops[v].count # 1
    BY <1>1 DEF RoundsLeft
  <2>2. c.arg # 0 /\ RoundsLeft(v, c.arg) # 0 <=> v \in AgainVoices
    BY <1>1, <1>2, <1>7, <2>1 DEF JumpLoop
  <2> QED
    BY <1>1, <1>2, <1>3, <1>7, <2>2 DEF JumpLoop
<1>8. CASE PatternDelay(c)
  BY <1>1, <1>2, <1>8 DEF PatternDelay
<1>9. CASE NoOrder({"B", "D", "F", "E6", "EE"}, c)
  BY <1>1, <1>2, <1>9 DEF NoOrder
<1> QED
  BY <1>4, <1>5, <1>6, <1>7, <1>8, <1>9

LEMMA VoiceLoops ==
  ASSUME IInv, Settled, MidRow, NEW v \in Voice, v = music.voice, NEW c, c = RowCells[v]
  PROVE  Looped(v, c) = LoopAfter(v)
<1>1. /\ c.arg \in Nat /\ mt_counter = 0 /\ mt_PatternPos = settled.row
      /\ ch[v].pattpos = settled.loops[v].start /\ ch[v].loopcount = settled.loops[v].count
      /\ settled.loops[v] \in [start : Row, count : Int]
  BY RowCellsAre DEF MidRow, Voice
<1>2. /\ v \in EndVoices <=> c.cmd = "E6" /\ c.arg # 0
      /\ v \in With("E6") <=> c.cmd = "E6"
  BY DEF With, EndVoices
<1>3. settled.loops[v] = [start |-> settled.loops[v].start, count |-> settled.loops[v].count]
  BY <1>1
<1> QED
  BY <1>1, <1>2, <1>3 DEF Looped, LoopAfter, RoundsLeft

LEMMA ScorePlayVoice == RefInv /\ PlayVoice => ScoreInv'
<1> SUFFICES ASSUME RefInv, PlayVoice PROVE ScoreInv'
  OBVIOUS
<1> USE DEF RefInv, ScoreInv
<1> DEFINE v == music.voice
           c == RowCells[v]
<1>1. /\ music.does = "play" /\ v \in Voice /\ MidRow /\ Settled /\ IInv
      /\ UNCHANGED <<song, settled, mt_counter, mt_PatternPos>>
  BY DEF PlayVoice
<1>2. song.cell[song.order[music.pos]][mt_PatternPos][v] = c
  BY <1>1 DEF MidRow, RowCells
<1>3. /\ \/ PositionJump(c) \/ PatternBreak(c) \/ SetSpeed(c) \/ JumpLoop(v, c) \/ PatternDelay(c)
         \/ NoOrder({"B", "D", "F", "E6", "EE"}, c)
      /\ ch' = [ch EXCEPT ![v] = [cell |-> c, pattpos |-> Looped(v, c).start,
                                  loopcount |-> Looped(v, c).count]]
  BY <1>2 DEF PlayVoice
<1>4. Looped(v, c) = LoopAfter(v)
  BY <1>1, VoiceLoops
<1>5. music'.does = "play" /\ music'.voice = v + 1 /\ music'.pos = music.pos /\ v \in 1 .. Voices
  BY <1>1 DEF PlayVoice, NextVoice, Typed, IInv, Voice
<1>6. Kept
  BY <1>1, RowKept
<1>7. /\ mt_speed' = IF v \in SpeedVoices THEN Args[v] ELSE mt_speed
      /\ mt_PattDelTime' = IF v \in With("EE") THEN Args[v] + 1 ELSE mt_PattDelTime
      /\ mt_PattDelTime2' = mt_PattDelTime2
      /\ mt_SongPos' = IF v \in With("B") THEN Args[v] - 1 ELSE mt_SongPos
      /\ mt_PBreakPos' = IF v \in LeaveVoices \union AgainVoices THEN Broken[v] ELSE mt_PBreakPos
      /\ mt_PosJumpFlag' <=> mt_PosJumpFlag \/ v \in LeaveVoices
      /\ mt_PBreakFlag' <=> mt_PBreakFlag \/ v \in AgainVoices
  BY <1>1, <1>3, VoiceNotes
<1> HIDE DEF c
<1>8. /\ SpeedVoices \in SUBSET Voice /\ AgainVoices \in SUBSET Voice /\ LeaveVoices \in SUBSET Voice
      /\ With("B") \in SUBSET Voice /\ With("EE") \in SUBSET Voice
      /\ LeaveVoices \union AgainVoices \in SUBSET Voice
  BY DEF SpeedVoices, EndVoices, AgainVoices, LeaveVoices, With
<1>9. /\ Before(SpeedVoices) = {w \in SpeedVoices : w < v}
      /\ Before(With("EE")) = {w \in With("EE") : w < v}
      /\ Before(With("B")) = {w \in With("B") : w < v}
      /\ Before(LeaveVoices \union AgainVoices) = {w \in LeaveVoices \union AgainVoices : w < v}
      /\ Before(LeaveVoices) = {w \in LeaveVoices : w < v}
      /\ Before(AgainVoices) = {w \in AgainVoices : w < v}
  BY DEF Before
<1>10. /\ Before(SpeedVoices)' = {w \in SpeedVoices : w < v + 1}
       /\ Before(With("EE"))' = {w \in With("EE") : w < v + 1}
       /\ Before(With("B"))' = {w \in With("B") : w < v + 1}
       /\ Before(LeaveVoices \union AgainVoices)' = {w \in LeaveVoices \union AgainVoices : w < v + 1}
       /\ Before(LeaveVoices)' = {w \in LeaveVoices : w < v + 1}
       /\ Before(AgainVoices)' = {w \in AgainVoices : w < v + 1}
  BY <1>5, <1>6 DEF Before, Kept
<1>11. v \in Nat
  BY <1>5
<1>12. Says(mt_speed, Before(SpeedVoices), Args, settled.speed)'
  <2>1. Says(mt_speed', {w \in SpeedVoices : w < v + 1}, Args, settled.speed)
    BY <1>1, <1>7, <1>8, <1>9, <1>11, SaysNext DEF MidRow
  <2> QED
    BY <1>1, <1>6, <1>10, <2>1 DEF Says, Kept
<1>13. Says(mt_PattDelTime, Before(With("EE")), [w \in Voice |-> Args[w] + 1], 0)'
  <2> DEFINE f == [w \in Voice |-> Args[w] + 1]
  <2>1. f[v] = Args[v] + 1 /\ f' = f
    BY <1>1, <1>6 DEF Kept
  <2>2. Says(mt_PattDelTime, {w \in With("EE") : w < v}, f, 0)
    BY <1>1, <1>9 DEF MidRow
  <2> HIDE DEF f
  <2>3. Says(mt_PattDelTime', {w \in With("EE") : w < v + 1}, f, 0)
    BY <1>7, <1>8, <1>11, <2>1, <2>2, SaysNext
  <2>4. Says(mt_PattDelTime, Before(With("EE")), f, 0)'
    BY <1>10, <2>1, <2>3 DEF Says
  <2> QED
    BY <2>4 DEF f
<1>14. Says(mt_SongPos, Before(With("B")), [w \in Voice |-> Args[w] - 1], settled.pos)'
  <2> DEFINE f == [w \in Voice |-> Args[w] - 1]
  <2>1. f[v] = Args[v] - 1 /\ f' = f
    BY <1>1, <1>6 DEF Kept
  <2>2. Says(mt_SongPos, {w \in With("B") : w < v}, f, settled.pos)
    BY <1>1, <1>9 DEF MidRow
  <2> HIDE DEF f
  <2>3. Says(mt_SongPos', {w \in With("B") : w < v + 1}, f, settled.pos)
    BY <1>7, <1>8, <1>11, <2>1, <2>2, SaysNext
  <2>4. Says(mt_SongPos, Before(With("B")), f, settled.pos)'
    BY <1>1, <1>10, <2>1, <2>3 DEF Says
  <2> QED
    BY <2>4 DEF f
<1>15. Says(mt_PBreakPos, Before(LeaveVoices \union AgainVoices), Broken, 0)'
  <2> DEFINE W == LeaveVoices \union AgainVoices
  <2>1. /\ W \in SUBSET Voice /\ Says(mt_PBreakPos, {w \in W : w < v}, Broken, 0)
        /\ mt_PBreakPos' = IF v \in W THEN Broken[v] ELSE mt_PBreakPos
    BY <1>1, <1>7, <1>8, <1>9 DEF MidRow
  <2> HIDE DEF W
  <2>2. Says(mt_PBreakPos', {w \in W : w < v + 1}, Broken, 0)
    BY <1>11, <2>1, SaysNext
  <2> QED
    BY <1>6, <1>10, <2>2 DEF Says, Kept, W
<1>16. (mt_PosJumpFlag <=> Before(LeaveVoices) # {})'
  <2>1. \A w \in LeaveVoices : w < v + 1 <=> w < v \/ w = v
    BY <1>8, <1>11 DEF Voice
  <2>2. {w \in LeaveVoices : w < v + 1} # {} <=> {w \in LeaveVoices : w < v} # {} \/ v \in LeaveVoices
    BY <2>1
  <2>3. mt_PosJumpFlag <=> {w \in LeaveVoices : w < v} # {}
    BY <1>1, <1>9 DEF MidRow
  <2> QED
    BY <1>7, <1>10, <2>2, <2>3, Zenon
<1>17. (mt_PBreakFlag <=> Before(AgainVoices) # {})'
  <2>1. \A w \in AgainVoices : w < v + 1 <=> w < v \/ w = v
    BY <1>8, <1>11 DEF Voice
  <2>2. {w \in AgainVoices : w < v + 1} # {} <=> {w \in AgainVoices : w < v} # {} \/ v \in AgainVoices
    BY <2>1
  <2>3. mt_PBreakFlag <=> {w \in AgainVoices : w < v} # {}
    BY <1>1, <1>9 DEF MidRow
  <2> QED
    BY <1>7, <1>10, <2>2, <2>3, Zenon
<1>18. \A w \in Voice :
         IF w < v + 1
         THEN /\ ch'[w].cell = RowCells[w]
              /\ ch'[w].pattpos = LoopAfter(w).start /\ ch'[w].loopcount = LoopAfter(w).count
         ELSE ch'[w].pattpos = settled.loops[w].start /\ ch'[w].loopcount = settled.loops[w].count
  <2> SUFFICES ASSUME NEW w \in Voice
               PROVE  IF w < v + 1
                      THEN /\ ch'[w].cell = RowCells[w]
                           /\ ch'[w].pattpos = LoopAfter(w).start /\ ch'[w].loopcount = LoopAfter(w).count
                      ELSE /\ ch'[w].pattpos = settled.loops[w].start
                           /\ ch'[w].loopcount = settled.loops[w].count
    OBVIOUS
  <2>1. CASE w = v
    BY <1>1, <1>3, <1>4, <1>11, <2>1 DEF IInv, Typed, c
  <2>2. CASE w # v
    <3>1. ch'[w] = ch[w]
      BY <1>1, <1>3, <2>2 DEF IInv, Typed
    <3>2. w < v + 1 <=> w < v
      BY <1>11, <2>2 DEF Voice
    <3> QED
      BY <1>1, <3>1, <3>2 DEF MidRow
  <2> QED
    BY <2>1, <2>2
<1>19. /\ music'.voice \in 1 .. Voices + 1
       /\ settled'.del = 0 /\ settled'.counter + 1 = settled'.speed
       /\ mt_counter' = 0 /\ mt_PattDelTime2' = 0
       /\ music'.pos = settled'.pos /\ mt_PatternPos' = settled'.row
  BY <1>1, <1>5, <1>7, ReplayAssumption DEF MidRow
<1>20. \A w \in Voice : LoopAfter(w)' = LoopAfter(w) /\ RowCells'[w] = RowCells[w]
  BY <1>6 DEF Kept
<1>21. MidRow'
  BY <1>1, <1>5, <1>12, <1>13, <1>14, <1>15, <1>16, <1>17, <1>18, <1>19, <1>20 DEF MidRow
<1> QED
  BY <1>1, <1>5, <1>21 DEF Settled

\* On later ticks, and when a row is held, the commands of a voice change
\* nothing that the score knows of.
LEMMA ScoreCheckEfx == RefInv /\ CheckEfx => ScoreInv'
<1> SUFFICES ASSUME RefInv, CheckEfx PROVE ScoreInv'
  OBVIOUS
<1> USE DEF RefInv, ScoreInv
<1> DEFINE v == music.voice
           c == ch[v].cell
<1>1. /\ music.does \in {"hold", "effects"} /\ v \in Voice /\ Between /\ Settled /\ IInv
      /\ UNCHANGED <<song, settled, mt_counter, mt_PatternPos>>
      /\ music'.does = music.does
  BY DEF CheckEfx, NextVoice, IInv, Typed
<1>2. /\ JumpLoop(v, c) \/ PatternDelay(c) \/ NoOrder({"E6", "EE"}, c)
      /\ ch' = [ch EXCEPT ![v] = [cell |-> c, pattpos |-> Looped(v, c).start,
                                  loopcount |-> Looped(v, c).count]]
  BY DEF CheckEfx
<1>3. mt_counter # 0 \/ (mt_counter = 0 /\ mt_PattDelTime2 > 0 /\ c.cmd # "E6")
  <2>1. CASE music.does = "effects"
    BY <1>1, <2>1 DEF Settled
  <2>2. CASE music.does = "hold"
    BY <1>1, <2>2 DEF Between
  <2> QED
    BY <1>1, <2>1, <2>2
<1>4. Looped(v, c) = [start |-> ch[v].pattpos, count |-> ch[v].loopcount]
  BY <1>3 DEF Looped
<1>5. ch' = ch
  <2>1. ch[v] \in [cell : Cell, pattpos : Row, loopcount : Int]
    BY <1>1 DEF IInv, Typed
  <2>2. [cell |-> c, pattpos |-> Looped(v, c).start, loopcount |-> Looped(v, c).count] = ch[v]
    BY <1>4, <2>1
  <2> QED
    BY <1>1, <1>2, <2>2 DEF IInv, Typed
<1>6. UNCHANGED <<mt_speed, mt_PattDelTime, mt_PattDelTime2, mt_SongPos, mt_PBreakPos, mt_PBreakFlag>>
  <2> USE DEF delays, breaks
  <2>1. CASE JumpLoop(v, c)
    <3>1. mt_counter # 0
      BY <1>3, <2>1 DEF JumpLoop
    <3> QED
      BY <2>1, <3>1 DEF JumpLoop
  <2>2. CASE PatternDelay(c)
    BY <1>3, <2>2 DEF PatternDelay
  <2>3. CASE NoOrder({"E6", "EE"}, c)
    BY <2>3 DEF NoOrder
  <2> QED
    BY <1>2, <2>1, <2>2, <2>3
<1>7. Between'
  BY <1>1, <1>5, <1>6 DEF Between, Loops
<1>8. Settled'
  BY <1>1 DEF Settled
<1> QED
  BY <1>1, <1>7, <1>8

\* With the last voice done all have had their say.
LEMMA AllBefore ==
  ASSUME MidRow, music.voice > Voices
  PROVE  music.voice = Voices + 1 /\ \A S \in SUBSET Voice : Before(S) = S
<1>1. music.voice = Voices + 1
  <2>1. music.voice \in 1 .. Voices + 1
    BY DEF MidRow
  <2>2. Voices \in Nat
    BY ReplayAssumption
  <2> QED
    BY <2>1, <2>2
<1>2. ASSUME NEW S \in SUBSET Voice PROVE Before(S) = S
  <2>1. \A v \in S : v < Voices + 1
    BY ReplayAssumption DEF Voice
  <2> QED
    BY <1>1, <2>1 DEF Before
<1> QED
  BY <1>1, <1>2

\* What the score reads at the end of a new row is what the code has noted.
LEMMA RowIsScore ==
  ASSUME RefInv, music.does = "play", music.voice > Voices
  PROVE  /\ mt_speed = Played!NewSpeed /\ mt_speed \in Nat \ {0}
         /\ Loops = Played!NewLoops
         /\ mt_PattDelTime = (IF With("EE") = {} THEN 0 ELSE Played!Times)
         /\ With("EE") = {} => Played!Times = 1
         /\ mt_PosJumpFlag <=> Played!Leaves # {}
         /\ mt_PBreakFlag <=> Played!Again # {}
         /\ mt_SongPos = (IF With("B") = {} THEN settled.pos ELSE Args[Played!Last(With("B"))] - 1)
         /\ mt_PBreakPos = (IF LeaveVoices \union AgainVoices = {} THEN 0
                            ELSE Broken[Played!Last(LeaveVoices \union AgainVoices)])
         /\ Played!Leaves = LeaveVoices /\ Played!Again = AgainVoices
         /\ \A v \in Voice : Played!Cells[v] = RowCells[v] /\ ch[v].cell = RowCells[v]
         /\ \A cmd : Played!With(cmd) = With(cmd)
<1> USE DEF RefInv, ScoreInv
<1>1. MidRow /\ Settled /\ IInv /\ music.voice = Voices + 1 /\ settled.del = 0
  <2>1. MidRow /\ Settled /\ IInv
    OBVIOUS
  <2>2. music.voice = Voices + 1 /\ settled.del = 0
    BY <2>1, AllBefore DEF MidRow
  <2> QED
    BY <2>1, <2>2
<1>2. Played!Voice = Voice /\ Played!Cells = RowCells
  BY <1>1 DEF Played!Voice, Voice, Played!Cells, RowCells
<1>3. /\ \A cmd : Played!With(cmd) = With(cmd)
      /\ Played!Speeds = SpeedVoices /\ Played!LoopEnds = EndVoices
      /\ Played!Again = AgainVoices /\ Played!Leaves = LeaveVoices
  BY <1>2 DEF Played!With, With, Played!Speeds, SpeedVoices, Played!LoopEnds, EndVoices,
              Played!Again, AgainVoices, Played!Leaves, LeaveVoices
<1>4. /\ SpeedVoices \in SUBSET Voice /\ AgainVoices \in SUBSET Voice /\ LeaveVoices \in SUBSET Voice
      /\ With("B") \in SUBSET Voice /\ With("EE") \in SUBSET Voice
  BY DEF SpeedVoices, EndVoices, AgainVoices, LeaveVoices, With
<1>5. \A S \in SUBSET Voice : Before(S) = {v \in S : v < Voices + 1} /\ Before(S) = S
  <2> SUFFICES ASSUME NEW S \in SUBSET Voice PROVE Before(S) = {v \in S : v < Voices + 1} /\ Before(S) = S
    OBVIOUS
  <2>1. Before(S) = S
    BY <1>1, AllBefore
  <2> QED
    BY <1>1, <2>1 DEF Before
<1>6. \A v \in Voice : v < music.voice
  BY <1>1, ReplayAssumption DEF Voice
<1>7. mt_speed = Played!NewSpeed /\ mt_speed \in Nat \ {0}
  <2>1. mt_speed = IF SpeedVoices = {} THEN settled.speed ELSE Args[Played!Last(SpeedVoices)]
    BY <1>1, <1>4, <1>5, AllSaid DEF MidRow
  <2>2. SpeedVoices # {} => \E v \in SpeedVoices : mt_speed = Args[v] /\ Played!Last(SpeedVoices) = v
    BY <1>1, <1>4, <1>5, LastIs DEF MidRow, Says
  <2>3. \A v \in SpeedVoices : Args[v] = RowCells[v].arg /\ Args[v] \in Nat \ {0}
    BY <1>1, RowCellsAre, ReplayAssumption DEF SpeedVoices, With
  <2>4. settled.speed \in Nat \ {0}
    BY <1>1 DEF Settled
  <2> QED
    BY <1>2, <1>3, <2>1, <2>2, <2>3, <2>4 DEF Played!NewSpeed
<1>8. Loops = Played!NewLoops
  <2>1. Loops = [v \in Voice |-> [start |-> LoopAfter(v).start, count |-> LoopAfter(v).count]]
    BY <1>1, <1>6 DEF MidRow, Loops
  <2>2. \A v \in Voice : LoopAfter(v) = [start |-> LoopAfter(v).start, count |-> LoopAfter(v).count]
    BY <1>1, RowCellsAre
  <2>3. Played!NewLoops = [v \in Voice |-> LoopAfter(v)]
    BY <1>1, <1>2, <1>3 DEF Played!NewLoops, LoopAfter
  <2> QED
    BY <2>1, <2>2, <2>3
<1>9. /\ mt_PattDelTime = (IF With("EE") = {} THEN 0 ELSE Played!Times)
      /\ With("EE") = {} => Played!Times = 1
  <2> DEFINE f == [v \in Voice |-> Args[v] + 1]
  <2>1. Says(mt_PattDelTime, With("EE"), f, 0)
    BY <1>1, <1>4, <1>5 DEF MidRow
  <2>2. \A v \in Voice : f[v] = RowCells[v].arg + 1
    BY <1>1, RowCellsAre
  <2> HIDE DEF f
  <2>3. With("EE") = {} => mt_PattDelTime = 0
    BY <2>1 DEF Says
  <2>4. With("EE") # {} => \E v \in With("EE") : mt_PattDelTime = f[v] /\ Played!Last(With("EE")) = v
    BY <1>4, <2>1, LastIs DEF Says
  <2> QED
    BY <1>2, <1>3, <1>4, <2>2, <2>3, <2>4 DEF Played!Times
<1>10. mt_SongPos = (IF With("B") = {} THEN settled.pos ELSE Args[Played!Last(With("B"))] - 1)
  <2> DEFINE f == [v \in Voice |-> Args[v] - 1]
  <2>1. Says(mt_SongPos, With("B"), f, settled.pos)
    BY <1>1, <1>4, <1>5 DEF MidRow
  <2>2. \A v \in Voice : f[v] = Args[v] - 1
    OBVIOUS
  <2> HIDE DEF f
  <2>3. With("B") # {} => \E v \in With("B") : mt_SongPos = f[v] /\ Played!Last(With("B")) = v
    BY <1>4, <2>1, LastIs DEF Says
  <2> QED
    BY <1>4, <2>1, <2>2, <2>3 DEF Says
<1>11. mt_PBreakPos = (IF LeaveVoices \union AgainVoices = {} THEN 0
                       ELSE Broken[Played!Last(LeaveVoices \union AgainVoices)])
  <2> DEFINE W == LeaveVoices \union AgainVoices
  <2>1. W \in SUBSET Voice /\ Says(mt_PBreakPos, {v \in W : v < Voices + 1}, Broken, 0)
    <3>1. W \in SUBSET Voice
      BY <1>4
    <3>2. Says(mt_PBreakPos, Before(W), Broken, 0)
      BY <1>1 DEF MidRow
    <3> HIDE DEF W
    <3> QED
      BY <1>5, <3>1, <3>2
  <2> HIDE DEF W
  <2>2. mt_PBreakPos = (IF W = {} THEN 0 ELSE Broken[Played!Last(W)])
    BY <2>1, AllSaid
  <2> QED
    BY <2>2 DEF W
<1>12. (mt_PosJumpFlag <=> Played!Leaves # {}) /\ (mt_PBreakFlag <=> Played!Again # {})
  BY <1>1, <1>3, <1>4, <1>5 DEF MidRow
<1>13. \A v \in Voice : Played!Cells[v] = RowCells[v] /\ ch[v].cell = RowCells[v]
  BY <1>1, <1>2, <1>6 DEF MidRow
<1> QED
  BY <1>3, <1>7, <1>8, <1>9, <1>10, <1>11, <1>12, <1>13

\* A row that is held says nothing else of the order.
LEMMA HeldRowPlain ==
  ASSUME PlainSongs, RefInv, music.does = "play", music.voice > Voices, DelayLeft > 0
  PROVE  /\ LeaveVoices = {} /\ AgainVoices = {} /\ \A v \in Voice : ch[v].cell.cmd # "E6"
<1> USE DEF RefInv, ScoreInv
<1>1. MidRow /\ Settled /\ IInv
  OBVIOUS
<1>2. mt_PattDelTime = (IF With("EE") = {} THEN 0 ELSE Played!Times) /\ Played!With("EE") = With("EE")
      /\ \A v \in Voice : Played!Cells[v] = RowCells[v] /\ ch[v].cell = RowCells[v]
  BY RowIsScore
<1>3. mt_PattDelTime - 1 > 0 /\ With("EE") # {}
  BY <1>1, <1>2 DEF DelayLeft, Delay, MidRow
<1>4. \E v \in With("EE") : mt_PattDelTime = RowCells[v].arg + 1
  <2>1. Says(mt_PattDelTime, Before(With("EE")), [v \in Voice |-> Args[v] + 1], 0)
    BY <1>1 DEF MidRow
  <2>2. mt_PattDelTime # 0
    BY <1>1, <1>3 DEF IInv, Typed
  <2>3. PICK v \in Before(With("EE")) : mt_PattDelTime = [u \in Voice |-> Args[u] + 1][v]
    BY <2>1, <2>2 DEF Says
  <2>4. v \in With("EE") /\ v \in Voice
    BY DEF Before, With
  <2> QED
    BY <1>1, <2>3, <2>4, RowCellsAre
<1>5. \E v \in Voice : RowCells[v].cmd = "EE" /\ RowCells[v].arg # 0
  BY <1>1, <1>3, <1>4, RowCellsAre DEF With
<1>6. \A v \in Voice : RowCells[v].cmd \notin {"B", "D", "E6"}
  <2>1. song \in Songs /\ settled.pos \in 0 .. Positions - 1 /\ settled.row \in Row
    BY <1>1 DEF IInv, Typed, Settled
  <2> QED
    BY <1>5, <2>1 DEF PlainSongs, RowCells
<1> QED
  BY <1>2, <1>6 DEF LeaveVoices, AgainVoices, EndVoices, With

\* A row that leaves goes on where the score does.
LEMMA LeavesTo ==
  ASSUME RefInv, music.does = "play", music.voice > Voices, Played!Leaves # {}
  PROVE  [pos |-> Following(mt_SongPos), row |-> BreakPosLeft] = Played!Follower
<1> USE DEF RefInv, ScoreInv
<1>1. MidRow /\ Settled /\ IInv /\ settled.del = 0
  <2>1. MidRow /\ Settled /\ IInv
    OBVIOUS
  <2> QED
    BY <2>1 DEF MidRow
<1>2. /\ Played!Again = AgainVoices /\ Played!Leaves = LeaveVoices
      /\ \A cmd : Played!With(cmd) = With(cmd)
      /\ mt_PBreakFlag <=> AgainVoices # {}
      /\ mt_SongPos = (IF With("B") = {} THEN settled.pos ELSE Args[Played!Last(With("B"))] - 1)
      /\ mt_PBreakPos = (IF LeaveVoices \union AgainVoices = {} THEN 0
                         ELSE Broken[Played!Last(LeaveVoices \union AgainVoices)])
      /\ \A v \in Voice : Played!Cells[v] = RowCells[v]
  BY RowIsScore
<1>3. With("B") # {} => Played!Last(With("B")) \in Voice
  <2>1. Says(mt_SongPos, Before(With("B")), [v \in Voice |-> Args[v] - 1], settled.pos)
    BY <1>1 DEF MidRow
  <2>2. With("B") \in SUBSET Voice /\ Before(With("B")) = With("B")
    <3>1. With("B") \in SUBSET Voice
      BY DEF With
    <3> QED
      BY <1>1, <3>1, AllBefore
  <2> QED
    BY <2>1, <2>2, LastIs DEF Says
<1>4. (mt_SongPos + 1) % Positions
        = (IF With("B") = {} THEN settled.pos + 1 ELSE Played!Cells[Played!Last(With("B"))].arg) % Positions
  <2>1. CASE With("B") = {}
    BY <1>2, <2>1
  <2>2. CASE With("B") # {}
    <3>1. Args[Played!Last(With("B"))] \in Nat
          /\ Played!Cells[Played!Last(With("B"))].arg = Args[Played!Last(With("B"))]
      BY <1>1, <1>2, <1>3, <2>2, RowCellsAre
    <3>2. mt_SongPos + 1 = Args[Played!Last(With("B"))]
      BY <1>2, <2>2, <3>1
    <3> QED
      BY <2>2, <3>1, <3>2
  <2> QED
    BY <2>1, <2>2
<1>5. Following(mt_SongPos) = Played!Position
  BY <1>1, <1>2, <1>4 DEF Following, Played!Position
<1>6. CASE AgainVoices = {}
  <2>1. LeaveVoices \union AgainVoices = LeaveVoices /\ LeaveVoices # {}
    BY <1>2, <1>6
  <2>2. \E v \in LeaveVoices : Played!Last(LeaveVoices) = v
    <3>1. Says(mt_PBreakPos, Before(LeaveVoices \union AgainVoices), Broken, 0)
      BY <1>1 DEF MidRow
    <3>2. LeaveVoices \in SUBSET Voice /\ Before(LeaveVoices) = LeaveVoices
      <4>1. LeaveVoices \in SUBSET Voice
        BY DEF LeaveVoices, With
      <4> QED
        BY <1>1, <4>1, AllBefore
    <3> QED
      BY <2>1, <3>1, <3>2, LastIs DEF Says
  <2>3. PICK v \in LeaveVoices : Played!Last(LeaveVoices) = v
    BY <2>2
  <2>4. v \in Voice /\ RowCells[v].cmd \in {"B", "D"} /\ v \notin AgainVoices
    BY <1>6 DEF LeaveVoices, With
  <2>5. Broken[v] = Played!RowOf(v)
    BY <1>1, <1>2, <2>4 DEF Broken, Played!RowOf, With
  <2>6. BreakPosLeft = Played!RowOf(v)
    BY <1>2, <1>6, <2>1, <2>3, <2>5 DEF BreakPosLeft
  <2> QED
    BY <1>2, <1>5, <1>6, <2>3, <2>6 DEF Played!Follower
<1>7. CASE AgainVoices # {}
  BY <1>2, <1>5, <1>7 DEF Played!Follower, BreakPosLeft
<1> QED
  BY <1>6, <1>7

\* The end of a call leaves what the next one finds.
LEMMA EndOfCall ==
  ASSUME IInv', Settled, music' = Returned, UNCHANGED song,
         settled' = Left(mt_SongPos', mt_PatternPos', mt_PattDelTime2', mt_counter', mt_speed', Loops'),
         mt_counter' < mt_speed', mt_speed' \in Nat \ {0}, mt_PattDelTime' = 0,
         mt_PattDelTime2' > 0 => \A v \in Voice : ch'[v].cell.cmd # "E6"
  PROVE  ScoreInv'
<1>1. music'.does = "nothing"
  BY DEF Returned
<1>2. /\ settled'.pos = mt_SongPos' /\ settled'.row = mt_PatternPos' /\ settled'.del = mt_PattDelTime2'
      /\ settled'.counter = mt_counter' /\ settled'.speed = mt_speed' /\ settled'.loops = Loops'
  BY DEF Left
<1>3. /\ mt_SongPos' \in 0 .. Positions - 1 /\ mt_PatternPos' \in Row /\ mt_PattDelTime2' \in Nat
      /\ mt_counter' \in Nat /\ mt_PBreakPos' = 0 /\ ~mt_PBreakFlag'
  <2>1. song'.length \in 1 .. Positions /\ ~mt_PosJumpFlag'
    BY <1>1, ReplayAssumption DEF IInv, Typed, Noted
  <2> QED
    BY <1>1, <2>1, ReplayAssumption DEF IInv, Typed, Noted, InSong
<1>4. Loops' \in [Voice -> [start : Row, count : Int]]
  BY DEF IInv, Typed, Loops
<1>5. Settled'
  BY <1>2, <1>3, <1>4 DEF Settled, Left
<1>6. Between'
  BY <1>2, <1>3 DEF Between
<1> QED
  BY <1>1, <1>2, <1>5, <1>6 DEF ScoreInv

\* Where the score stands, read off what a call of mt_music left.
Stands(s) == IF s.del = 0 THEN [pos |-> s.pos, row |-> s.row]
             ELSE IF s.row = Rows - 1 THEN [pos |-> Following(s.pos), row |-> 0]
             ELSE [pos |-> s.pos, row |-> s.row + 1]
Waits(s) == s.speed * (s.del + 1) - s.counter

LEMMA TickOf ==
  ASSUME UNCHANGED song, settled'.speed = settled.speed, settled'.loops = settled.loops,
         Stands(settled') = Stands(settled), Waits(settled) > 1, Waits(settled') = Waits(settled) - 1
  PROVE  Played!Tick
<1>1. Stands(settled)' = Stands(settled') /\ Waits(settled)' = Waits(settled')
  BY DEF Stands, Waits, Following
<1> QED
  BY <1>1 DEF Played!Tick, Stands, Waits, Following

\* A tick within a row.
LEMMA ScoreEffectsEnd == RefInv /\ EffectsEnd /\ IInv' => ScoreInv' /\ Played!Tick
<1> SUFFICES ASSUME RefInv, EffectsEnd, IInv' PROVE ScoreInv' /\ Played!Tick
  OBVIOUS
<1> USE DEF RefInv, ScoreInv
<1>1. /\ music.does = "effects" /\ Between /\ Settled /\ IInv /\ ~mt_PosJumpFlag
      /\ mt_counter = settled.counter + 1 /\ mt_counter < settled.speed
  BY DEF EffectsEnd, IInv, Noted
<1>2. /\ UNCHANGED <<song, mt_counter, mt_speed, mt_PatternPos, mt_SongPos, mt_PattDelTime,
                     mt_PattDelTime2, ch>>
      /\ music' = Returned
      /\ settled' = Left(mt_SongPos', mt_PatternPos', mt_PattDelTime2, mt_counter, mt_speed, Loops)
  BY <1>1 DEF EffectsEnd, delays
<1>3. Loops' = Loops
  BY <1>2 DEF Loops
<1>4. ScoreInv'
  <2>1. mt_counter' < mt_speed' /\ mt_speed' \in Nat \ {0} /\ mt_PattDelTime' = 0
        /\ (mt_PattDelTime2' > 0 => \A v \in Voice : ch'[v].cell.cmd # "E6")
    BY <1>1, <1>2 DEF Between, Settled
  <2> QED
    BY <1>1, <1>2, <1>3, <2>1, EndOfCall
<1>5. /\ settled'.pos = settled.pos /\ settled'.row = settled.row /\ settled'.del = settled.del
      /\ settled'.speed = settled.speed /\ settled'.loops = settled.loops
      /\ settled'.counter = settled.counter + 1
  BY <1>1, <1>2 DEF Between, Left
<1>6. Waits(settled) > 1 /\ Waits(settled') = Waits(settled) - 1
  <2> DEFINE n == settled.speed
             d == settled.del
             k == settled.counter
  <2>1. n \in Nat /\ d \in Nat /\ k \in Nat /\ k + 1 < n
    BY <1>1 DEF Settled
  <2>2. n * (d + 1) = n * d + n /\ n * d \in Nat
    BY <2>1
  <2>3. Waits(settled) = n * (d + 1) - k /\ Waits(settled') = n * (d + 1) - (k + 1)
    BY <1>5 DEF Waits
  <2> HIDE DEF n, d, k
  <2> QED
    BY <2>1, <2>2, <2>3
<1>7. Stands(settled') = Stands(settled)
  BY <1>5 DEF Stands
<1> QED
  BY <1>2, <1>4, <1>5, <1>6, <1>7, TickOf

\* One more round of a row that is held.
LEMMA ScoreHold == RefInv /\ Dskip /\ music.does = "hold" /\ IInv' => ScoreInv' /\ Played!Tick
<1> SUFFICES ASSUME RefInv, Dskip, music.does = "hold", IInv' PROVE ScoreInv' /\ Played!Tick
  OBVIOUS
<1> USE DEF RefInv, ScoreInv
<1>1. /\ Between /\ Settled /\ IInv /\ ~mt_PosJumpFlag /\ ~mt_PBreakFlag /\ mt_PBreakPos = 0
      /\ mt_counter = 0 /\ settled.counter + 1 = settled.speed /\ settled.del > 0
  BY DEF IInv, Noted, Between
<1>2. /\ settled.del \in Nat \ {0} /\ settled.speed \in Nat \ {0} /\ settled.row \in Row /\ settled.counter \in Nat
  BY <1>1 DEF Settled
<1>3. DelayLeft = settled.del - 1
  BY <1>1, <1>2 DEF DelayLeft, Delay, Between
<1>4. /\ mt_PattDelTime' = 0 /\ mt_PattDelTime2' = DelayLeft
      /\ music' = Returned /\ UNCHANGED <<song, mt_counter, mt_speed, ch>>
      /\ settled' = Left(mt_SongPos', mt_PatternPos', mt_PattDelTime2', mt_counter, mt_speed, Loops)
  BY DEF Dskip
<1>5. Loops' = Loops /\ Loops = settled.loops /\ mt_speed = settled.speed
  BY <1>1, <1>4 DEF Loops, Between
<1>6. ScoreInv'
  <2>1. mt_counter' < mt_speed' /\ mt_speed' \in Nat \ {0}
    BY <1>1, <1>2, <1>4, <1>5
  <2>2. \A v \in Voice : ch'[v].cell.cmd # "E6"
    BY <1>1, <1>4 DEF Between
  <2> QED
    BY <1>1, <1>4, <1>5, <2>1, <2>2, EndOfCall
<1>7. /\ settled'.pos = mt_SongPos' /\ settled'.row = mt_PatternPos' /\ settled'.del = settled.del - 1
      /\ settled'.counter = 0 /\ settled'.speed = settled.speed /\ settled'.loops = settled.loops
  BY <1>1, <1>3, <1>4, <1>5 DEF Left
<1>8. Stands(settled') = Stands(settled)
  <2>1. settled.pos = mt_SongPos /\ settled.row = mt_PatternPos /\ BreakPosLeft = 0
    BY <1>1 DEF Between, BreakPosLeft
  <2>2. CASE settled.del - 1 > 0
    <3>1. mt_PatternPos' = mt_PatternPos /\ mt_SongPos' = mt_SongPos
      BY <1>1, <1>2, <1>3, <2>1, <2>2, ReplayAssumption DEF Dskip, Row
    <3> QED
      BY <1>1, <1>2, <1>7, <2>1, <2>2, <3>1 DEF Stands
  <2>3. CASE ~(settled.del - 1 > 0) /\ settled.row + 1 < Rows
    <3>1. mt_PatternPos' = mt_PatternPos + 1 /\ mt_SongPos' = mt_SongPos
      BY <1>1, <1>2, <1>3, <2>1, <2>3, ReplayAssumption DEF Dskip, Row
    <3>2. settled'.del = 0 /\ settled.del # 0 /\ settled.row # Rows - 1
      BY <1>2, <1>7, <2>3, ReplayAssumption DEF Row
    <3> QED
      BY <1>7, <2>1, <3>1, <3>2 DEF Stands
  <2>4. CASE ~(settled.del - 1 > 0) /\ ~(settled.row + 1 < Rows)
    <3>1. mt_PatternPos' = 0 /\ mt_SongPos' = Following(mt_SongPos)
      BY <1>1, <1>2, <1>3, <2>1, <2>4, ReplayAssumption DEF Dskip, Row, NextPosition
    <3>2. settled'.del = 0 /\ settled.del # 0 /\ settled.row = Rows - 1
      BY <1>2, <1>7, <2>4, ReplayAssumption DEF Row
    <3> QED
      BY <1>7, <2>1, <3>1, <3>2 DEF Stands
  <2> QED
    BY <2>2, <2>3, <2>4
<1>9. Waits(settled) > 1 /\ Waits(settled') = Waits(settled) - 1
  <2> DEFINE n == settled.speed
             d == settled.del
             k == settled.counter
  <2>1. n \in Nat \ {0} /\ d \in Nat \ {0} /\ k \in Nat /\ k + 1 = n
    BY <1>1, <1>2
  <2>2. n * (d + 1) = n * d + n /\ n * d \in Nat /\ n * d >= 1 /\ n * ((d - 1) + 1) = n * d
    BY <2>1
  <2>3. Waits(settled) = n * (d + 1) - k /\ Waits(settled') = n * ((d - 1) + 1) - 0
    BY <1>7 DEF Waits
  <2> HIDE DEF n, d, k
  <2> QED
    BY <2>1, <2>2, <2>3
<1> QED
  BY <1>4, <1>6, <1>7, <1>8, <1>9, TickOf

\* The end of a new row.
LEMMA ScorePlay ==
  ASSUME PlainSongs, RefInv, Dskip, music.does = "play", IInv'
  PROVE  ScoreInv' /\ Played!Play
<1> USE DEF RefInv, ScoreInv
<1>1. MidRow /\ Settled /\ IInv /\ music.voice > Voices
  BY DEF Dskip
<1>2. /\ settled.del = 0 /\ settled.counter + 1 = settled.speed /\ mt_counter = 0 /\ mt_PattDelTime2 = 0
      /\ mt_PatternPos = settled.row /\ settled.row \in Row
      /\ settled.speed \in Nat \ {0} /\ settled.counter \in Nat
  BY <1>1 DEF MidRow, Settled
<1>3. /\ mt_PattDelTime' = 0 /\ mt_PattDelTime2' = DelayLeft /\ mt_PBreakFlag' = FALSE
      /\ music' = Returned /\ UNCHANGED <<song, mt_counter, mt_speed, ch>>
      /\ settled' = Left(mt_SongPos', mt_PatternPos', mt_PattDelTime2', mt_counter, mt_speed, Loops)
  BY DEF Dskip
<1>4. /\ mt_speed = Played!NewSpeed /\ mt_speed \in Nat \ {0} /\ Loops = Played!NewLoops
      /\ mt_PattDelTime = (IF With("EE") = {} THEN 0 ELSE Played!Times)
      /\ With("EE") = {} => Played!Times = 1
      /\ mt_PosJumpFlag <=> Played!Leaves # {}
      /\ mt_PBreakFlag <=> Played!Again # {}
      /\ Played!Leaves = LeaveVoices /\ Played!Again = AgainVoices
      /\ mt_SongPos = (IF With("B") = {} THEN settled.pos ELSE Args[Played!Last(With("B"))] - 1)
      /\ mt_PBreakPos = (IF LeaveVoices \union AgainVoices = {} THEN 0
                         ELSE Broken[Played!Last(LeaveVoices \union AgainVoices)])
      /\ \A cmd : Played!With(cmd) = With(cmd)
  BY <1>1, RowIsScore
<1>5. DelayLeft > 0 => LeaveVoices = {} /\ AgainVoices = {} /\ \A v \in Voice : ch[v].cell.cmd # "E6"
  BY <1>1, HeldRowPlain
<1>6. Loops' = Loops
  BY <1>3 DEF Loops
<1>7. ScoreInv'
  <2>1. mt_counter' < mt_speed' /\ mt_speed' \in Nat \ {0}
    BY <1>2, <1>3, <1>4
  <2>2. mt_PattDelTime2' > 0 => \A v \in Voice : ch'[v].cell.cmd # "E6"
    BY <1>3, <1>5
  <2> QED
    BY <1>1, <1>3, <1>6, <2>1, <2>2, EndOfCall
<1>8. /\ settled'.pos = mt_SongPos' /\ settled'.row = mt_PatternPos' /\ settled'.del = DelayLeft
      /\ settled'.counter = 0 /\ settled'.speed = mt_speed /\ settled'.loops = Loops
  BY <1>2, <1>3 DEF Left
<1>9. DelayLeft \in Nat /\ DelayLeft + 1 = Played!Times
  <2>1. mt_PattDelTime \in Nat
    BY <1>1 DEF IInv, Typed
  <2>2. CASE With("EE") = {}
    BY <1>2, <1>4, <2>2 DEF DelayLeft, Delay
  <2>3. CASE With("EE") # {}
    <3>1. Says(mt_PattDelTime, Before(With("EE")), [v \in Voice |-> Args[v] + 1], 0)
      BY <1>1 DEF MidRow
    <3>2. Before(With("EE")) = With("EE")
      <4>1. With("EE") \in SUBSET Voice
        BY DEF With
      <4> QED
        BY <1>1, <4>1, AllBefore
    <3>3. PICK v \in With("EE") : mt_PattDelTime = [u \in Voice |-> Args[u] + 1][v]
      BY <2>3, <3>1, <3>2 DEF Says
    <3>4. mt_PattDelTime > 0
      BY <1>1, <3>3, RowCellsAre DEF With
    <3> QED
      BY <1>2, <1>4, <2>1, <2>3, <3>4 DEF DelayLeft, Delay
  <2> QED
    BY <2>2, <2>3
<1>10. Waits(settled) = 1 /\ Waits(settled') = Played!NewSpeed * Played!Times
  <2>1. Waits(settled) = settled.speed * (0 + 1) - settled.counter
    BY <1>2 DEF Waits
  <2>2. Waits(settled') = mt_speed * (DelayLeft + 1) - 0
    BY <1>8 DEF Waits
  <2>3. settled.speed * (0 + 1) = settled.speed
    <3>1. settled.speed \in Int
      BY <1>2
    <3> QED
      BY <3>1
  <2>4. Waits(settled) = 1
    BY <1>2, <2>1, <2>3
  <2>5. mt_speed * (DelayLeft + 1) = Played!NewSpeed * Played!Times
    BY <1>4, <1>9
  <2>6. mt_speed * (DelayLeft + 1) \in Int
    BY <1>4, <1>9
  <2>7. Waits(settled') = mt_speed * (DelayLeft + 1)
    BY <2>2, <2>6
  <2> QED
    BY <2>4, <2>5, <2>7
<1>11. Stands(settled') = Played!Follower
  <2> DEFINE advanced == IF DelayLeft > 0 THEN mt_PatternPos ELSE mt_PatternPos + 1
             row == IF mt_PBreakFlag THEN mt_PBreakPos ELSE advanced
  <2>1. IF row >= Rows \/ mt_PosJumpFlag
        THEN NextPosition(BreakPosLeft)
        ELSE mt_PatternPos' = row /\ UNCHANGED mt_SongPos
    BY DEF Dskip
  <2>2. CASE LeaveVoices # {}
    <3>1. ~(DelayLeft > 0) /\ mt_PosJumpFlag
      BY <1>4, <1>5, <2>2
    <3>2. mt_PatternPos' = BreakPosLeft /\ mt_SongPos' = Following(mt_SongPos) /\ DelayLeft = 0
      BY <1>9, <2>1, <3>1 DEF NextPosition
    <3>3. Stands(settled') = [pos |-> Following(mt_SongPos), row |-> BreakPosLeft]
      BY <1>8, <3>2 DEF Stands
    <3> QED
      BY <1>1, <1>4, <2>2, <3>3, LeavesTo
  <2>3. CASE LeaveVoices = {}
    <3>1. With("B") = {} /\ mt_SongPos = settled.pos /\ ~mt_PosJumpFlag /\ Played!With("B") = {}
      BY <1>4, <2>3 DEF LeaveVoices
    <3>2. Played!Position = Following(settled.pos)
      BY <1>2, <3>1 DEF Played!Position, Following
    <3>3. CASE AgainVoices # {}
      <4>1. ~(DelayLeft > 0) /\ mt_PBreakFlag /\ DelayLeft = 0
        BY <1>4, <1>5, <1>9, <3>3
      <4>2. LeaveVoices \union AgainVoices = AgainVoices /\ AgainVoices \in SUBSET Voice
        BY <2>3 DEF AgainVoices, EndVoices, With
      <4>3. \E v \in AgainVoices : Played!Last(AgainVoices) = v
        <5>1. Says(mt_PBreakPos, Before(AgainVoices), Broken, 0)
          BY <1>1, <4>2 DEF MidRow
        <5>2. Before(AgainVoices) = AgainVoices
          BY <1>1, <4>2, AllBefore
        <5> QED
          BY <3>3, <4>2, <5>1, <5>2, LastIs DEF Says
      <4>4. PICK v \in AgainVoices : Played!Last(AgainVoices) = v
        BY <4>3
      <4>5. mt_PBreakPos = settled.loops[v].start /\ settled.loops[v].start \in Row
        BY <1>1, <1>4, <3>3, <4>2, <4>4, RowCellsAre DEF Broken
      <4>6. mt_PatternPos' = settled.loops[v].start /\ mt_SongPos' = settled.pos
        BY <2>1, <3>1, <4>1, <4>5, ReplayAssumption DEF Row
      <4>7. Stands(settled') = [pos |-> settled.pos, row |-> settled.loops[v].start]
        BY <1>8, <4>1, <4>6 DEF Stands
      <4> QED
        BY <1>2, <1>4, <2>3, <3>3, <4>4, <4>7 DEF Played!Follower
    <3>4. CASE AgainVoices = {}
      <4>1. ~mt_PBreakFlag /\ mt_PBreakPos = 0 /\ BreakPosLeft = 0
        <5>1. ~mt_PBreakFlag /\ LeaveVoices \union AgainVoices = {}
          BY <1>4, <2>3, <3>4
        <5> QED
          BY <1>4, <5>1 DEF BreakPosLeft
      <4>2. Played!Follower = IF settled.row = Rows - 1 THEN [pos |-> Following(settled.pos), row |-> 0]
                              ELSE [pos |-> settled.pos, row |-> settled.row + 1]
        BY <1>2, <1>4, <2>3, <3>2, <3>4 DEF Played!Follower
      <4>3. CASE DelayLeft > 0
        <5>1. mt_PatternPos' = settled.row /\ mt_SongPos' = settled.pos
          BY <1>2, <2>1, <3>1, <4>1, <4>3, ReplayAssumption DEF Row
        <5> QED
          BY <1>2, <1>8, <1>9, <4>2, <4>3, <5>1 DEF Stands
      <4>4. CASE ~(DelayLeft > 0) /\ settled.row + 1 < Rows
        <5>1. mt_PatternPos' = settled.row + 1 /\ mt_SongPos' = settled.pos /\ DelayLeft = 0
              /\ settled.row # Rows - 1
          BY <1>2, <1>9, <2>1, <3>1, <4>1, <4>4, ReplayAssumption DEF Row
        <5> QED
          BY <1>8, <4>2, <5>1 DEF Stands
      <4>5. CASE ~(DelayLeft > 0) /\ ~(settled.row + 1 < Rows)
        <5>1. row >= Rows /\ DelayLeft = 0 /\ settled.row = Rows - 1
          BY <1>2, <1>9, <4>1, <4>5, ReplayAssumption DEF Row
        <5>2. mt_PatternPos' = 0 /\ mt_SongPos' = Following(settled.pos)
          BY <2>1, <3>1, <4>1, <5>1 DEF NextPosition
        <5> QED
          BY <1>8, <4>2, <5>1, <5>2 DEF Stands
      <4> QED
        BY <4>3, <4>4, <4>5
    <3> QED
      BY <3>3, <3>4
  <2> QED
    BY <2>2, <2>3
<1>12. Stands(settled)' = Stands(settled') /\ Waits(settled)' = Waits(settled')
  BY <1>3 DEF Stands, Waits, Following
<1> QED
  BY <1>3, <1>4, <1>7, <1>8, <1>10, <1>11, <1>12 DEF Played!Play, Stands, Waits, Following

LEMMA ScoreStep ==
  ASSUME PlainSongs, RefInv, [Next]_vars
  PROVE  RefInv' /\ [Played!Tick \/ Played!Play]_(Played!vars)
<1> USE DEF RefInv
<1>1. IInv'
  BY StepInv
<1>2. UNCHANGED <<song, settled>> => UNCHANGED Played!vars
  BY DEF Played!vars, Following
<1>3. CASE UNCHANGED vars
  <2>1. UNCHANGED <<song, settled, music, ch, mt_counter, mt_speed, mt_PatternPos, mt_PattDelTime,
                   mt_PattDelTime2, mt_SongPos, mt_PBreakPos, mt_PBreakFlag, mt_PosJumpFlag>>
    BY <1>3 DEF vars, delays, breaks
  <2>2. Kept /\ Loops' = Loops /\ Voice' = Voice
    BY <2>1, RowKept DEF Loops
  <2>3. Settled' /\ (Between => Between')
    BY <2>1, <2>2 DEF ScoreInv, Settled, Between
  <2>4. \A S : Before(S)' = {v \in S' : v < music.voice}
    BY <2>1 DEF Before
  <2>5. MidRow => MidRow'
    <3>1. /\ Before(SpeedVoices)' = Before(SpeedVoices) /\ Before(With("EE"))' = Before(With("EE"))
          /\ Before(With("B"))' = Before(With("B")) /\ Before(LeaveVoices)' = Before(LeaveVoices)
          /\ Before(AgainVoices)' = Before(AgainVoices)
          /\ Before(LeaveVoices \union AgainVoices)' = Before(LeaveVoices \union AgainVoices)
      BY <2>1, <2>2 DEF Before, Kept
    <3> QED
      BY <2>1, <2>2, <3>1 DEF MidRow, Says, Kept
  <2> QED
    BY <1>1, <1>2, <2>1, <2>3, <2>5 DEF ScoreInv
<1>4. CASE Tick
  BY <1>1, <1>2, <1>4, ScoreTick DEF Tick
<1>5. CASE PlayVoice
  BY <1>1, <1>2, <1>5, ScorePlayVoice DEF PlayVoice
<1>6. CASE CheckEfx
  BY <1>1, <1>2, <1>6, ScoreCheckEfx DEF CheckEfx
<1>7. CASE Dskip
  <2>1. music.does \in {"play", "hold"}
    BY <1>7 DEF Dskip
  <2> QED
    BY <1>1, <1>7, <2>1, ScoreHold, ScorePlay
<1>8. CASE EffectsEnd
  BY <1>1, <1>8, ScoreEffectsEnd
<1> QED
  BY <1>3, <1>4, <1>5, <1>6, <1>7, <1>8 DEF Next

\* For every song in which a row that is held does not jump, break or loop as
\* well: the rows follow one another, and last as many ticks, as the commands
\* of the song say (mt_GetNewNote, mt_dskip, mt_nextPosition), though the code
\* reads them voice by voice and notes in variables what the later ones undo.
THEOREM PlaysTheScore == ASSUME PlainSongs PROVE Spec => ImplementsScore
<1>1. Init => RefInv /\ Played!Init
  <2> SUFFICES ASSUME Init PROVE RefInv /\ Played!Init
    OBVIOUS
  <2>1. RefInv
    BY InitInv, ScoreInvInit DEF RefInv
  <2>2. /\ settled.pos = 0 /\ settled.row = 0 /\ settled.del = 0 /\ settled.counter = 0
        /\ settled.speed = FirstSpeed /\ settled.loops = [v \in Voice |-> [start |-> 0, count |-> 0]]
    BY DEF Init, Left, Loops
  <2>3. FirstSpeed * (0 + 1) - 0 = FirstSpeed
    BY ReplayAssumption
  <2> QED
    BY <2>1, <2>2, <2>3 DEF Played!Init, Played!Voice, Voice
<1>2. RefInv /\ [Next]_vars => RefInv' /\ [Played!Tick \/ Played!Play]_(Played!vars)
  BY ScoreStep
<1> QED
  BY <1>1, <1>2, PTL DEF Spec, ImplementsScore, Played!Spec

-----------------------------------------------------------------------------
(* How often notes start.                                                  *)

\* Multiples of a among the ticks 0 .. n - 1.
Multiples(n, a) == ((n + a) - 1) \div a
\* Starts a cell asks for on the first n ticks of a pass through its row, but
\* for the note that starts as it is read.
InPass(c, n) ==
    CASE c.cmd = "E9" /\ c.arg # 0 -> Multiples(n, c.arg) - (IF c.note /\ n > 0 THEN 1 ELSE 0)
      [] c.cmd = "ED" /\ c.note /\ c.arg < n -> 1
      [] OTHER -> 0
AsRead(c) == IF c.note /\ c.cmd \notin {"3", "ED"} THEN 1 ELSE 0

\* Passes through the row that are over, and ticks a voice has had of this one.
Passes == IF music.does = "hold" \/ (music.does = "play" /\ music.voice = 1) THEN held + 1 ELSE held
Ticks(v) == IF music.does = "nothing" \/ v < music.voice THEN mt_counter + 1 ELSE mt_counter
NoteCounted(v) ==
    starts[v] = AsRead(ch[v].cell) + (Passes * InPass(ch[v].cell, mt_speed)) + InPass(ch[v].cell, Ticks(v))
NoteInv ==
    /\ starts \in [Voice -> Int] /\ held \in Nat /\ mt_speed \in Nat \ {0}
    /\ mt_counter < mt_speed /\ (music.does \in {"play", "hold"} => mt_counter = 0)
    /\ music.voice > 0
    /\ music.does = "play" /\ music.voice > 1 => held = 0
    /\ \A v \in Voice : (music.does = "play" /\ music.voice > 1 => v < music.voice) => NoteCounted(v)

LEMMA QuotientIs ==
  ASSUME NEW k \in Nat, NEW m \in Nat \ {0}, NEW r \in 0 .. m - 1
  PROVE  (m * k + r) \div m = k /\ (m * k + r) % m = r
  OBVIOUS

LEMMA QuotientOf ==
  ASSUME NEW n \in Nat, NEW m \in Nat \ {0}
  PROVE  n \div m \in Nat /\ n % m \in 0 .. m - 1 /\ n = m * (n \div m) + (n % m)
<1>1. n \div m \in Nat /\ n % m \in 0 .. m - 1
  OBVIOUS
<1>2. n = m * (n \div m) + (n % m)
  OBVIOUS
<1> QED
  BY <1>1, <1>2

\* One tick more adds a multiple when it is one.
LEMMA MultiplesNext ==
  ASSUME NEW n \in Nat, NEW a \in Nat \ {0}
  PROVE  /\ Multiples(n, a) \in Nat
         /\ Multiples(n + 1, a) = Multiples(n, a) + (IF n % a = 0 THEN 1 ELSE 0)
         /\ Multiples(n + 1, a) = (n \div a) + 1
<1> DEFINE q == n \div a
           r == n % a
<1>1. q \in Nat /\ r \in 0 .. a - 1 /\ n = a * q + r
  BY QuotientOf
<1> HIDE DEF q, r
<1>2. Multiples(n + 1, a) = q + 1
  <2>1. a * (q + 1) = a * q + a
    BY <1>1
  <2>2. ((n + 1) + a) - 1 = a * (q + 1) + r
    BY <1>1, <2>1
  <2>3. q + 1 \in Nat
    BY <1>1
  <2>4. (a * (q + 1) + r) \div a = q + 1
    BY <1>1, <2>3, QuotientIs
  <2> QED
    BY <2>2, <2>4 DEF Multiples
<1>3. CASE r = 0
  <2>1. (n + a) - 1 = a * q + (a - 1) /\ a - 1 \in 0 .. a - 1
    BY <1>1, <1>3
  <2>2. (a * q + (a - 1)) \div a = q
    BY <1>1, <2>1, QuotientIs
  <2>3. Multiples(n, a) = q
    BY <2>1, <2>2 DEF Multiples
  <2> QED
    BY <1>1, <1>2, <1>3, <2>3 DEF q, r
<1>4. CASE r # 0
  <2>1. a * (q + 1) = a * q + a
    BY <1>1
  <2>2. (n + a) - 1 = a * (q + 1) + (r - 1) /\ r - 1 \in 0 .. a - 1
    BY <1>1, <1>4, <2>1
  <2>3. q + 1 \in Nat
    BY <1>1
  <2>4. (a * (q + 1) + (r - 1)) \div a = q + 1
    BY <2>2, <2>3, QuotientIs
  <2>5. Multiples(n, a) = q + 1
    BY <2>2, <2>4 DEF Multiples
  <2> QED
    BY <1>1, <1>2, <1>4, <2>3, <2>5 DEF q, r
<1> QED
  BY <1>1, <1>3, <1>4

\* Nothing of a pass has started before its first tick.
LEMMA NoneInPass ==
  ASSUME NEW c \in Cell
  PROVE  InPass(c, 0) = 0
<1>1. c.arg \in Nat /\ c.note \in BOOLEAN
  BY DEF Cell
<1>2. CASE c.cmd = "E9" /\ c.arg # 0
  <2> DEFINE a == c.arg
  <2>1. a \in Nat \ {0} /\ a - 1 \in 0 .. a - 1
    BY <1>1, <1>2
  <2> HIDE DEF a
  <2>2. (a * 0 + (a - 1)) \div a = 0
    BY <2>1, QuotientIs
  <2>3. a * 0 + (a - 1) = (0 + a) - 1
    BY <2>1
  <2>4. Multiples(0, a) = 0
    BY <2>2, <2>3 DEF Multiples
  <2> QED
    BY <1>2, <2>4 DEF InPass, a
<1>3. CASE ~(c.cmd = "E9" /\ c.arg # 0)
  BY <1>1, <1>3 DEF InPass
<1> QED
  BY <1>2, <1>3

LEMMA InPassInt ==
  ASSUME NEW c \in Cell, NEW n \in Nat
  PROVE  InPass(c, n) \in Int
<1>1. c.arg \in Nat
  BY DEF Cell
<1>2. c.arg # 0 => Multiples(n, c.arg) \in Nat
  BY <1>1, MultiplesNext
<1> QED
  BY <1>2 DEF InPass

\* A tick starts a note again exactly when the pass asks for one more.
LEMMA InPassNext ==
  ASSUME NEW c \in Cell, mt_counter \in Nat
  PROVE  InPass(c, mt_counter + 1) = InPass(c, mt_counter) + (IF Restarts(c) THEN 1 ELSE 0)
<1> DEFINE n == mt_counter
<1>1. c.arg \in Nat /\ c.note \in BOOLEAN /\ n \in Nat
  BY DEF Cell
<1>2. CASE c.cmd = "E9" /\ c.arg # 0
  <2> DEFINE a == c.arg
  <2>1. a \in Nat \ {0}
    BY <1>1, <1>2
  <2>2. /\ Multiples(n, a) \in Nat
        /\ Multiples(n + 1, a) = Multiples(n, a) + (IF n % a = 0 THEN 1 ELSE 0)
    BY <1>1, <2>1, MultiplesNext
  <2>3. n = 0 => n % a = 0
    BY <2>1
  <2>4. Restarts(c) <=> ~(n = 0 /\ c.note) /\ n % a = 0
    BY <1>2 DEF Restarts
  <2>5. /\ InPass(c, n) = Multiples(n, a) - (IF c.note /\ n > 0 THEN 1 ELSE 0)
        /\ InPass(c, n + 1) = Multiples(n + 1, a) - (IF c.note /\ n + 1 > 0 THEN 1 ELSE 0)
    BY <1>2 DEF InPass
  <2> HIDE DEF a
  <2> QED
    BY <1>1, <2>2, <2>3, <2>4, <2>5
<1>3. CASE c.cmd = "ED"
  BY <1>1, <1>3 DEF InPass, Restarts
<1>4. CASE c.cmd # "ED" /\ ~(c.cmd = "E9" /\ c.arg # 0)
  BY <1>4 DEF InPass, Restarts
<1> QED
  BY <1>2, <1>3, <1>4

\* The largest multiple below n is that of the quotient, and NotesStarted
\* counts up to it.
LEMMA LargestMultiple ==
  ASSUME NEW n \in Nat \ {0}, NEW a \in Nat \ {0}
  PROVE  LET S == {t \in 0 .. n - 1 : t % a = 0}
             largest == CHOOSE m \in S : \A k \in S : k <= m
         IN  S # {} /\ largest \in Nat /\ (largest \div a) + 1 = Multiples(n, a)
<1> DEFINE S == {t \in 0 .. n - 1 : t % a = 0}
           q == (n - 1) \div a
           top == a * q
<1>1. q \in Nat /\ (n - 1) % a \in 0 .. a - 1 /\ n - 1 = a * q + ((n - 1) % a)
  <2>1. n - 1 \in Nat
    OBVIOUS
  <2> QED
    BY <2>1, QuotientOf
<1>2. Multiples(n, a) = q + 1
  <2>1. n - 1 \in Nat /\ (n - 1) + 1 = n
    OBVIOUS
  <2> QED
    BY <2>1, MultiplesNext
<1> HIDE DEF q
<1>3. top \in Nat /\ top <= n - 1
  BY <1>1
<1>4. top % a = 0 /\ top \div a = q
  <2>1. 0 \in 0 .. a - 1
    OBVIOUS
  <2>2. (a * q + 0) \div a = q /\ (a * q + 0) % a = 0
    BY <1>1, <2>1, QuotientIs
  <2>3. a * q + 0 = a * q
    BY <1>3
  <2> QED
    BY <2>2, <2>3
<1>5. top \in S
  BY <1>3, <1>4
<1>6. ASSUME NEW k \in S
      PROVE  k <= top
  <2>1. k \in Nat /\ k <= n - 1 /\ k % a = 0
    OBVIOUS
  <2>2. k \div a \in Nat /\ k = a * (k \div a)
    BY <2>1, QuotientOf
  <2> DEFINE p == k \div a
  <2> HIDE DEF p
  <2>3. SUFFICES ASSUME p > q PROVE FALSE
    BY <1>1, <2>2 DEF p
  <2>4. p \in Nat /\ k = a * p /\ a * p >= a * (q + 1)
    BY <1>1, <2>2, <2>3 DEF p
  <2>5. a * (q + 1) = a * q + a
    BY <1>1
  <2> QED
    BY <1>1, <2>1, <2>4, <2>5
<1>7. ASSUME NEW m \in S, \A k \in S : k <= m
      PROVE  m = top
  BY <1>3, <1>5, <1>6, <1>7
<1>8. (CHOOSE m \in S : \A k \in S : k <= m) = top
  BY <1>5, <1>6, <1>7
<1> QED
  BY <1>1, <1>2, <1>3, <1>4, <1>5, <1>8

LEMMA NoteInvInit == Init => NoteInv
<1> SUFFICES ASSUME Init PROVE NoteInv
  OBVIOUS
<1>1. InPass(NoCell, mt_speed) = 0 /\ InPass(NoCell, 1) = 0 /\ AsRead(NoCell) = 0
  BY DEF InPass, AsRead, NoCell
<1>2. /\ mt_counter = 0 /\ mt_speed = FirstSpeed /\ held = 0 /\ music = Returned
      /\ starts = [v \in Voice |-> 0] /\ \A v \in Voice : ch[v].cell = NoCell
  BY DEF Init
<1>3. ASSUME NEW v \in Voice
      PROVE  NoteCounted(v)
  <2>1. Passes = 0 /\ Ticks(v) = 1 /\ starts[v] = 0
    BY <1>2 DEF Passes, Ticks, Returned
  <2>2. 0 * InPass(ch[v].cell, mt_speed) = 0
    BY <1>1, <1>2
  <2> QED
    BY <1>1, <1>2, <2>1, <2>2 DEF NoteCounted
<1> QED
  BY <1>2, <1>3, ReplayAssumption DEF NoteInv, Returned

\* A pass ends with the last tick of the row, and what it asked for is counted
\* with the passes.
LEMMA NoteTick == ASSUME IInv, NoteInv, Tick PROVE NoteInv'
<1>1. /\ music.does = "nothing" /\ mt_counter \in Nat /\ mt_speed \in Nat \ {0} /\ mt_counter < mt_speed
      /\ held \in Nat /\ UNCHANGED <<ch, starts, held, mt_speed>>
  BY DEF Tick, IInv, Typed, NoteInv
<1>2. music'.voice = 1
  BY DEF Tick, Goes
<1>3. ASSUME NEW v \in Voice
      PROVE  NoteCounted(v)'
  <2> DEFINE c == ch[v].cell
             full == InPass(c, mt_speed)
  <2>1. c \in Cell /\ v > 0
    BY DEF IInv, Typed, Voice
  <2>2. full \in Int /\ InPass(c, 0) = 0 /\ InPass(c, mt_counter + 1) \in Int /\ AsRead(c) \in Int
    BY <1>1, <2>1, InPassInt, NoneInPass DEF AsRead
  <2>3. starts[v] = AsRead(c) + (held * full) + InPass(c, mt_counter + 1)
    BY <1>1 DEF NoteInv, NoteCounted, Passes, Ticks
  <2>4. CASE mt_counter + 1 >= mt_speed
    <3>1. mt_counter + 1 = mt_speed
      BY <1>1, <2>4
    <3>2. mt_counter' = 0 /\ music'.does \in {"play", "hold"}
      BY <2>4 DEF Tick, Goes
    <3>3. Passes' = held + 1 /\ Ticks(v)' = 0
      BY <1>1, <1>2, <2>1, <3>2 DEF Passes, Ticks, Voice
    <3>4. starts[v] = AsRead(c) + (held * full) + full
      BY <2>3, <3>1
    <3> HIDE DEF full
    <3>5. (held + 1) * full = held * full + full
      BY <1>1, <2>2
    <3>6. held * full \in Int
      BY <1>1, <2>2
    <3>7. starts[v] = AsRead(c) + ((held + 1) * full) + 0
      BY <2>2, <3>4, <3>5, <3>6
    <3>8. c' = c /\ starts'[v] = starts[v] /\ full' = full
      BY <1>1 DEF full
    <3>9. starts'[v] = AsRead(c) + (Passes' * full) + InPass(c, Ticks(v)')
      BY <2>2, <3>3, <3>7, <3>8
    <3> QED
      BY <1>1, <3>9 DEF NoteCounted, full
  <2>5. CASE ~(mt_counter + 1 >= mt_speed)
    <3>1. mt_counter' = mt_counter + 1 /\ music'.does = "effects"
      BY <2>5 DEF Tick, Goes
    <3>2. Passes' = held /\ Ticks(v)' = mt_counter + 1
      BY <1>1, <1>2, <2>1, <3>1 DEF Passes, Ticks, Voice
    <3> QED
      BY <1>1, <2>3, <3>2 DEF NoteCounted
  <2> QED
    BY <2>4, <2>5
<1>4. mt_counter' < mt_speed /\ (music'.does \in {"play", "hold"} => mt_counter' = 0)
  BY <1>1 DEF Tick, Goes
<1> QED
  BY <1>1, <1>2, <1>3, <1>4 DEF NoteInv

\* A voice that is not its turn keeps its count.
LEMMA NotePlayVoice == ASSUME IInv, NoteInv, PlayVoice PROVE NoteInv'
<1> DEFINE v == music.voice
           c == song.cell[song.order[music.pos]][mt_PatternPos][v]
<1>1. v \in Voice /\ music.does = "play" /\ mt_counter = 0 /\ mt_counter' = 0 /\ held' = 0
  BY DEF PlayVoice, NoteInv
<1>2. c \in Cell
  BY <1>1, CellRead DEF IInv, Typed, Noted, InSong
<1>3. /\ ch' = [ch EXCEPT ![v] = [cell |-> c, pattpos |-> Looped(v, c).start,
                                  loopcount |-> Looped(v, c).count]]
      /\ starts' = [starts EXCEPT ![v] = IF StartsNow(c) THEN 1 ELSE 0]
      /\ music' = [music EXCEPT !.voice = @ + 1]
  BY DEF PlayVoice, NextVoice
<1>4. \/ PositionJump(c) \/ PatternBreak(c) \/ SetSpeed(c) \/ JumpLoop(v, c) \/ PatternDelay(c)
      \/ NoOrder({"B", "D", "F", "E6", "EE"}, c)
  BY DEF PlayVoice
<1> HIDE DEF c, v
<1>5. mt_speed' \in Nat \ {0} /\ mt_counter' < mt_speed'
  <2>1. mt_speed' \in Nat \ {0}
    BY <1>2, <1>4 DEF PositionJump, PatternBreak, SetSpeed, JumpLoop, PatternDelay, NoOrder, NoteInv, Cell
  <2> QED
    BY <1>1, <2>1
<1>6. music'.does = "play" /\ music'.voice = v + 1 /\ v \in Nat \ {0}
  BY <1>1, <1>3 DEF IInv, Typed, Voice, v
<1>7. starts' \in [Voice -> Int] /\ ch \in [Voice -> [cell : Cell, pattpos : Row, loopcount : Int]]
  BY <1>1, <1>3 DEF NoteInv, IInv, Typed
<1>8. ASSUME NEW w \in Voice, w < v + 1
      PROVE  NoteCounted(w)'
  <2>1. Passes' = 0 /\ Ticks(w)' = 1
    BY <1>1, <1>6, <1>8 DEF Passes, Ticks
  <2>2. CASE w = v
    <3>1. ch'[w].cell = c /\ starts'[w] = IF StartsNow(c) THEN 1 ELSE 0
      BY <1>1, <1>3, <1>7, <2>2 DEF NoteInv
    <3>2. InPass(c, 1) = IF Restarts(c) THEN 1 ELSE 0
      <4>1. InPass(c, mt_counter + 1) = InPass(c, mt_counter) + (IF Restarts(c) THEN 1 ELSE 0)
        BY <1>1, <1>2, InPassNext
      <4> QED
        BY <1>1, <1>2, <4>1, NoneInPass
    <3>3. (IF StartsNow(c) THEN 1 ELSE 0) = AsRead(c) + InPass(c, 1)
      BY <1>1, <1>2, <3>2 DEF StartsNow, AsRead, Restarts
    <3>4. 0 * InPass(c, mt_speed') = 0
      BY <1>2, <1>5, InPassInt
    <3>5. AsRead(c) \in Int /\ InPass(c, 1) \in Int
      BY <1>2, <3>2 DEF AsRead
    <3> QED
      BY <2>1, <3>1, <3>3, <3>4, <3>5 DEF NoteCounted
  <2>3. CASE w # v
    <3>1. w < v /\ v > 1
      BY <1>6, <1>8, <2>3 DEF Voice
    <3>2. NoteCounted(w) /\ held = 0
      BY <1>1, <3>1 DEF NoteInv, v
    <3>3. Passes = 0 /\ Ticks(w) = 1
      BY <1>1, <3>1, <3>2 DEF Passes, Ticks, v
    <3>4. ch'[w] = ch[w] /\ starts'[w] = starts[w] /\ ch[w].cell \in Cell
      BY <1>3, <1>7, <2>3 DEF NoteInv
    <3>5. 0 * InPass(ch[w].cell, mt_speed) = 0 * InPass(ch[w].cell, mt_speed')
      <4>1. InPass(ch[w].cell, mt_speed) \in Int /\ InPass(ch[w].cell, mt_speed') \in Int
        BY <1>5, <3>4, InPassInt DEF NoteInv
      <4> QED
        BY <4>1
    <3> QED
      BY <2>1, <3>2, <3>3, <3>4, <3>5 DEF NoteCounted
  <2> QED
    BY <2>2, <2>3
<1> QED
  BY <1>1, <1>5, <1>6, <1>7, <1>8 DEF NoteInv

LEMMA NoteCheckEfx == ASSUME IInv, NoteInv, CheckEfx PROVE NoteInv'
<1> DEFINE v == music.voice
           c == ch[v].cell
<1>1. /\ v \in Voice /\ music.does \in {"hold", "effects"}
      /\ UNCHANGED <<mt_counter, held, mt_speed>>
  BY DEF CheckEfx, JumpLoop, PatternDelay, NoOrder
<1>2. c \in Cell /\ mt_counter \in Nat /\ v \in Nat
  BY <1>1 DEF IInv, Typed, Voice
<1>3. /\ ch' = [ch EXCEPT ![v] = [cell |-> c, pattpos |-> Looped(v, c).start,
                                  loopcount |-> Looped(v, c).count]]
      /\ starts' = IF Restarts(c) THEN [starts EXCEPT ![v] = @ + 1] ELSE starts
      /\ music' = [music EXCEPT !.voice = @ + 1]
  BY DEF CheckEfx, NextVoice
<1>4. music'.does = music.does /\ music'.voice = v + 1 /\ Passes' = Passes
  BY <1>1, <1>3 DEF IInv, Typed, Passes
<1>5. starts' \in [Voice -> Int] /\ \A w \in Voice : ch'[w].cell = ch[w].cell
  BY <1>1, <1>3 DEF NoteInv, IInv, Typed
<1> HIDE DEF c, v
<1>6. ASSUME NEW w \in Voice
      PROVE  NoteCounted(w)'
  <2>1. NoteCounted(w)
    BY <1>1 DEF NoteInv
  <2>2. CASE w = v
    <3>1. Ticks(w) = mt_counter /\ Ticks(w)' = mt_counter + 1
      BY <1>1, <1>2, <1>4, <2>2 DEF Ticks, v
    <3>2. InPass(c, mt_counter + 1) = InPass(c, mt_counter) + (IF Restarts(c) THEN 1 ELSE 0)
      BY <1>2, InPassNext
    <3>3. starts'[w] = starts[w] + (IF Restarts(c) THEN 1 ELSE 0)
      BY <1>1, <1>3, <2>2 DEF NoteInv
    <3>4. ch[w].cell = c /\ ch'[w].cell = c
      BY <1>5, <2>2 DEF c
    <3> DEFINE passed == Passes * InPass(c, mt_speed)
    <3>5. AsRead(c) \in Int /\ InPass(c, mt_counter) \in Int /\ passed \in Int
      <4>1. InPass(c, mt_speed) \in Int /\ InPass(c, mt_counter) \in Int
        BY <1>2, InPassInt DEF NoteInv
      <4>2. Passes \in Int
        BY DEF Passes, NoteInv
      <4> QED
        BY <4>1, <4>2 DEF AsRead
    <3>6. starts[w] = AsRead(c) + passed + InPass(c, mt_counter)
      BY <2>1, <3>1, <3>4 DEF NoteCounted
    <3> HIDE DEF passed
    <3>7. starts'[w] = AsRead(c) + passed + InPass(c, mt_counter + 1)
      BY <3>2, <3>3, <3>5, <3>6
    <3> QED
      BY <1>1, <1>4, <3>1, <3>4, <3>7 DEF NoteCounted, passed
  <2>3. CASE w # v
    <3>1. Ticks(w)' = Ticks(w)
      BY <1>1, <1>2, <1>4, <2>3 DEF Ticks, Voice, v
    <3>2. starts'[w] = starts[w]
      BY <1>3, <2>3 DEF NoteInv
    <3> QED
      BY <1>1, <1>4, <1>5, <2>1, <3>1, <3>2 DEF NoteCounted
  <2> QED
    BY <2>2, <2>3
<1> QED
  BY <1>1, <1>2, <1>4, <1>5, <1>6 DEF NoteInv

LEMMA NoteReturns ==
  ASSUME IInv, NoteInv, Dskip \/ EffectsEnd
  PROVE  NoteInv'
<1>1. /\ music.voice > Voices /\ music.voice \in Nat /\ music' = Returned
      /\ UNCHANGED <<mt_counter, mt_speed, ch, starts>>
      /\ held' = IF music.does = "hold" THEN held + 1 ELSE held
      /\ music.does \in {"play", "hold", "effects"}
  BY DEF Dskip, EffectsEnd, IInv, Typed, delays
<1>2. music.voice > 1
  BY <1>1, ReplayAssumption
<1>3. Passes' = Passes
  BY <1>1, <1>2 DEF Passes, Returned
<1>4. ASSUME NEW v \in Voice
      PROVE  NoteCounted(v)'
  <2>1. v < music.voice
    BY <1>1, ReplayAssumption DEF Voice
  <2>2. NoteCounted(v) /\ Ticks(v)' = Ticks(v)
    BY <1>1, <2>1 DEF NoteInv, Ticks, Returned
  <2> QED
    BY <1>1, <1>3, <2>2 DEF NoteCounted
<1> QED
  BY <1>1, <1>4 DEF NoteInv, Returned

LEMMA NoteStep == ASSUME IInv, NoteInv, [Next]_vars PROVE NoteInv'
<1>1. CASE UNCHANGED vars
  <2>1. UNCHANGED <<ch, starts, held, mt_speed, mt_counter, music>>
    BY <1>1 DEF vars
  <2> QED
    BY <2>1 DEF NoteInv, NoteCounted, Passes, Ticks, Voice
<1>2. CASE Next
  BY <1>2, NoteTick, NotePlayVoice, NoteCheckEfx, NoteReturns DEF Next
<1> QED
  BY <1>1, <1>2

\* What the passes together ask for is what is due.
LEMMA DueIs ==
  ASSUME NEW c \in Cell, held \in Nat, mt_speed \in Nat \ {0}
  PROVE  Due(c) = AsRead(c) + ((held + 1) * InPass(c, mt_speed))
<1>1. c.arg \in Nat /\ c.note \in BOOLEAN
  BY DEF Cell
<1>2. CASE c.cmd = "E9" /\ c.arg # 0
  <2> DEFINE a == c.arg
             S == {t \in 0 .. mt_speed - 1 : t % a = 0}
             largest == CHOOSE k \in S : \A n \in S : n <= k
             m == largest \div a
             n == Multiples(mt_speed, a)
             times == held + 1
  <2>1. a \in Nat \ {0}
    BY <1>1, <1>2
  <2>2. S # {} /\ largest \in Nat /\ m + 1 = n
    BY <2>1, LargestMultiple
  <2>3. n \in Nat
    BY <2>1, MultiplesNext
  <2>4. m \in Int
    <3>1. \A x \in Nat : x \div a \in Int
      BY <2>1
    <3> HIDE DEF largest, a
    <3> QED
      BY <2>2, <3>1
  <2>5. Due(c) = IF c.note THEN 1 + (times * (1 + m)) - times ELSE times * (1 + m)
    BY <1>2, <2>2 DEF Due, Again
  <2>6. AsRead(c) = (IF c.note THEN 1 ELSE 0)
    BY <1>2 DEF AsRead
  <2>7. InPass(c, mt_speed) = n - (IF c.note THEN 1 ELSE 0)
    BY <1>2 DEF InPass
  <2> HIDE DEF a, S, largest, m, n
  <2>8. 1 + m = n
    BY <2>2, <2>3, <2>4
  <2>9. times * (n - 1) = times * n - times /\ times * n \in Int
    BY <2>3
  <2> QED
    BY <1>1, <2>3, <2>5, <2>6, <2>7, <2>8, <2>9
<1>3. CASE c.cmd = "ED"
  BY <1>1, <1>3 DEF Due, InPass, AsRead
<1>4. CASE c.cmd # "ED" /\ ~(c.cmd = "E9" /\ c.arg # 0)
  <2>1. InPass(c, mt_speed) = 0
    BY <1>4 DEF InPass
  <2>2. Due(c) = IF c.cmd = "3" THEN 0 ELSE IF c.note THEN 1 ELSE 0
    BY <1>4 DEF Due
  <2>3. AsRead(c) = IF c.cmd = "3" THEN 0 ELSE IF c.note THEN 1 ELSE 0
    BY <1>1, <1>4 DEF AsRead
  <2>4. (held + 1) * 0 = 0
    OBVIOUS
  <2> QED
    BY <2>1, <2>2, <2>3, <2>4
<1> QED
  BY <1>2, <1>3, <1>4

\* For every song: by the time the next row comes, each voice was started as
\* often as the cell it read asks (mt_PlayVoice, mt_RetrigNote, mt_NoteDelay),
\* on the ticks of every pass through the row, however often it was held.
THEOREM NotesAreStarted == Spec => []NotesStarted
<1>1. Init => IInv /\ NoteInv
  BY InitInv, NoteInvInit
<1>2. IInv /\ NoteInv /\ [Next]_vars => IInv' /\ NoteInv'
  BY StepInv, NoteStep
<1>3. IInv /\ NoteInv => NotesStarted
  <2> SUFFICES ASSUME IInv, NoteInv, music.does = "play", music.voice = 1, NEW v \in Voice
               PROVE  starts[v] = Due(ch[v].cell)
    BY DEF NotesStarted
  <2> DEFINE c == ch[v].cell
  <2>1. c \in Cell /\ ~(v < 1) /\ mt_counter = 0 /\ held \in Nat /\ mt_speed \in Nat \ {0}
    BY DEF IInv, Typed, NoteInv, Voice
  <2>2. Passes = held + 1 /\ Ticks(v) = 0
    BY <2>1 DEF Passes, Ticks
  <2>3. starts[v] = AsRead(c) + ((held + 1) * InPass(c, mt_speed)) + InPass(c, 0)
    BY <2>2 DEF NoteInv, NoteCounted
  <2>4. InPass(c, 0) = 0 /\ Due(c) = AsRead(c) + ((held + 1) * InPass(c, mt_speed))
    BY <2>1, NoneInPass, DueIs
  <2>5. AsRead(c) + ((held + 1) * InPass(c, mt_speed)) \in Int
    <3>1. InPass(c, mt_speed) \in Int
      BY <2>1, InPassInt
    <3>2. (held + 1) * InPass(c, mt_speed) \in Int
      BY <2>1, <3>1
    <3> QED
      BY <3>2 DEF AsRead
  <2> QED
    BY <2>3, <2>4, <2>5
<1> QED
  BY <1>1, <1>2, <1>3, PTL DEF Spec

=============================================================================
