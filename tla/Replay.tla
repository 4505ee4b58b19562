-------------------------------- MODULE Replay --------------------------------
(***************************************************************************)
(* Apps/Modplayer/replay.c: the order in which the rows of a module are    *)
(* played, and when its notes start.  The timer interrupt calls mt_music;  *)
(* a call goes through the voices one by one.  Rows are counted, not their *)
(* bytes, and a cell is its note and its command: "3" stands for both      *)
(* glides, "E6" to "EE" for the extended commands that matter here, "none" *)
(* for those that only change pitch and volume.                            *)
(***************************************************************************)
EXTENDS Integers, Sequences

CONSTANTS
    Rows,         \* 64: rows of a pattern
    Positions,    \* 128: entries of the table of positions
    Voices,       \* 4
    FirstSpeed,   \* 6: ticks of a row
    FirstTempo,   \* 32: the lowest argument of F that is a tempo
    Songs         \* modules that may be played: length, order, cell

Voice == 1 .. Voices
Row == 0 .. Rows - 1
Commands == {"none", "3", "B", "D", "F", "E6", "E9", "ED", "EE"}
Cell == [note : BOOLEAN, cmd : Commands, arg : Nat]
Patterns(s) == {s.order[p] : p \in 0 .. Positions - 1}

ASSUME ReplayAssumption ==
    /\ Rows \in Nat \ {0} /\ Positions \in Nat \ {0} /\ Voices \in Nat \ {0}
    /\ FirstSpeed \in Nat \ {0} /\ FirstTempo \in Nat \ {0}
    /\ \A s \in Songs :
         /\ s.length \in 1 .. Positions
         /\ \A p \in 0 .. Positions - 1 : \A r \in Row : \A v \in Voice :
              s.cell[s.order[p]][r][v] \in Cell

VARIABLES
    song,                       \* mt_SongDataPtr
    mt_counter, mt_speed,
    mt_SongPos, mt_PatternPos,
    mt_PattDelTime, mt_PattDelTime2,
    mt_PBreakPos, mt_PBreakFlag, mt_PosJumpFlag,
    ch,         \* voices: the cell last read, n_pattpos and n_loopcount
    music,      \* mt_music: what it does, and the voice it is at
    starts,     \* history: how often a voice was started since its cell was read
    held,       \* history: how often the row was held since it was read
    settled     \* history: what the last call of mt_music left

delays == <<mt_PattDelTime, mt_PattDelTime2>>
breaks == <<mt_SongPos, mt_PBreakPos, mt_PBreakFlag, mt_PosJumpFlag>>
vars == <<song, mt_counter, mt_speed, mt_PatternPos, delays, breaks, ch, music, starts, held, settled>>

\* pos: the position the row is of, looked up before the first voice.
Goes(does) == [does |-> does, voice |-> 1, pos |-> mt_SongPos]
Returned == [does |-> "nothing", voice |-> 1, pos |-> 0]
NoCell == [note |-> FALSE, cmd |-> "none", arg |-> 0]

Left(pos, row, del, counter, speed, loops) ==
    [pos |-> pos, row |-> row, del |-> del, counter |-> counter, speed |-> speed, loops |-> loops]
Loops == [v \in Voice |-> [start |-> ch[v].pattpos, count |-> ch[v].loopcount]]

\* mt_init.
Init ==
    /\ song \in Songs
    /\ mt_counter = 0 /\ mt_speed = FirstSpeed /\ mt_SongPos = 0 /\ mt_PatternPos = 0
    /\ mt_PattDelTime = 0 /\ mt_PattDelTime2 = 0
    /\ mt_PBreakPos = 0 /\ mt_PBreakFlag = FALSE /\ mt_PosJumpFlag = FALSE
    /\ ch = [v \in Voice |-> [cell |-> NoCell, pattpos |-> 0, loopcount |-> 0]]
    /\ music = Returned /\ starts = [v \in Voice |-> 0] /\ held = 0
    /\ settled = Left(0, 0, 0, 0, FirstSpeed, Loops)

\* mt_music is called: a tick within a row, the next row, or the same again.
Tick ==
    /\ music.does = "nothing"
    /\ IF mt_counter + 1 >= mt_speed
       THEN /\ mt_counter' = 0
            /\ music' = Goes(IF mt_PattDelTime2 = 0 THEN "play" ELSE "hold")
       ELSE /\ mt_counter' = mt_counter + 1
            /\ music' = Goes("effects")
    /\ UNCHANGED <<song, mt_speed, mt_PatternPos, delays, breaks, ch, starts, held, settled>>

-----------------------------------------------------------------------------
(* Commands, with the cell c of voice v.                                   *)

PositionJump(c) ==
    /\ c.cmd = "B"
    /\ mt_SongPos' = c.arg - 1 /\ mt_PBreakPos' = 0 /\ mt_PosJumpFlag' = TRUE
    /\ UNCHANGED <<mt_speed, delays, mt_PBreakFlag>>

\* Mutant: the row is taken as it comes.
BreakRow_any(n) == n
BreakRow(n) == IF n > Rows - 1 THEN 0 ELSE n
PatternBreak(c) ==
    /\ c.cmd = "D"
    /\ mt_PBreakPos' = BreakRow(c.arg) /\ mt_PosJumpFlag' = TRUE
    /\ UNCHANGED <<mt_speed, delays, mt_SongPos, mt_PBreakFlag>>

\* The tempo goes to the timer.
SetSpeed(c) ==
    /\ c.cmd = "F"
    /\ mt_speed' = IF c.arg \in 1 .. FirstTempo - 1 THEN c.arg ELSE mt_speed
    /\ UNCHANGED <<delays, breaks>>

\* Rounds still to go once the end of the loop is met.
\* Mutant: they are never counted down.
RoundsLeft_same(v, n) == IF ch[v].loopcount = 0 THEN n ELSE ch[v].loopcount
RoundsLeft(v, n) == IF ch[v].loopcount = 0 THEN n ELSE ch[v].loopcount - 1
Looped(v, c) ==
    IF c.cmd # "E6" \/ mt_counter # 0 THEN [start |-> ch[v].pattpos, count |-> ch[v].loopcount]
    ELSE IF c.arg = 0 THEN [start |-> mt_PatternPos, count |-> ch[v].loopcount]
    ELSE [start |-> ch[v].pattpos, count |-> RoundsLeft(v, c.arg)]

JumpLoop(v, c) ==
    /\ c.cmd = "E6"
    /\ IF mt_counter = 0 /\ c.arg # 0 /\ RoundsLeft(v, c.arg) # 0
       THEN mt_PBreakPos' = ch[v].pattpos /\ mt_PBreakFlag' = TRUE
       ELSE UNCHANGED <<mt_PBreakPos, mt_PBreakFlag>>
    /\ UNCHANGED <<mt_speed, delays, mt_SongPos, mt_PosJumpFlag>>

PatternDelay(c) ==
    /\ c.cmd = "EE"
    /\ mt_PattDelTime' = IF mt_counter = 0 /\ mt_PattDelTime2 = 0 THEN c.arg + 1 ELSE mt_PattDelTime
    /\ UNCHANGED <<mt_speed, mt_PattDelTime2, breaks>>

NoOrder(commands, c) == c.cmd \notin commands /\ UNCHANGED <<mt_speed, delays, breaks>>

\* mt_RetrigNote and mt_NoteDelay.
Restarts(c) ==
    \/ c.cmd = "E9" /\ c.arg # 0 /\ ~(mt_counter = 0 /\ c.note) /\ mt_counter % c.arg = 0
    \/ c.cmd = "ED" /\ c.note /\ mt_counter = c.arg

\* mt_PlayVoice reads the cell; a glide starts no note, nor does a delay yet.
\* Mutant: a delayed note starts with its row, too.
StartsNow_delayed(c) == (c.note /\ c.cmd # "3") \/ Restarts(c)
StartsNow(c) == (c.note /\ c.cmd \notin {"3", "ED"}) \/ Restarts(c)
NextVoice == music' = [music EXCEPT !.voice = @ + 1]

PlayVoice ==
    /\ music.does = "play" /\ music.voice \in Voice
    /\ LET v == music.voice
           c == song.cell[song.order[music.pos]][mt_PatternPos][v]
       IN  /\ \/ PositionJump(c) \/ PatternBreak(c) \/ SetSpeed(c) \/ JumpLoop(v, c) \/ PatternDelay(c)
              \/ NoOrder({"B", "D", "F", "E6", "EE"}, c)
           /\ ch' = [ch EXCEPT ![v] = [cell |-> c, pattpos |-> Looped(v, c).start,
                                       loopcount |-> Looped(v, c).count]]
           /\ starts' = [starts EXCEPT ![v] = IF StartsNow(c) THEN 1 ELSE 0]
    /\ held' = 0
    /\ NextVoice
    /\ UNCHANGED <<song, mt_counter, mt_PatternPos, settled>>

\* mt_CheckEfx: of the commands above only the extended ones.
CheckEfx ==
    /\ music.does \in {"hold", "effects"} /\ music.voice \in Voice
    /\ LET v == music.voice
           c == ch[v].cell
       IN  /\ JumpLoop(v, c) \/ PatternDelay(c) \/ NoOrder({"E6", "EE"}, c)
           /\ ch' = [ch EXCEPT ![v] = [cell |-> c, pattpos |-> Looped(v, c).start,
                                       loopcount |-> Looped(v, c).count]]
           /\ starts' = IF Restarts(c) THEN [starts EXCEPT ![v] = @ + 1] ELSE starts
    /\ NextVoice
    /\ UNCHANGED <<song, mt_counter, mt_PatternPos, held, settled>>

-----------------------------------------------------------------------------
\* mt_nextPosition.
Following(pos) == LET next == (pos + 1) % Positions IN IF next >= song.length THEN 0 ELSE next
NextPosition(row) ==
    /\ mt_PatternPos' = row /\ mt_PBreakPos' = 0 /\ mt_PosJumpFlag' = FALSE
    /\ mt_SongPos' = Following(mt_SongPos)

\* mt_dskip: the delay, then a loop, then a new position.
Delay == IF mt_PattDelTime > 0 THEN mt_PattDelTime ELSE mt_PattDelTime2
DelayLeft == IF Delay > 0 THEN Delay - 1 ELSE 0
\* Mutant: the loop's row is kept for the next break.
BreakPosLeft_kept == mt_PBreakPos
BreakPosLeft == IF mt_PBreakFlag THEN 0 ELSE mt_PBreakPos
Dskip ==
    /\ music.does \in {"play", "hold"} /\ music.voice > Voices
    /\ LET advanced == IF DelayLeft > 0 THEN mt_PatternPos ELSE mt_PatternPos + 1
           row == IF mt_PBreakFlag THEN mt_PBreakPos ELSE advanced
       IN  IF row >= Rows \/ mt_PosJumpFlag
           THEN NextPosition(BreakPosLeft)
           ELSE /\ mt_PatternPos' = row /\ mt_PBreakPos' = BreakPosLeft
                /\ UNCHANGED <<mt_SongPos, mt_PosJumpFlag>>
    /\ mt_PattDelTime' = 0 /\ mt_PattDelTime2' = DelayLeft /\ mt_PBreakFlag' = FALSE
    /\ music' = Returned
    /\ held' = IF music.does = "hold" THEN held + 1 ELSE held
    /\ settled' = Left(mt_SongPos', mt_PatternPos', mt_PattDelTime2', mt_counter, mt_speed, Loops)
    /\ UNCHANGED <<song, mt_counter, mt_speed, ch, starts>>

EffectsEnd ==
    /\ music.does = "effects" /\ music.voice > Voices
    /\ IF mt_PosJumpFlag THEN NextPosition(mt_PBreakPos)
       ELSE UNCHANGED <<mt_PatternPos, mt_PBreakPos, mt_PosJumpFlag, mt_SongPos>>
    /\ music' = Returned
    /\ settled' = Left(mt_SongPos', mt_PatternPos', mt_PattDelTime2, mt_counter, mt_speed, Loops)
    /\ UNCHANGED <<song, mt_counter, mt_speed, delays, mt_PBreakFlag, ch, starts, held>>

Next == Tick \/ PlayVoice \/ CheckEfx \/ Dskip \/ EffectsEnd

\* The timer goes on ticking.
Spec == Init /\ [][Next]_vars /\ WF_vars(Next)

-----------------------------------------------------------------------------
\* Whatever the cells hold, a row that is read is a row of the song: jumps
\* beyond its end, breaks to rows that are none, loops set in another pattern
\* and delays cut short by any of them lead back into it.
InSong ==
    /\ mt_PatternPos \in Row /\ mt_PBreakPos \in Row
    /\ ~mt_PosJumpFlag => mt_SongPos \in 0 .. song.length - 1
    /\ music.does = "nothing" => ~mt_PosJumpFlag /\ mt_PBreakPos = 0

\* Ticks of a row at which a note is started again.
Again(c, from) == {t \in from .. mt_speed - 1 : t % c.arg = 0}
Due(c) ==
    LET times == held + 1
        Times(S) == IF S = {} THEN 0 ELSE times * (1 + ((CHOOSE m \in S : \A n \in S : n <= m) \div c.arg))
    IN  CASE c.cmd = "3" -> 0
          [] c.cmd = "ED" -> IF c.note /\ c.arg < mt_speed THEN times ELSE 0
          [] c.cmd = "E9" /\ c.arg # 0 ->
                IF c.note THEN 1 + Times(Again(c, 0)) - times ELSE Times(Again(c, 0))
          [] OTHER -> IF c.note THEN 1 ELSE 0

\* When the next row comes, each note has started as often as its cell asks:
\* once, not at all if it glides or is delayed past its row, and again with
\* each time the row was held where the command says so.
NotesStarted ==
    music.does = "play" /\ music.voice = 1 /\ ch[1].cell # NoCell =>
        \A v \in Voice : starts[v] = Due(ch[v].cell)

\* Every pattern ends: its loops do.
PatternsEnd == []<><<Dskip /\ (mt_PosJumpFlag \/ mt_PatternPos = Rows - 1)>>_vars

Played == INSTANCE Score WITH
    next <- IF settled.del = 0 THEN [pos |-> settled.pos, row |-> settled.row]
            ELSE IF settled.row = Rows - 1 THEN [pos |-> Following(settled.pos), row |-> 0]
            ELSE [pos |-> settled.pos, row |-> settled.row + 1],
    wait <- settled.speed * (settled.del + 1) - settled.counter,
    speed <- settled.speed,
    loops <- settled.loops
ImplementsScore == Played!Spec
=============================================================================
