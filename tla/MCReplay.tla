------------------------------- MODULE MCReplay -------------------------------
(* Two positions with a pattern each; the first pattern holds one or two    *)
(* commands, anywhere, of those that change the order, or three of Loop; or *)
(* notes of two voices, started again or late, in a row that may be held.   *)
EXTENDS Replay, FiniteSets, FiniteSetsExt

C(note, cmd, arg) == [note |-> note, cmd |-> cmd, arg |-> arg]
Order == {C(FALSE, "B", 0), C(FALSE, "B", 5), C(FALSE, "D", 1), C(FALSE, "D", 9), C(FALSE, "F", 1),
          C(FALSE, "E6", 0), C(FALSE, "E6", 1), C(FALSE, "E6", 2), C(FALSE, "EE", 1)}
Loop == {C(FALSE, "E6", 0), C(FALSE, "E6", 2), C(FALSE, "D", 1), C(FALSE, "B", 0)}
Sounds == {C(n, "E9", k) : n \in BOOLEAN, k \in {0, 1, 2}} \union {C(TRUE, "ED", k) : k \in {0, 1, 2}}
          \union {C(TRUE, "3", 1), C(TRUE, "none", 0)}

Empty == [r \in Row |-> [v \in Voice |-> NoCell]]
SongOf(pattern) ==
    [length |-> 2, order |-> [p \in 0 .. Positions - 1 |-> p % 2],
     cell |-> [n \in {0, 1} |-> IF n = 0 THEN pattern ELSE Empty]]

Places == Row \X Voice
Placed(S, f) == [r \in Row |-> [v \in Voice |-> IF <<r, v>> \in S THEN f[<<r, v>>] ELSE NoCell]]

Has(pattern, r, commands) == \E v \in Voice : pattern[r][v].cmd \in commands /\ pattern[r][v].arg # 0
\* What the order of rows is promised for: a held row has no other command of
\* that kind, and a voice has one end of a loop.
Plain(pattern) ==
    /\ \A r \in Row : Has(pattern, r, {"EE"}) => \A v \in Voice : pattern[r][v].cmd \notin {"B", "D", "E6"}
    /\ \A v \in Voice : \A r, q \in Row :
         pattern[r][v].cmd = "E6" /\ pattern[r][v].arg # 0 /\ pattern[q][v].cmd = "E6" /\ pattern[q][v].arg # 0
         => r = q

Patterned(n, commands) == UNION {{Placed(S, f) : f \in [S -> commands]} : S \in kSubset(n, Places)}
OrderPatterns == Patterned(1, Order) \union Patterned(2, Order) \union Patterned(3, Loop)
SoundPatterns ==
    {[Empty EXCEPT ![0][1] = s, ![1][1] = t, ![0][2] = d] :
       s \in Sounds, t \in Sounds, d \in {NoCell, C(FALSE, "EE", 2), C(TRUE, "F", 3)}}
MCSongs == {SongOf(p) : p \in {q \in OrderPatterns : Plain(q)}
                              \union SoundPatterns}
=============================================================================
