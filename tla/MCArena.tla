------------------------------- MODULE MCArena -------------------------------
(* Three regions: two that touch, one of them not a whole number of chunks, *)
(* and one apart.                                                           *)
EXTENDS Arena

MCRegions == {[start |-> 0, size |-> 4], [start |-> 4, size |-> 5], [start |-> 9, size |-> 7]}

\* What is left in memory of a header that is in no list is never read.
InUse == blocks \union {MallocHead} \union (IF call.pc = "insert" THEN {call.old} ELSE {})
InFree == {b \in blocks : type[b] = "free"} \union {MallocHead}
LiveState ==
    <<[b \in InUse |-> <<type[b], size[b]>>], [b \in blocks \union {MallocHead} |-> <<next[b], prev[b]>>],
      [b \in InFree |-> <<next_free[b], prev_free[b]>>], call, added>>
=============================================================================
