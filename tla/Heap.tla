-------------------------------- MODULE Heap --------------------------------
(***************************************************************************)
(* What malloc, free and malloc_add promise a program: memory is given out *)
(* from what was added, never twice, and refused only when no free stretch *)
(* is long enough.  Sizes and addresses are in units of a block header.    *)
(***************************************************************************)
EXTENDS Integers

CONSTANTS Regions,     \* stretches of memory that may be added, [start, size]
          Needs        \* sizes a program may ask for

VARIABLES
    arena,      \* the units that were added
    taken,      \* the stretches the program holds, [start, size]
    wanted      \* the size asked for, or 0
vars == <<arena, taken, wanted>>

Units(s) == s.start .. s.start + s.size - 1
Free == {u \in arena : \A s \in taken : u \notin Units(s)}
Fits(n) == \E u \in Free : \A k \in 0 .. n - 1 : u + k \in Free

Init == arena = {} /\ taken = {} /\ wanted = 0

Grow(r) ==
    /\ Units(r) \intersect arena = {}
    /\ arena' = arena \union Units(r)
    /\ UNCHANGED <<taken, wanted>>

Ask(n) == wanted = 0 /\ wanted' = n /\ UNCHANGED <<arena, taken>>

\* One unit more than asked for may go with a block: what is left over has to
\* hold a header of its own and the links of a free block.
Grant ==
    /\ wanted # 0
    /\ \E u \in Free, more \in {0, 1} :
         LET s == [start |-> u, size |-> wanted + more]
         IN  Units(s) \subseteq Free /\ taken' = taken \union {s}
    /\ wanted' = 0
    /\ UNCHANGED arena

Refuse == wanted # 0 /\ ~Fits(wanted) /\ wanted' = 0 /\ UNCHANGED <<arena, taken>>

Release(s) == s \in taken /\ taken' = taken \ {s} /\ UNCHANGED <<arena, wanted>>

Next ==
    \/ \E r \in Regions : Grow(r)
    \/ \E n \in Needs : Ask(n)
    \/ Grant \/ Refuse
    \/ \E s \in taken : Release(s)

Spec == Init /\ [][Next]_vars
=============================================================================
