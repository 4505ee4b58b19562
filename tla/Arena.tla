-------------------------------- MODULE Arena --------------------------------
(***************************************************************************)
(* Firmware_Common/klibc/malloc.c and realloc.c, and malloc_add as         *)
(* syscalls.c calls it.  The fields of the block headers are functions of  *)
(* the header's address, counted in units of sizeof(struct arena_header),  *)
(* 16 bytes; what a client may write never overlaps a header as long as    *)
(* blocks do not overlap.  Walking a chain takes a step for each block.    *)
(***************************************************************************)
EXTENDS Integers

CONSTANTS
    Addr,        \* units of memory
    MallocHead,        \* &__malloc_head
    Regions,     \* memory handed to malloc_add: [start, size]
    Chunk,       \* _KLIBC_MALLOC_CHUNK_SIZE, in units
    Requests,    \* sizes asked for, in bytes
    Width        \* 2^32: size_t wraps

Unit == 16
\* The header added, and rounded up to units.
Need(bytes) == ((bytes + 2 * Unit - 1) % Width) \div Unit
Rounded(size) == size - (size % Chunk)

Extent(r) == r.start .. r.start + Rounded(r.size) - 1

\* The heap is memory of its own, nothing is asked for that makes the size
\* wrap, and a region is large enough for a block.
ASSUME ArenaAssumption ==
    /\ Addr \subseteq Nat /\ MallocHead \notin Int
    /\ Chunk \in Nat \ {0}
    /\ \A r \in Regions :
         /\ r.start \in Nat /\ Rounded(r.size) \in Nat \ {0, 1}
         /\ Extent(r) \subseteq Addr
    /\ \A r, s \in Regions : r # s => Extent(r) \intersect Extent(s) = {}
    /\ \A n \in Requests : Need(n) \in Nat \ {0, 1} /\ Need(Unit * Need(n)) \in Nat \ {0, 1}

VARIABLES
    type, size, next, prev, next_free, prev_free,   \* headers
    call,       \* the call being carried out
    added,      \* regions added so far
    blocks      \* history: the headers that are in the list of all blocks

headers == <<type, size, next, prev, next_free, prev_free, blocks>>
vars == <<headers, call, added>>

Node == Addr \union {MallocHead}

\* at: the block looked at; need: units wanted; old: the block to be freed.
Idle == [pc |-> "idle", need |-> 0, at |-> MallocHead, old |-> MallocHead]
Search(n, old) == [pc |-> "search", need |-> n, at |-> next_free[MallocHead], old |-> old]
Insert(b) == [pc |-> "insert", need |-> 0, at |-> prev[MallocHead], old |-> b]
Free(b) == [pc |-> "free", need |-> 0, at |-> MallocHead, old |-> b]

Init ==
    /\ type = [x \in Node |-> IF x = MallocHead THEN "head" ELSE "used"]
    /\ size = [x \in Node |-> 0]
    /\ next = [x \in Node |-> MallocHead] /\ prev = [x \in Node |-> MallocHead]
    /\ next_free = [x \in Node |-> MallocHead] /\ prev_free = [x \in Node |-> MallocHead]
    /\ blocks = {} /\ added = {} /\ call = Idle

End(b) == b + size[b]

-----------------------------------------------------------------------------
(* __malloc_from_block                                                     *)

\* Mutants: what is left over has no room for the links of a free block; it
\* keeps the size of the whole.
Splits_tight(b, n) == size[b] > n
Splits(b, n) == size[b] >= n + 2
Remainder_whole(b, n) == size[b]
Remainder(b, n) == size[b] - n

Split(b, n) ==
    LET rest == b + n
    IN  /\ Splits(b, n)
        /\ type' = [type EXCEPT ![rest] = "free", ![b] = "used"]
        /\ size' = [size EXCEPT ![rest] = Remainder(b, n), ![b] = n]
        /\ prev' = [prev EXCEPT ![rest] = b, ![next[b]] = rest]
        /\ next' = [next EXCEPT ![rest] = next[b], ![b] = rest]
        /\ next_free' = [next_free EXCEPT ![rest] = next_free[b], ![prev_free[b]] = rest]
        /\ prev_free' = [prev_free EXCEPT ![rest] = prev_free[b], ![next_free[b]] = rest]
        /\ blocks' = blocks \union {rest}

TakeWhole(b, n) ==
    /\ ~Splits(b, n)
    /\ type' = [type EXCEPT ![b] = "used"]
    /\ next_free' = [next_free EXCEPT ![prev_free[b]] = next_free[b]]
    /\ prev_free' = [prev_free EXCEPT ![next_free[b]] = prev_free[b]]
    /\ UNCHANGED <<size, next, prev, blocks>>

-----------------------------------------------------------------------------
(* __free_block                                                            *)

Touches(b, c) == type[b] = "free" /\ End(b) = c
TouchesNext(b, c) == type[c] = "free" /\ End(b) = c

\* Insertion at the front of the free chain.
NextPushed(b) == [next_free EXCEPT ![b] = next_free[MallocHead], ![MallocHead] = b]
PrevPushed(b) == [prev_free EXCEPT ![b] = MallocHead, ![next_free[MallocHead]] = b]

\* Mutant: the block after, now part of this one, stays on the free chain.
Unlink_not(f, x, y) == f
\* One direction of a chain, with x now followed by y.
Unlink(f, x, y) == [f EXCEPT ![x] = y]

FreeBlock(b) ==
    LET before == prev[b]
        after == next[b]
        joinsBefore == Touches(before, b)
        joinsAfter == TouchesNext(b, after)
        whole == IF joinsBefore THEN before ELSE b
        nf == IF joinsBefore THEN next_free ELSE NextPushed(b)
        pf == IF joinsBefore THEN prev_free ELSE PrevPushed(b)
        follower == IF joinsAfter THEN next[after] ELSE after
    IN  /\ type' = IF joinsBefore THEN type ELSE [type EXCEPT ![b] = "free"]
        /\ size' = [size EXCEPT ![whole] = (IF joinsBefore THEN size[before] ELSE 0) + size[b]
                                           + (IF joinsAfter THEN size[after] ELSE 0)]
        /\ next' = [next EXCEPT ![whole] = follower]
        /\ prev' = [prev EXCEPT ![follower] = whole]
        /\ next_free' = IF joinsAfter THEN Unlink(nf, pf[after], nf[after]) ELSE nf
        /\ prev_free' = IF joinsAfter THEN Unlink(pf, nf[after], pf[after]) ELSE pf
        /\ blocks' = blocks \ ((IF joinsBefore THEN {b} ELSE {})
                               \union (IF joinsAfter THEN {after} ELSE {}))

-----------------------------------------------------------------------------
(* Calls.                                                                  *)

Used == {b \in blocks : type[b] = "used"}

Malloc(n) ==
    /\ call = Idle
    /\ call' = Search(Need(n), MallocHead)
    /\ UNCHANGED <<headers, added>>

FreeCall(b) ==
    /\ call = Idle /\ b \in Used
    /\ call' = Free(b)
    /\ UNCHANGED <<headers, added>>

\* A block that is neither too small nor four times too large stays; else the
\* size, rounded already, is asked for as it is, and the old block is freed
\* after the copy.  A copy to a null pointer is not prevented.
Realloc(b, n) ==
    /\ call = Idle /\ b \in Used
    /\ ~(size[b] >= Need(n) /\ Need(n) >= size[b] \div 4)
    /\ call' = Search(Need(Unit * Need(n)), b)
    /\ UNCHANGED <<headers, added>>

Returned == IF call.old = MallocHead THEN Idle ELSE Free(call.old)

TooSmall ==
    /\ call.pc = "search" /\ call.at # MallocHead /\ size[call.at] < call.need
    /\ call' = [call EXCEPT !.at = next_free[@]]
    /\ UNCHANGED <<headers, added>>
Fit ==
    /\ call.pc = "search" /\ call.at # MallocHead /\ size[call.at] >= call.need
    /\ Split(call.at, call.need) \/ TakeWhole(call.at, call.need)
    /\ call' = Returned
    /\ UNCHANGED added
NothingFound ==
    /\ call.pc = "search" /\ call.at = MallocHead
    /\ call' = Returned
    /\ UNCHANGED <<headers, added>>

FreeIt ==
    /\ call.pc = "free"
    /\ FreeBlock(call.old)
    /\ call' = Idle
    /\ UNCHANGED added

\* malloc_add: the list of all blocks is searched backwards for the place.
MallocAdd(r) ==
    /\ call = Idle /\ r \notin added
    /\ added' = added \union {r}
    /\ type' = [type EXCEPT ![r.start] = "free"]
    /\ size' = [size EXCEPT ![r.start] = Rounded(r.size)]
    /\ call' = Insert(r.start)
    /\ UNCHANGED <<next, prev, next_free, prev_free, blocks>>
\* Mutant: the region goes to the end of the list.
Passes_never(b) == FALSE
Passes(b) == b # MallocHead /\ ~(b < call.old)
Further ==
    /\ call.pc = "insert" /\ Passes(call.at)
    /\ call' = [call EXCEPT !.at = prev[@]]
    /\ UNCHANGED <<headers, added>>
Link ==
    /\ call.pc = "insert" /\ ~Passes(call.at)
    /\ LET b == call.old
           after == next[call.at]
       IN  /\ next' = [next EXCEPT ![b] = after, ![call.at] = b]
           /\ prev' = [prev EXCEPT ![b] = call.at, ![after] = b]
           /\ blocks' = blocks \union {b}
           /\ call' = Free(b)
    /\ UNCHANGED <<type, size, next_free, prev_free, added>>

Continue == TooSmall \/ Fit \/ NothingFound \/ FreeIt \/ Further \/ Link
Next ==
    \/ \E n \in Requests : Malloc(n)
    \/ \E b \in Used : FreeCall(b) \/ \E n \in Requests : Realloc(b, n)
    \/ \E r \in Regions : MallocAdd(r)
    \/ Continue

Spec == Init /\ [][Next]_vars /\ WF_vars(Continue)

-----------------------------------------------------------------------------
TypeOK ==
    /\ type \in [Node -> {"head", "used", "free"}]
    /\ size \in [Node -> Nat]
    /\ next \in [Node -> Node] /\ prev \in [Node -> Node]
    /\ next_free \in [Node -> Node] /\ prev_free \in [Node -> Node]
    /\ blocks \subseteq Addr /\ added \subseteq Regions
    /\ \A b \in blocks : size[b] \in Nat \ {0, 1}
    /\ call \in [pc : {"idle", "search", "insert", "free"}, need : Nat, at : Node, old : Node]

\* Blocks never overlap, and lie within the memory that was added: two callers
\* are never given the same byte, nor the header of a neighbour, whatever was
\* split, joined and added before.
BlocksDisjoint ==
    /\ \A a, b \in blocks : a < b => End(a) <= b
    /\ \A b \in blocks : b .. End(b) - 1 \subseteq UNION {Extent(r) : r \in added}

\* Memory is neither given out twice nor refused while it is there: joining
\* free neighbours keeps every free stretch in one block, and every free block
\* is found.
Promise == INSTANCE Heap WITH
    Needs <- {Need(n) : n \in Requests} \union {Need(Unit * Need(n)) : n \in Requests},
    Regions <- {[start |-> r.start, size |-> Rounded(r.size)] : r \in Regions},
    arena <- UNION {Extent(r) : r \in added},
    taken <- {[start |-> b, size |-> size[b]] : b \in Used},
    wanted <- IF call.pc = "search" THEN call.need ELSE 0
ImplementsHeap == Promise!Spec

\* Every call returns: no walk goes round a chain that does not lead back to
\* its head.
CallsReturn == call # Idle ~> call = Idle
=============================================================================
