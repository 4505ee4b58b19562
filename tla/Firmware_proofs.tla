-------------------------- MODULE Firmware_proofs --------------------------
(***************************************************************************)
(* Proofs about two parts of the firmware, the allocator (Arena) and the   *)
(* keyboard and screen of a program (Console).                             *)
(***************************************************************************)
EXTENDS Arena, Console, TLAPS, SequenceTheorems

-----------------------------------------------------------------------------
(***************************************************************************)
(* The allocator.  Whatever is added, asked for and freed, blocks never    *)
(* overlap and lie within the memory that was added.  The induction needs  *)
(* the two doubly linked lists: the list of all blocks is in the order of  *)
(* addresses and leaves none out, so that the neighbours free joins are    *)
(* the true ones; and the free chain runs through free blocks only, so     *)
(* that what malloc finds is free.  That null is returned only for want of *)
(* memory needs more: no unit is lost, free neighbours are always joined,  *)
(* and the free chain leaves no free block out.                            *)
(***************************************************************************)

InList == blocks \union {MallocHead}
FreeBlocks == {b \in blocks : type[b] = "free" /\ ~(call.pc = "free" /\ call.old = b)}
OnChain == FreeBlocks \union {MallocHead}

Linked == \A x \in InList :
    next[x] \in InList /\ prev[x] \in InList /\ next[prev[x]] = x /\ prev[next[x]] = x
Sorted ==
    /\ \A a \in blocks : next[a] # MallocHead => a < next[a]
    /\ \A a, b \in blocks : a < b => next[a] # MallocHead /\ next[a] <= b
    /\ \A b \in blocks : next[MallocHead] # MallocHead /\ next[MallocHead] <= b
Chained == \A x \in OnChain :
    /\ next_free[x] \in OnChain /\ prev_free[x] \in OnChain
    /\ next_free[prev_free[x]] = x /\ prev_free[next_free[x]] = x
\* The chain of free blocks has no loop but the one through its head, and it
\* leaves none out: its members can be numbered in the order of the chain.
Numbered(place, front, nf, F) ==
    /\ \A x \in F : front < place[x] /\ (nf[x] # MallocHead => place[x] < place[nf[x]])
    /\ \A x, y \in F : place[x] < place[y] => nf[x] # MallocHead /\ place[nf[x]] <= place[y]
    /\ \A x, y \in F : place[x] = place[y] => x = y
    /\ \A y \in F : nf[MallocHead] # MallocHead /\ place[nf[MallocHead]] <= place[y]
IsOrdered(nf, F) == \E place \in [Addr -> Int], front \in Int : Numbered(place, front, nf, F)
Ordered == IsOrdered(next_free, FreeBlocks)
Kinds == type[MallocHead] = "head" /\ \A b \in blocks : type[b] \in {"used", "free"}

Memory == UNION {Extent(r) : r \in added}
Apart == \A a, b \in blocks : a < b => End(a) <= b
Within == \A b \in blocks : b .. End(b) - 1 \subseteq Memory

\* No memory is lost: every unit is in a block, or in the region being added.
\* And no free block ends where another begins.
Pending == IF call.pc = "insert" THEN {call.old} ELSE {}
Covered == \A u \in Memory : \E b \in blocks \union Pending : b <= u /\ u < End(b)
Joined == \A a, c \in FreeBlocks : End(a) # c

\* The walk through the free chain stands on it, and what it has passed is too
\* small; the walk backwards has passed every block above the new one.
Looked == \E place \in [Addr -> Int], front \in Int :
    /\ Numbered(place, front, next_free, FreeBlocks)
    /\ \A x \in FreeBlocks : call.at = MallocHead \/ place[x] < place[call.at] => size[x] < call.need
Searching == call.pc = "search" =>
    /\ call.at \in OnChain /\ call.need \in Nat \ {0, 1} /\ call.old \in Used \union {MallocHead}
    /\ Looked
Inserting == call.pc = "insert" =>
    LET b == call.old
    IN  /\ b \in Addr \ blocks /\ type[b] = "free" /\ size[b] \in Nat \ {0, 1}
        /\ b .. End(b) - 1 \subseteq Memory
        /\ \A a \in blocks : (a < b => End(a) <= b) /\ (b < a => End(b) <= a)
        /\ call.at \in InList
        /\ \A a \in blocks : call.at = MallocHead \/ call.at < a => b < a
Freeing == call.pc = "free" => call.old \in blocks

Inv == /\ TypeOK /\ Linked /\ Sorted /\ Chained /\ Ordered /\ Kinds /\ Apart /\ Within
       /\ Covered /\ Joined /\ Searching /\ Inserting /\ Freeing

LEMMA Constants ==
    /\ Addr \subseteq Nat /\ MallocHead \notin Addr /\ MallocHead \notin Int
    /\ \A n \in Requests : Need(n) \in Nat \ {0, 1} /\ Need(Unit * Need(n)) \in Nat \ {0, 1}
<1>1. Addr \subseteq Nat /\ MallocHead \notin Int
    BY ArenaAssumption DEF ArenaAssumption
<1>2. MallocHead \notin Addr
    <2>1. Nat \subseteq Int OBVIOUS
    <2> QED BY <1>1, <2>1, Zenon
<1>3. \A n \in Requests : Need(n) \in Nat \ {0, 1} /\ Need(Unit * Need(n)) \in Nat \ {0, 1}
    BY ArenaAssumption DEF ArenaAssumption
<1> QED BY <1>1, <1>2, <1>3, Zenon

LEMMA MemoryAddr == TypeOK => Memory \subseteq Addr /\ Memory \subseteq Nat
<1> SUFFICES ASSUME TypeOK PROVE Memory \subseteq Addr
    BY Constants
<1> QED
    BY ArenaAssumption DEF ArenaAssumption, Memory, TypeOK

-----------------------------------------------------------------------------
\* A step of a call that leaves the headers alone.
LEMMA QuietStep ==
    ASSUME Inv, UNCHANGED <<headers, added>>,
           call' \in [pc : {"idle", "search", "insert", "free"}, need : Nat, at : Node, old : Node],
           (call.pc = "free" => call' = call), call'.pc = "free" => call'.old \in Used,
           Pending' = Pending, Searching', Inserting'
    PROVE  Inv'
<1>1. FreeBlocks' = FreeBlocks
    BY DEF Inv, FreeBlocks, headers, Used
<1>2. TypeOK' BY DEF Inv, TypeOK, headers
<1>3. Linked' /\ Sorted' /\ Kinds' /\ Apart' /\ Within'
    BY DEF Inv, Linked, Sorted, Kinds, Apart, Within, headers, InList, Memory, End
<1>4. Chained' /\ Ordered'
    BY <1>1 DEF Inv, Chained, Ordered, OnChain, headers
<1>5. Freeing' BY DEF Freeing, Used, headers
<1>6. Covered' /\ Joined'
    BY <1>1 DEF Inv, Covered, Joined, Memory, End, headers
<1> QED BY <1>2, <1>3, <1>4, <1>5, <1>6 DEF Inv

-----------------------------------------------------------------------------
\* Two facts every surgery on the list of blocks rests on.
LEMMA Neighbours ==
    ASSUME Inv, NEW b \in blocks
    PROVE  /\ next[b] # b /\ prev[b] # b
           /\ prev[b] # MallocHead => prev[b] < b
           /\ next[b] # MallocHead => prev[b] # next[b]
           /\ \A a \in blocks : a < b => prev[b] # MallocHead /\ a <= prev[b]
<1> USE Constants DEF Inv, TypeOK
<1>1. b \in Int /\ next[b] \in InList /\ prev[b] \in InList /\ next[prev[b]] = b
    BY DEF Linked, InList
<1>2. /\ prev[b] # MallocHead => prev[b] \in blocks /\ prev[b] \in Int
      /\ next[b] # MallocHead => next[b] \in blocks /\ next[b] \in Int
      /\ blocks \subseteq Int
    <2>1. blocks \subseteq Int BY Constants
    <2> QED BY <1>1, <2>1 DEF InList
<1>3. prev[b] # MallocHead => prev[b] < b
    BY <1>1, <1>2 DEF Sorted
<1>4. next[b] # MallocHead => b < next[b]
    BY DEF Sorted
<1>5. ASSUME NEW a \in blocks, a < b PROVE prev[b] # MallocHead /\ a <= prev[b]
    <2>1. prev[b] # MallocHead
        BY <1>1, <1>5, <1>2 DEF Sorted
    <2>2. ASSUME prev[b] < a PROVE FALSE
        <3>1. next[prev[b]] <= a
            BY <2>1, <2>2, <1>2 DEF Sorted
        <3> QED BY <3>1, <1>1, <1>2, <1>5
    <2>3. a \in Int /\ prev[b] \in Int BY <2>1, <1>2
    <2> QED BY <2>1, <2>2, <2>3
<1>6. b # MallocHead BY <1>1
<1>7. next[b] # b /\ prev[b] # b
    BY <1>1, <1>2, <1>3, <1>4, <1>6
<1>8. next[b] # MallocHead => prev[b] # next[b]
    BY <1>1, <1>2, <1>3, <1>4
<1> QED BY <1>3, <1>5, <1>7, <1>8

LEMMA ChainNeighbours ==
    ASSUME Inv, NEW b \in FreeBlocks
    PROVE  /\ next_free[b] # b /\ prev_free[b] # b
           /\ next_free[b] # MallocHead => prev_free[b] # next_free[b]
<1>1. /\ next_free[b] \in OnChain /\ prev_free[b] \in OnChain
      /\ next_free[prev_free[b]] = b /\ prev_free[next_free[b]] = b /\ b # MallocHead /\ b \in Addr
    BY Constants DEF Inv, Chained, OnChain, FreeBlocks, TypeOK
<1>2. PICK place \in [Addr -> Int], front \in Int : \A x \in FreeBlocks :
        front < place[x] /\ (next_free[x] # MallocHead => place[x] < place[next_free[x]])
    BY DEF Inv, Ordered, IsOrdered, Numbered
<1>3. \A x \in FreeBlocks : place[x] \in Int
    BY <1>2 DEF FreeBlocks, Inv, TypeOK
<1>4. next_free[b] # b
    BY <1>1, <1>2, <1>3
<1>5. next_free[b] # MallocHead => prev_free[b] # next_free[b]
    <2>1. SUFFICES ASSUME next_free[b] # MallocHead, prev_free[b] = next_free[b] PROVE FALSE OBVIOUS
    <2>2. next_free[b] \in FreeBlocks /\ next_free[next_free[b]] = b
        BY <2>1, <1>1 DEF OnChain
    <2>3. place[b] < place[next_free[b]] /\ place[next_free[b]] < place[b]
        BY <2>1, <2>2, <1>2, <1>1
    <2> QED BY <2>3, <2>2, <1>3
<1> QED BY <1>1, <1>4, <1>5

-----------------------------------------------------------------------------
(* A chain of free blocks, as such: nf and pf link the members of F and the *)
(* head.                                                                    *)

IsChain(nf, pf, F) ==
    /\ nf \in [Node -> Node] /\ pf \in [Node -> Node] /\ F \subseteq Addr
    /\ \A x \in F \union {MallocHead} :
         /\ nf[x] \in F \union {MallocHead} /\ pf[x] \in F \union {MallocHead}
         /\ nf[pf[x]] = x /\ pf[nf[x]] = x

\* A block put at the front.
LEMMA PushChain ==
    ASSUME NEW nf, NEW pf, NEW F, NEW b \in Addr \ F, IsChain(nf, pf, F), IsOrdered(nf, F)
    PROVE  /\ IsChain([nf EXCEPT ![b] = nf[MallocHead], ![MallocHead] = b],
                      [pf EXCEPT ![b] = MallocHead, ![nf[MallocHead]] = b], F \union {b})
           /\ IsOrdered([nf EXCEPT ![b] = nf[MallocHead], ![MallocHead] = b], F \union {b})
<1> DEFINE nf2 == [nf EXCEPT ![b] = nf[MallocHead], ![MallocHead] = b]
           pf2 == [pf EXCEPT ![b] = MallocHead, ![nf[MallocHead]] = b]
<1> USE Constants
<1>1. nf \in [Node -> Node] /\ pf \in [Node -> Node] /\ F \subseteq Addr /\ b # MallocHead
      /\ nf[MallocHead] \in F \union {MallocHead} /\ b \in Node /\ MallocHead \in Node /\ nf[MallocHead] # b
      /\ F \union {MallocHead} \subseteq Node
    <2>1. /\ nf \in [Node -> Node] /\ pf \in [Node -> Node] /\ F \subseteq Addr
          /\ nf[MallocHead] \in F \union {MallocHead}
        BY DEF IsChain
    <2>2. b # MallocHead /\ b \notin F OBVIOUS
    <2> QED BY <2>1, <2>2 DEF Node
<1>2. \A x \in Node : /\ nf2[x] = IF x = MallocHead THEN b ELSE IF x = b THEN nf[MallocHead] ELSE nf[x]
                      /\ pf2[x] = IF x = nf[MallocHead] THEN b ELSE IF x = b THEN MallocHead ELSE pf[x]
    BY <1>1
<1>3. nf2 \in [Node -> Node] /\ pf2 \in [Node -> Node] /\ F \union {b} \subseteq Addr
    BY <1>1 DEF Node
<1>4. IsChain(nf2, pf2, F \union {b})
    <2>1. \A x \in F \union {MallocHead} :
            /\ nf[x] \in F \union {MallocHead} /\ pf[x] \in F \union {MallocHead} /\ x # b
            /\ nf[pf[x]] = x /\ pf[nf[x]] = x /\ x \in Node
        BY <1>1 DEF IsChain
    <2>2. nf2[b] = nf[MallocHead] /\ pf2[b] = MallocHead /\ nf2[MallocHead] = b /\ pf2[nf[MallocHead]] = b
        BY <1>1, <1>2
    <2>3. \A x \in F : nf2[x] = nf[x] /\ x # MallocHead
        BY <1>1, <1>2, <2>1
    <2>4. \A x \in F \union {MallocHead} : x # nf[MallocHead] => pf2[x] = pf[x]
        BY <1>1, <1>2, <2>1
    <2>5. \A x \in F \union {MallocHead} : x # nf[MallocHead] => pf[x] \in F
        BY <2>1
    <2>6. \A x \in F : nf[x] # nf[MallocHead]
        BY <2>1, <2>3
    <2>7. ASSUME NEW x \in F \union {b} \union {MallocHead}
          PROVE /\ nf2[x] \in F \union {b} \union {MallocHead} /\ pf2[x] \in F \union {b} \union {MallocHead}
                /\ nf2[pf2[x]] = x /\ pf2[nf2[x]] = x
        <3>1. CASE x = b
            BY <3>1, <2>1, <2>2
        <3>2. CASE x = MallocHead
            <4>1. CASE nf[MallocHead] = MallocHead
                BY <3>2, <4>1, <2>2
            <4>2. CASE nf[MallocHead] # MallocHead
                <5>1. pf2[MallocHead] = pf[MallocHead] /\ pf[MallocHead] \in F /\ nf[pf[MallocHead]] = MallocHead
                    BY <4>2, <2>1, <2>4, <2>5
                <5> QED BY <5>1, <3>2, <2>2, <2>3
            <4> QED BY <4>1, <4>2
        <3>3. CASE x \in F
            <4>1. nf2[x] = nf[x] /\ nf[x] \in F \union {MallocHead} /\ pf2[nf[x]] = x
                BY <3>3, <2>1, <2>3, <2>4, <2>6
            <4>2. CASE x = nf[MallocHead]
                BY <3>3, <4>1, <4>2, <2>2
            <4>3. CASE x # nf[MallocHead]
                <5>1. pf2[x] = pf[x] /\ pf[x] \in F /\ nf[pf[x]] = x
                    BY <3>3, <4>3, <2>1, <2>4, <2>5
                <5> QED BY <5>1, <4>1, <2>3
            <4> QED BY <4>2, <4>3
        <3> QED BY <3>1, <3>2, <3>3
    <2> QED BY <1>3, <2>7 DEF IsChain
<1>5. PICK place \in [Addr -> Int], front \in Int : Numbered(place, front, nf, F)
    BY DEF IsOrdered
<1> DEFINE place2 == [place EXCEPT ![b] = front]
<1>6. /\ place2 \in [Addr -> Int] /\ front - 1 \in Int /\ front - 1 < front /\ place2[b] = front
      /\ \A x \in F : place2[x] = place[x] /\ place[x] \in Int /\ x # b /\ x # MallocHead
    BY <1>1
<1>7. /\ nf2[MallocHead] = b /\ nf2[b] = nf[MallocHead]
      /\ \A x \in F : nf2[x] = nf[x] /\ nf[x] \in F \union {MallocHead}
    BY <1>1, <1>2, <1>6 DEF IsChain, Node
<1>9. /\ \A x \in F : front < place[x] /\ (nf[x] # MallocHead => place[x] < place[nf[x]])
      /\ \A x, y \in F : place[x] < place[y] => nf[x] # MallocHead /\ place[nf[x]] <= place[y]
      /\ \A x, y \in F : place[x] = place[y] => x = y
      /\ \A y \in F : nf[MallocHead] # MallocHead /\ place[nf[MallocHead]] <= place[y]
    BY <1>5 DEF Numbered
<1> HIDE DEF nf2, pf2, place2
<1>10. Numbered(place2, front - 1, nf2, F \union {b})
    <2>1. ASSUME NEW x \in F \union {b}
          PROVE  front - 1 < place2[x] /\ (nf2[x] # MallocHead => place2[x] < place2[nf2[x]])
        <3>1. CASE x = b BY <3>1, <1>1, <1>6, <1>7, <1>9
        <3>2. CASE x \in F BY <3>2, <1>6, <1>7, <1>9
        <3> QED BY <3>1, <3>2
    <2>2. ASSUME NEW x \in F \union {b}, NEW y \in F \union {b}, place2[x] < place2[y]
          PROVE  nf2[x] # MallocHead /\ place2[nf2[x]] <= place2[y]
        <3>1. y \in F BY <2>2, <1>6, <1>9
        <3>2. CASE x = b BY <3>1, <3>2, <1>1, <1>6, <1>7, <1>9
        <3>3. CASE x \in F BY <3>1, <3>3, <2>2, <1>6, <1>7, <1>9
        <3> QED BY <3>2, <3>3
    <2>3. \A x, y \in F \union {b} : place2[x] = place2[y] => x = y
        BY <1>6, <1>9
    <2>4. \A y \in F \union {b} : nf2[MallocHead] # MallocHead /\ place2[nf2[MallocHead]] <= place2[y]
        BY <1>1, <1>6, <1>7, <1>9
    <2> QED BY <2>1, <2>2, <2>3, <2>4 DEF Numbered
<1>8. IsOrdered(nf2, F \union {b})
    BY <1>6, <1>10 DEF IsOrdered
<1> USE DEF nf2, pf2
<1> QED BY <1>4, <1>8

\* A block taken out.
LEMMA UnlinkChain ==
    ASSUME NEW nf, NEW pf, NEW F, NEW c \in F, IsChain(nf, pf, F), IsOrdered(nf, F)
    PROVE  /\ IsChain([nf EXCEPT ![pf[c]] = nf[c]], [pf EXCEPT ![nf[c]] = pf[c]], F \ {c})
           /\ IsOrdered([nf EXCEPT ![pf[c]] = nf[c]], F \ {c})
<1> DEFINE nf2 == [nf EXCEPT ![pf[c]] = nf[c]]
           pf2 == [pf EXCEPT ![nf[c]] = pf[c]]
<1> USE Constants
<1>1. /\ nf \in [Node -> Node] /\ pf \in [Node -> Node] /\ F \subseteq Addr /\ c # MallocHead /\ c \in Node
      /\ nf[c] \in F \union {MallocHead} /\ pf[c] \in F \union {MallocHead} /\ nf[pf[c]] = c /\ pf[nf[c]] = c
      /\ F \union {MallocHead} \subseteq Node
    BY DEF IsChain, Node
<1>2. PICK place \in [Addr -> Int], front \in Int : Numbered(place, front, nf, F)
    BY DEF IsOrdered
<1>3. \A x \in F : place[x] \in Int /\ x # MallocHead /\ nf[x] \in F \union {MallocHead}
    BY <1>1 DEF IsChain
<1>9. /\ \A x \in F : front < place[x] /\ (nf[x] # MallocHead => place[x] < place[nf[x]])
      /\ \A x, y \in F : place[x] < place[y] => nf[x] # MallocHead /\ place[nf[x]] <= place[y]
      /\ \A x, y \in F : place[x] = place[y] => x = y
      /\ \A y \in F : nf[MallocHead] # MallocHead /\ place[nf[MallocHead]] <= place[y]
    BY <1>2 DEF Numbered
<1>4. nf[c] # c /\ pf[c] # c
    BY <1>1, <1>3, <1>9
<1>5. \A x \in Node : /\ nf2[x] = IF x = pf[c] THEN nf[c] ELSE nf[x]
                      /\ pf2[x] = IF x = nf[c] THEN pf[c] ELSE pf[x]
    BY <1>1
<1>6. nf2 \in [Node -> Node] /\ pf2 \in [Node -> Node]
    BY <1>1
<1>7. IsChain(nf2, pf2, F \ {c})
    BY <1>1, <1>4, <1>5, <1>6 DEF IsChain
<1>8. Numbered(place, front, nf2, F \ {c})
    <2>1. \A x \in F \union {MallocHead} : nf2[x] = IF x = pf[c] THEN nf[c] ELSE nf[x]
        BY <1>1, <1>5
    <2>2. \A y \in F \ {c} : place[c] <= place[y] =>
             nf[c] # MallocHead /\ place[nf[c]] <= place[y]
        BY <1>3, <1>9
    <2> HIDE DEF nf2, pf2
    <2>3. ASSUME NEW x \in F \ {c}
          PROVE  front < place[x] /\ (nf2[x] # MallocHead => place[x] < place[nf2[x]])
        <3>1. CASE x = pf[c]
            <4>1. nf[x] = c /\ nf2[x] = nf[c] /\ place[x] < place[c]
                BY <3>1, <1>1, <1>9, <2>1
            <4>2. nf[c] # MallocHead => nf[c] \in F /\ place[c] < place[nf[c]]
                BY <1>1, <1>9
            <4> QED BY <4>1, <4>2, <1>3, <1>9
        <3>2. CASE x # pf[c]
            BY <3>2, <1>9, <2>1
        <3> QED BY <3>1, <3>2
    <2>4. ASSUME NEW x \in F \ {c}, NEW y \in F \ {c}, place[x] < place[y]
          PROVE  nf2[x] # MallocHead /\ place[nf2[x]] <= place[y]
        <3>1. CASE x = pf[c]
            <4>1. nf[x] = c /\ nf2[x] = nf[c] BY <3>1, <1>1, <2>1
            <4>2. place[c] <= place[y] BY <4>1, <2>4, <1>9
            <4> QED BY <4>1, <4>2, <2>2
        <3>2. CASE x # pf[c]
            BY <3>2, <2>1, <2>4, <1>9
        <3> QED BY <3>1, <3>2
    <2>5. ASSUME NEW y \in F \ {c} PROVE nf2[MallocHead] # MallocHead /\ place[nf2[MallocHead]] <= place[y]
        <3>1. CASE MallocHead = pf[c]
            <4>1. nf[MallocHead] = c /\ nf2[MallocHead] = nf[c] BY <3>1, <1>1, <2>1
            <4>2. place[c] <= place[y] BY <4>1, <1>9
            <4> QED BY <4>1, <4>2, <2>2
        <3>2. CASE MallocHead # pf[c]
            BY <3>2, <2>1, <1>9
        <3> QED BY <3>1, <3>2
    <2>6. \A x, y \in F \ {c} : place[x] = place[y] => x = y
        BY <1>9
    <2> QED BY <2>3, <2>4, <2>5, <2>6 DEF Numbered
<1>10. IsOrdered(nf2, F \ {c})
    BY <1>8 DEF IsOrdered
<1> QED BY <1>7, <1>10

\* A block put in the place of another.
LEMMA ReplaceChain ==
    ASSUME NEW nf, NEW pf, NEW F, NEW b \in F, NEW rest \in Addr \ F,
           IsChain(nf, pf, F), IsOrdered(nf, F)
    PROVE  /\ IsChain([nf EXCEPT ![rest] = nf[b], ![pf[b]] = rest],
                      [pf EXCEPT ![rest] = pf[b], ![nf[b]] = rest], (F \ {b}) \union {rest})
           /\ IsOrdered([nf EXCEPT ![rest] = nf[b], ![pf[b]] = rest], (F \ {b}) \union {rest})
<1> DEFINE nf2 == [nf EXCEPT ![rest] = nf[b], ![pf[b]] = rest]
           pf2 == [pf EXCEPT ![rest] = pf[b], ![nf[b]] = rest]
           F2 == (F \ {b}) \union {rest}
<1> USE Constants
<1>1. /\ nf \in [Node -> Node] /\ pf \in [Node -> Node] /\ F \subseteq Addr
      /\ b # MallocHead /\ b \in Node /\ rest # MallocHead /\ rest \in Node /\ rest # b
      /\ \A x \in F \union {MallocHead} :
           /\ x \in Node /\ x # rest /\ nf[x] \in F \union {MallocHead} /\ pf[x] \in F \union {MallocHead}
           /\ nf[pf[x]] = x /\ pf[nf[x]] = x
    BY DEF IsChain, Node
<1>2. PICK place \in [Addr -> Int], front \in Int : Numbered(place, front, nf, F)
    BY DEF IsOrdered
<1>3. /\ \A x \in F : front < place[x] /\ (nf[x] # MallocHead => place[x] < place[nf[x]])
      /\ \A x, y \in F : place[x] < place[y] => nf[x] # MallocHead /\ place[nf[x]] <= place[y]
      /\ \A x, y \in F : place[x] = place[y] => x = y
      /\ \A y \in F : nf[MallocHead] # MallocHead /\ place[nf[MallocHead]] <= place[y]
    BY <1>2 DEF Numbered
<1>4. \A x \in F : place[x] \in Int /\ x # MallocHead
    BY <1>1
<1>5. nf[b] # b /\ pf[b] # b
    BY <1>1, <1>3, <1>4
<1>6. \A x \in Node : /\ nf2[x] = IF x = pf[b] THEN rest ELSE IF x = rest THEN nf[b] ELSE nf[x]
                      /\ pf2[x] = IF x = nf[b] THEN rest ELSE IF x = rest THEN pf[b] ELSE pf[x]
    BY <1>1
<1>7. nf2 \in [Node -> Node] /\ pf2 \in [Node -> Node]
    BY <1>1
<1>8. IsChain(nf2, pf2, F2)
    <2>1. F2 \subseteq Addr BY <1>1
    <2>2. /\ nf2[pf[b]] = rest /\ nf2[rest] = nf[b]
          /\ pf2[nf[b]] = rest /\ pf2[rest] = pf[b]
          /\ \A x \in F \union {MallocHead} :
                /\ x # pf[b] => nf2[x] = nf[x]
                /\ x # nf[b] => pf2[x] = pf[x]
        <3> HIDE DEF nf2, pf2
        <3>1. rest # pf[b] /\ rest # nf[b] /\ b \in F \union {MallocHead} BY <1>1
        <3> QED BY <1>1, <1>6, <3>1
    <2>3. \A x \in F \union {MallocHead} : (x # pf[b] => nf[x] # b) /\ (x # nf[b] => pf[x] # b)
        BY <1>1
    <2>4. ASSUME NEW x \in F2 \union {MallocHead}
          PROVE  /\ nf2[x] \in F2 \union {MallocHead} /\ pf2[x] \in F2 \union {MallocHead}
                 /\ nf2[pf2[x]] = x /\ pf2[nf2[x]] = x
        <3> HIDE DEF nf2, pf2
        <3>1. b \in F \union {MallocHead} /\ nf[b] \in F2 \union {MallocHead} /\ pf[b] \in F2 \union {MallocHead}
            BY <1>1, <1>5
        <3>2. CASE x = rest BY <3>1, <3>2, <2>2
        <3>3. CASE x # rest
            <4>1. x \in F \union {MallocHead} /\ x # b BY <3>3, <1>1
            <4>2. nf2[x] \in F2 \union {MallocHead} /\ pf2[nf2[x]] = x
                <5>1. CASE x = pf[b] BY <4>1, <5>1, <2>2
                <5>2. CASE x # pf[b]
                    <6>1. nf2[x] = nf[x] /\ nf[x] # b /\ nf[x] \in F \union {MallocHead}
                        BY <4>1, <5>2, <1>1, <2>2, <2>3
                    <6>2. nf[x] # nf[b] BY <3>1, <4>1, <1>1
                    <6>3. pf2[nf[x]] = pf[nf[x]] BY <6>1, <6>2, <2>2
                    <6>4. pf[nf[x]] = x BY <4>1, <1>1
                    <6> QED BY <6>1, <6>3, <6>4
                <5> QED BY <5>1, <5>2
            <4>3. pf2[x] \in F2 \union {MallocHead} /\ nf2[pf2[x]] = x
                <5>1. CASE x = nf[b] BY <4>1, <5>1, <2>2
                <5>2. CASE x # nf[b]
                    <6>1. pf2[x] = pf[x] /\ pf[x] # b /\ pf[x] \in F \union {MallocHead}
                        BY <4>1, <5>2, <1>1, <2>2, <2>3
                    <6>2. pf[x] # pf[b] BY <3>1, <4>1, <1>1
                    <6>3. nf2[pf[x]] = nf[pf[x]] BY <6>1, <6>2, <2>2
                    <6>4. nf[pf[x]] = x BY <4>1, <1>1
                    <6> QED BY <6>1, <6>3, <6>4
                <5> QED BY <5>1, <5>2
            <4> QED BY <4>2, <4>3
        <3> QED BY <3>2, <3>3
    <2> QED BY <1>7, <2>1, <2>4 DEF IsChain
<1> DEFINE place2 == [place EXCEPT ![rest] = place[b]]
           old(x) == IF x = rest THEN b ELSE x
<1>9. place2 \in [Addr -> Int]
    BY <1>1
<1>10. \A x \in F2 : old(x) \in F /\ place2[x] = place[old(x)]
    BY <1>1
<1>11. \A x \in F2 \union {MallocHead} :
          /\ nf2[x] # MallocHead <=> nf[old(x)] # MallocHead
          /\ nf2[x] # MallocHead => place2[nf2[x]] = place[nf[old(x)]]
    <2> SUFFICES ASSUME NEW x \in F2 \union {MallocHead}
                 PROVE  /\ nf2[x] # MallocHead <=> nf[old(x)] # MallocHead
                        /\ nf2[x] # MallocHead => place2[nf2[x]] = place[nf[old(x)]]
        OBVIOUS
    <2>1. place2[rest] = place[b] /\ \A z \in F : place2[z] = place[z]
        BY <1>1
    <2> HIDE DEF nf2, pf2, place2
    <2>2. CASE x = rest BY <2>1, <2>2, <1>1, <1>5, <1>6
    <2>3. CASE x # rest /\ x = pf[b] BY <2>1, <2>3, <1>1, <1>5, <1>6
    <2>4. CASE x # rest /\ x # pf[b] BY <2>1, <2>4, <1>1, <1>5, <1>6
    <2> QED BY <2>2, <2>3, <2>4
<1>12. \A x, y \in F2 : old(x) = old(y) => x = y
    OBVIOUS
<1>13. old(MallocHead) = MallocHead
    BY <1>1
<1>14. Numbered(place2, front, nf2, F2)
    <2> HIDE DEF nf2, pf2, place2, old, F2
    <2>1. \A x \in F2 : front < place2[x] /\ (nf2[x] # MallocHead => place2[x] < place2[nf2[x]])
        BY <1>3, <1>10, <1>11
    <2>2. \A x, y \in F2 : place2[x] < place2[y] => nf2[x] # MallocHead /\ place2[nf2[x]] <= place2[y]
        BY <1>3, <1>10, <1>11
    <2>3. \A x, y \in F2 : place2[x] = place2[y] => x = y
        BY <1>3, <1>10, <1>12
    <2>4. \A y \in F2 : nf2[MallocHead] # MallocHead /\ place2[nf2[MallocHead]] <= place2[y]
        BY <1>3, <1>10, <1>11, <1>13
    <2> QED BY <2>1, <2>2, <2>3, <2>4 DEF Numbered
<1>15. IsOrdered(nf2, F2)
    <2> HIDE DEF nf2, place2, F2
    <2> QED BY <1>9, <1>14 DEF IsOrdered
<1> QED BY <1>8, <1>15

LEMMA ChainIsChain ==
    /\ Inv => IsChain(next_free, prev_free, FreeBlocks) /\ IsOrdered(next_free, FreeBlocks)
    /\ next_free \in [Node -> Node] /\ prev_free \in [Node -> Node] /\ FreeBlocks \subseteq Addr
       /\ IsChain(next_free, prev_free, FreeBlocks) /\ IsOrdered(next_free, FreeBlocks)
       => Chained /\ Ordered
BY DEF Inv, TypeOK, Chained, Ordered, OnChain, IsChain, FreeBlocks

-----------------------------------------------------------------------------
LEMMA TakeStep ==
    ASSUME Inv, call.pc = "search", call.at # MallocHead, size[call.at] >= call.need,
           TakeWhole(call.at, call.need), call' = Returned, UNCHANGED added
    PROVE  Inv'
<1> DEFINE b == call.at
<1> USE Constants DEF Inv, TakeWhole
<1>1. b \in FreeBlocks /\ b \in blocks /\ type[b] = "free" /\ b # MallocHead
    BY DEF Searching, OnChain, FreeBlocks
<1>2. /\ call'.pc \in {"idle", "free"} /\ call'.old \in Used \union {MallocHead}
      /\ call'.pc = "free" => call'.old \in Used
      /\ call' \in [pc : {"idle", "search", "insert", "free"}, need : Nat, at : Node, old : Node]
    BY DEF Returned, Idle, Free, Searching, Used, TypeOK, Node
<1>3. FreeBlocks' = FreeBlocks \ {b}
    <2>1. \A x \in blocks : type'[x] = IF x = b THEN "used" ELSE type[x]
        BY <1>1 DEF TypeOK, Node
    <2>2. blocks' = blocks OBVIOUS
    <2> QED BY <1>1, <1>2, <2>1, <2>2 DEF FreeBlocks, Used
<1>4. TypeOK'
    BY <1>1, <1>2 DEF TypeOK, Node
<1>5. Linked' /\ Sorted' /\ Apart' /\ Within'
    BY DEF Linked, Sorted, Apart, Within, InList, Memory, End
<1>6. Kinds'
    BY <1>1 DEF Kinds, TypeOK, Node
<1>7. Chained' /\ Ordered'
    <2>1. IsChain(next_free, prev_free, FreeBlocks)' /\ IsOrdered(next_free, FreeBlocks)'
        BY <1>1, <1>3, ChainIsChain, UnlinkChain
    <2> QED BY <2>1, <1>4 DEF TypeOK, Chained, Ordered, OnChain, IsChain
<1>8. Searching' /\ Inserting' /\ Freeing'
    BY <1>2 DEF Searching, Inserting, Freeing, Used
<1>9. Covered' /\ Joined'
    BY <1>2, <1>3 DEF Covered, Joined, Memory, End, Pending
<1> QED BY <1>4, <1>5, <1>6, <1>7, <1>8, <1>9

LEMMA SplitStep ==
    ASSUME Inv, call.pc = "search", call.at # MallocHead, size[call.at] >= call.need,
           Split(call.at, call.need), call' = Returned, UNCHANGED added
    PROVE  Inv'
<1> DEFINE b == call.at
           n == call.need
           rest == b + n
<1> USE Constants DEF Inv
<1>1. b \in FreeBlocks /\ b \in blocks /\ type[b] = "free" /\ b # MallocHead /\ b \in Addr
    BY DEF Searching, OnChain, FreeBlocks, TypeOK
<1>2. /\ call'.pc \in {"idle", "free"} /\ call'.old \in Used \union {MallocHead}
      /\ call'.pc = "free" => call'.old \in Used
      /\ call' \in [pc : {"idle", "search", "insert", "free"}, need : Nat, at : Node, old : Node]
    BY DEF Returned, Idle, Free, Searching, Used, TypeOK, Node
<1>3. n \in Nat \ {0, 1} /\ size[b] \in Nat /\ size[b] >= n + 2 /\ b \in Nat /\ rest \in Nat
      /\ size[b] - n \in Nat \ {0, 1} /\ b < rest /\ rest < End(b)
    <2>1. n \in Nat \ {0, 1} /\ size[b] \in Nat /\ b \in Nat
        BY <1>1 DEF Searching, TypeOK
    <2>2. size[b] >= n + 2 BY DEF Split, Splits
    <2> QED BY <2>1, <2>2 DEF End
<1>4. rest \in Addr
    <2>1. Memory \subseteq Addr
        BY ArenaAssumption DEF ArenaAssumption, Memory, TypeOK
    <2>2. rest \in b .. End(b) - 1
        BY <1>3 DEF End
    <2> QED BY <1>1, <2>1, <2>2 DEF Within
<1>5. blocks \subseteq Nat
    BY DEF TypeOK
<1>6. rest \notin blocks
    <2>1. rest \in blocks => End(b) <= rest
        BY <1>1, <1>3 DEF Apart
    <2>2. End(b) \in Nat
        BY <1>3 DEF End
    <2> QED BY <2>1, <2>2, <1>3
<1>7. rest # MallocHead /\ rest # b /\ rest \in Node /\ b \in Node
    BY <1>4, <1>3, <1>1 DEF Node
<1>8. /\ blocks' = blocks \union {rest}
      /\ type' = [type EXCEPT ![rest] = "free", ![b] = "used"]
      /\ size' = [size EXCEPT ![rest] = size[b] - n, ![b] = n]
      /\ prev' = [prev EXCEPT ![rest] = b, ![next[b]] = rest]
      /\ next' = [next EXCEPT ![rest] = next[b], ![b] = rest]
      /\ next_free' = [next_free EXCEPT ![rest] = next_free[b], ![prev_free[b]] = rest]
      /\ prev_free' = [prev_free EXCEPT ![rest] = prev_free[b], ![next_free[b]] = rest]
    BY DEF Split, Remainder
<1>9. FreeBlocks' = (FreeBlocks \ {b}) \union {rest}
    <2>1. \A x \in blocks : type'[x] = IF x = b THEN "used" ELSE type[x]
        BY <1>6, <1>7, <1>8, <1>1 DEF TypeOK, Node
    <2>2. type'[rest] = "free"
        BY <1>7, <1>8 DEF TypeOK
    <2>3. call'.pc = "free" => call'.old \in blocks /\ type[call'.old] = "used"
        BY <1>2 DEF Used
    <2>4. \A x \in FreeBlocks' : x \in (FreeBlocks \ {b}) \union {rest}
        BY <1>1, <1>8, <2>1 DEF FreeBlocks
    <2>5. \A x \in FreeBlocks : x # b => x \in FreeBlocks'
        BY <1>8, <2>1, <2>3 DEF FreeBlocks
    <2>6. b \notin FreeBlocks'
        BY <1>1, <2>1 DEF FreeBlocks
    <2>7. rest \in FreeBlocks'
        BY <1>6, <1>8, <2>2, <2>3 DEF FreeBlocks
    <2> QED BY <2>4, <2>5, <2>6, <2>7, <1>7
<1>10. TypeOK'
    <2>1. type' \in [Node -> {"head", "used", "free"}] BY <1>8, <1>7 DEF TypeOK
    <2>2. size' \in [Node -> Nat] BY <1>8, <1>7, <1>3 DEF TypeOK
    <2>3. next' \in [Node -> Node] /\ prev' \in [Node -> Node]
        BY <1>8, <1>7 DEF TypeOK
    <2>4. next_free' \in [Node -> Node] /\ prev_free' \in [Node -> Node]
        BY <1>8, <1>7 DEF TypeOK
    <2>5. \A x \in blocks' : size'[x] \in Nat \ {0, 1}
        BY <1>8, <1>7, <1>3, <1>5 DEF TypeOK, Node
    <2>6. blocks' \subseteq Addr /\ added' \subseteq Regions
        BY <1>8, <1>4 DEF TypeOK
    <2> QED BY <2>1, <2>2, <2>3, <2>4, <2>5, <2>6, <1>2 DEF TypeOK
<1>11. InList' = InList \union {rest} /\ InList \subseteq Node /\ b \in InList /\ rest \notin InList
    BY <1>1, <1>6, <1>7, <1>8 DEF InList, TypeOK, Node
<1>12. next[b] \in InList /\ next[b] # b /\ prev[next[b]] = b
    BY <1>1, Neighbours, <1>11 DEF Linked
<1>13. \A x \in Node : /\ next'[x] = IF x = b THEN rest ELSE IF x = rest THEN next[b] ELSE next[x]
                       /\ prev'[x] = IF x = next[b] THEN rest ELSE IF x = rest THEN b ELSE prev[x]
    BY <1>8, <1>7, <1>12, <1>11 DEF TypeOK
<1>14. Linked'
    <2>1. \A x \in InList : next[x] = next[b] => x = b
        BY <1>12, <1>11 DEF Linked
    <2>2. \A x \in InList : prev[x] = b => x = next[b]
        BY <1>11 DEF Linked
    <2> QED BY <1>11, <1>12, <1>13, <1>7, <2>1, <2>2 DEF Linked
<1>15. Sorted'
    <2>1. next[b] # MallocHead => next[b] \in blocks /\ End(b) <= next[b] /\ next[b] \in Nat
        BY <1>1, <1>12, <1>5 DEF InList, Sorted, Apart
    <2>2. ASSUME NEW x \in blocks, x # b
          PROVE /\ x < b => x < rest
                /\ b < x => rest < x
                /\ next[x] # rest
        <3>1. b < x => End(b) <= x BY <2>2, <1>1 DEF Apart
        <3>2. x \in Nat BY <1>5
        <3>3. next[x] \in InList BY DEF Linked, InList
        <3>4. End(b) \in Nat BY <1>3 DEF End
        <3> QED BY <3>1, <3>2, <3>3, <3>4, <1>3, <1>11
    <2>3. \A x \in blocks : x # b => next'[x] = next[x]
        BY <1>13, <1>11, <1>6 DEF InList
    <2>4. next'[b] = rest /\ next'[rest] = next[b] /\ next'[MallocHead] = next[MallocHead]
        BY <1>13, <1>7, <1>1 DEF Node
    <2>5. \A x \in blocks' : next'[x] # MallocHead => x < next'[x]
        <3>1. next[b] # MallocHead => rest < next[b]
            <4>1. End(b) \in Nat BY <1>3 DEF End
            <4> QED BY <4>1, <2>1, <1>3
        <3>2. \A x \in blocks : x # b /\ next[x] # MallocHead => x < next[x]
            BY DEF Sorted
        <3> QED BY <3>1, <3>2, <2>3, <2>4, <1>3, <1>8
    <2>6. ASSUME NEW x \in blocks', NEW y \in blocks', x < y
          PROVE next'[x] # MallocHead /\ next'[x] <= y
        <3>1. CASE x = b
            <4>1. next'[x] = rest BY <3>1, <2>4
            <4>2. y # b BY <3>1, <2>6, <1>3
            <4>3. y = rest \/ rest < y BY <4>2, <3>1, <2>6, <2>2, <1>8
            <4>4. y \in Nat BY <1>3, <1>5, <1>8
            <4> QED BY <4>1, <4>3, <4>4, <1>3, <1>7
        <3>2. CASE x = rest
            <4>1. y \in blocks /\ y # b /\ b < y
                BY <3>2, <2>6, <1>8, <1>3, <1>5
            <4> QED BY <4>1, <3>2, <2>4, <1>1 DEF Sorted
        <3>3. CASE x # b /\ x # rest
            <4>1. x \in blocks /\ next'[x] = next[x] /\ x \in Nat /\ y \in Nat
                BY <3>3, <1>8, <2>3, <1>5, <1>3
            <4>2. CASE y = rest
                <5>1. x < b
                    BY <4>1, <4>2, <2>6, <2>2, <3>3, <1>3
                <5>2. next[x] # MallocHead /\ next[x] <= b
                    BY <5>1, <4>1, <1>1 DEF Sorted
                <5>3. next[x] \in Nat
                    BY <5>2, <4>1, <1>5 DEF Linked, InList
                <5> QED BY <5>2, <5>3, <4>1, <4>2, <1>3
            <4>3. CASE y # rest
                BY <4>1, <4>3, <2>6, <1>8 DEF Sorted
            <4> QED BY <4>2, <4>3
        <3> QED BY <3>1, <3>2, <3>3
    <2>7. ASSUME NEW y \in blocks' PROVE next'[MallocHead] # MallocHead /\ next'[MallocHead] <= y
        <3>1. CASE y = rest
            <4>1. next[MallocHead] # MallocHead /\ next[MallocHead] <= b
                BY <1>1 DEF Sorted
            <4>2. next[MallocHead] \in Nat
                BY <4>1, <1>5 DEF Linked, InList
            <4> QED BY <4>1, <4>2, <3>1, <2>4, <1>3
        <3>2. CASE y # rest
            BY <3>2, <2>4, <1>8 DEF Sorted
        <3> QED BY <3>1, <3>2
    <2> QED BY <2>5, <2>6, <2>7 DEF Sorted
<1>16. Kinds'
    BY <1>8, <1>7, <1>1 DEF Kinds, TypeOK, Node
<1>17. Chained' /\ Ordered'
    <2>1. rest \in Addr \ FreeBlocks
        BY <1>4, <1>6 DEF FreeBlocks
    <2>2. IsChain(next_free, prev_free, FreeBlocks)' /\ IsOrdered(next_free, FreeBlocks)'
        BY <1>1, <1>8, <1>9, <2>1, ChainIsChain, ReplaceChain
    <2> QED BY <2>2, <1>10 DEF TypeOK, Chained, Ordered, OnChain, IsChain
<1>18. \A x \in blocks : x # b => size'[x] = size[x] /\ x + size'[x] = End(x)
    BY <1>8, <1>6, <1>7 DEF TypeOK, Node, End
<1>19. size'[b] = n /\ size'[rest] = size[b] - n /\ b + size'[b] = rest /\ rest + size'[rest] = End(b)
    <2>1. size'[b] = n /\ size'[rest] = size[b] - n
        BY <1>8, <1>7 DEF TypeOK
    <2> QED BY <2>1, <1>3 DEF End
<1>21. Apart'
    <2>1. ASSUME NEW x \in blocks', NEW y \in blocks', x < y PROVE x + size'[x] <= y
        <3>1. End(b) \in Nat BY <1>3 DEF End
        <3>2. \A z \in blocks : z # b /\ b < z => End(b) <= z /\ rest < z
            BY <1>1, <1>3, <1>5, <3>1 DEF Apart
        <3>3. CASE x = b
            BY <3>3, <3>2, <2>1, <1>19, <1>8, <1>3, <1>5
        <3>4. CASE x = rest
            <4>1. y \in blocks /\ y # b /\ b < y
                BY <3>4, <2>1, <1>8, <1>3, <1>5
            <4> QED BY <4>1, <3>4, <3>2, <1>19
        <3>5. CASE x # b /\ x # rest
            <4>1. x \in blocks /\ x + size'[x] = End(x) /\ End(x) \in Nat /\ x \in Nat
                BY <3>5, <1>8, <1>18, <1>5 DEF End, TypeOK, Node
            <4>2. CASE y \in blocks
                BY <4>1, <4>2, <2>1 DEF Apart
            <4>3. CASE y = rest
                <5>1. x < b
                    BY <4>1, <4>3, <3>2, <3>5, <2>1, <1>1, <1>3
                <5>2. End(x) <= b
                    BY <5>1, <4>1, <1>1 DEF Apart
                <5> QED BY <5>2, <4>1, <4>3, <1>3
            <4> QED BY <4>2, <4>3, <1>8
        <3> QED BY <3>3, <3>4, <3>5
    <2> QED BY <2>1 DEF Apart, End
<1>22. Within'
    <2>1. Memory' = Memory BY DEF Memory
    <2>2. ASSUME NEW x \in blocks' PROVE x .. (x + size'[x]) - 1 \subseteq Memory
        <3>1. End(b) \in Nat BY <1>3 DEF End
        <3>2. b .. End(b) - 1 \subseteq Memory BY <1>1 DEF Within
        <3>3. CASE x = b
            <4>1. b .. rest - 1 \subseteq b .. End(b) - 1 BY <1>3, <3>1
            <4> QED BY <4>1, <3>2, <3>3, <1>19
        <3>4. CASE x = rest
            <4>1. rest .. End(b) - 1 \subseteq b .. End(b) - 1 BY <1>3, <3>1
            <4> QED BY <4>1, <3>2, <3>4, <1>19
        <3>5. CASE x # b /\ x # rest
            BY <3>5, <1>8, <1>18 DEF Within
        <3> QED BY <3>3, <3>4, <3>5
    <2> QED BY <2>1, <2>2 DEF Within, End
<1>20. Searching' /\ Inserting' /\ Freeing'
    BY <1>2, <1>8 DEF Searching, Inserting, Freeing, Used
<1>23. Covered'
    <2>1. Memory' = Memory /\ Pending = {} /\ Pending' = {}
        BY <1>2 DEF Memory, Pending
    <2>2. Memory \subseteq Nat
        BY MemoryAddr
    <2>3. ASSUME NEW u \in Memory
          PROVE  \E x \in blocks' : x <= u /\ u < x + size'[x]
        <3>1. PICK x \in blocks : x <= u /\ u < End(x)
            BY <2>1 DEF Covered
        <3>2. CASE x # b
            BY <3>1, <3>2, <1>8, <1>18
        <3>3. CASE x = b /\ u < rest
            BY <3>1, <3>3, <1>8, <1>19
        <3>4. CASE x = b /\ ~(u < rest)
            <4>1. rest <= u /\ u < End(b) BY <3>1, <3>4, <1>3, <2>2
            <4> QED BY <4>1, <1>8, <1>19
        <3> QED BY <3>2, <3>3, <3>4
    <2> QED BY <2>1, <2>3 DEF Covered, End
<1>24. Joined'
    <2>1. ASSUME NEW a \in FreeBlocks', NEW c \in FreeBlocks'
          PROVE  a + size'[a] # c
        <3>1. End(b) \in Nat BY <1>3 DEF End
        <3>2. CASE a = rest
            BY <3>1, <3>2, <1>1, <1>3, <1>9, <1>19 DEF Joined
        <3>3. CASE a # rest
            <4>1. a \in FreeBlocks /\ a \in blocks /\ a # b /\ a + size'[a] = End(a)
                BY <3>3, <1>9, <1>18 DEF FreeBlocks
            <4>2. a \in Nat /\ End(a) \in Nat /\ a < End(a)
                BY <4>1, <1>5 DEF TypeOK, End, Node
            <4>3. (a < b => End(a) <= b) /\ (b < a => End(b) <= a)
                BY <4>1, <1>1 DEF Apart
            <4>4. End(a) # rest
                BY <4>1, <4>2, <4>3, <3>1, <1>3
            <4> QED BY <4>1, <4>4, <1>9 DEF Joined
        <3> QED BY <3>2, <3>3
    <2> QED BY <2>1 DEF Joined, End
<1> QED BY <1>10, <1>14, <1>15, <1>16, <1>17, <1>21, <1>22, <1>20, <1>23, <1>24

-----------------------------------------------------------------------------
(* __free_block                                                             *)

LEMMA FreeStep ==
    ASSUME Inv, call.pc = "free", FreeBlock(call.old), call' = Idle, UNCHANGED added
    PROVE  Inv'
<1> DEFINE b == call.old
           before == prev[b]
           after == next[b]
           JB == Touches(before, b)
           JA == TouchesNext(b, after)
           whole == IF JB THEN before ELSE b
           nf == IF JB THEN next_free ELSE NextPushed(b)
           pf == IF JB THEN prev_free ELSE PrevPushed(b)
           follower == IF JA THEN next[after] ELSE after
           gone == (IF JB THEN {b} ELSE {}) \union (IF JA THEN {after} ELSE {})
           top == IF JA THEN End(after) ELSE End(b)
<1> USE Constants DEF Inv
<1>1. b \in blocks /\ b \in Addr /\ b \notin FreeBlocks /\ b # MallocHead /\ b \in Node /\ blocks \subseteq Nat
      /\ blocks \subseteq Addr /\ b \in Nat
    BY DEF Freeing, FreeBlocks, TypeOK, Node
<1>2. /\ type' = IF JB THEN type ELSE [type EXCEPT ![b] = "free"]
      /\ size' = [size EXCEPT ![whole] = (IF JB THEN size[before] ELSE 0) + size[b]
                                         + (IF JA THEN size[after] ELSE 0)]
      /\ next' = [next EXCEPT ![whole] = follower]
      /\ prev' = [prev EXCEPT ![follower] = whole]
      /\ next_free' = IF JA THEN [nf EXCEPT ![pf[after]] = nf[after]] ELSE nf
      /\ prev_free' = IF JA THEN [pf EXCEPT ![nf[after]] = pf[after]] ELSE pf
      /\ blocks' = blocks \ gone
    BY DEF FreeBlock, Unlink
<1>3. /\ before \in InList /\ after \in InList /\ next[before] = b /\ prev[after] = b
      /\ InList \subseteq Node
    BY <1>1 DEF Linked, InList, TypeOK, Node
<1>4. JB => before \in FreeBlocks /\ before \in blocks /\ before # b /\ before < b /\ End(before) = b
    <2>1. JB => type[before] = "free" /\ before # MallocHead /\ End(before) = b
        BY DEF Touches, Kinds
    <2> QED BY <2>1, <1>1, <1>3, Neighbours DEF InList, FreeBlocks
<1>5. JA => after \in FreeBlocks /\ after \in blocks /\ after # b /\ b < after /\ End(b) = after
            /\ after # before
    <2>1. JA => type[after] = "free" /\ after # MallocHead /\ End(b) = after
        BY DEF TouchesNext, Kinds
    <2> QED BY <2>1, <1>1, <1>3, Neighbours DEF InList, FreeBlocks, Sorted
<1>6. /\ call'.pc = "idle" /\ call'.old = MallocHead
      /\ call' \in [pc : {"idle", "search", "insert", "free"}, need : Nat, at : Node, old : Node]
    BY DEF Idle, Node
<1>7. whole \in blocks /\ whole \notin gone /\ whole \in blocks' /\ whole # MallocHead /\ whole \in Node /\ whole <= b
    BY <1>1, <1>2, <1>4, <1>5 DEF Node
<1>8. follower \in InList /\ follower \in Node
    BY <1>3, <1>5 DEF Linked
<1>9. \A x \in Node : /\ next'[x] = IF x = whole THEN follower ELSE next[x]
                      /\ prev'[x] = IF x = follower THEN whole ELSE prev[x]
    BY <1>2, <1>7, <1>8 DEF TypeOK
<1>10. \A x \in blocks : size[x] \in Nat \ {0, 1} /\ End(x) \in Nat /\ x < End(x) /\ x \in Nat
    BY <1>1 DEF TypeOK, End, Node
<1>11. top \in Nat /\ top >= End(b) /\ (JA => End(after) >= after)
    <2>1. End(b) \in Nat BY <1>1, <1>10
    <2>2. JA => End(after) \in Nat /\ after < End(after) /\ after \in Nat /\ End(b) = after
        BY <1>5, <1>10
    <2>3. CASE JA BY <2>1, <2>2, <2>3
    <2>4. CASE ~JA BY <2>1, <2>4
    <2> QED BY <2>3, <2>4
<1>12. size'[whole] \in Nat \ {0, 1} /\ whole + size'[whole] = top
       /\ \A x \in blocks' : x # whole => size'[x] = size[x]
    <2>1. size'[whole] = (IF JB THEN size[before] ELSE 0) + size[b] + (IF JA THEN size[after] ELSE 0)
          /\ \A x \in blocks' : x # whole => size'[x] = size[x]
        BY <1>2, <1>7, <1>1 DEF TypeOK, Node
    <2>2. /\ size[b] \in Nat \ {0, 1} /\ b \in Nat /\ End(b) = b + size[b]
          /\ JB => size[before] \in Nat \ {0, 1} /\ before \in Nat /\ before + size[before] = b
          /\ JA => size[after] \in Nat \ {0, 1} /\ after \in Nat /\ End(after) = after + size[after]
                   /\ End(b) = after
        BY <1>1, <1>4, <1>5, <1>10 DEF End
    <2>7. whole = IF JB THEN before ELSE b
        OBVIOUS
    <2>8. top = IF JA THEN End(after) ELSE End(b)
        OBVIOUS
    <2> HIDE DEF JA, JB, whole, top, before, after, Inv
    <2>3. CASE JB /\ JA BY <2>1, <2>2, <2>3, <2>7, <2>8
    <2>4. CASE JB /\ ~JA BY <2>1, <2>2, <2>4, <2>7, <2>8
    <2>5. CASE ~JB /\ JA BY <2>1, <2>2, <2>5, <2>7, <2>8
    <2>6. CASE ~JB /\ ~JA BY <2>1, <2>2, <2>6, <2>7, <2>8
    <2> QED BY <2>1, <2>3, <2>4, <2>5, <2>6
<1>13. TypeOK'
    <2>1. type' \in [Node -> {"head", "used", "free"}] BY <1>1, <1>2 DEF TypeOK
    <2>2. size' \in [Node -> Nat]
        <3>1. size'[whole] \in Nat BY <1>12
        <3> QED BY <3>1, <1>2, <1>7 DEF TypeOK
    <2>3. next' \in [Node -> Node] /\ prev' \in [Node -> Node]
        BY <1>2, <1>7, <1>8 DEF TypeOK
    <2>4. nf \in [Node -> Node] /\ pf \in [Node -> Node]
        BY <1>1 DEF TypeOK, NextPushed, PrevPushed, Node
    <2>5. next_free' \in [Node -> Node] /\ prev_free' \in [Node -> Node]
        <3>1. JA => after \in Node BY <1>3
        <3> QED BY <1>2, <2>4, <3>1
    <2>6. \A x \in blocks' : size'[x] \in Nat \ {0, 1}
        BY <1>2, <1>10, <1>12
    <2>7. blocks' \subseteq Addr /\ added' \subseteq Regions
        BY <1>2 DEF TypeOK
    <2> QED BY <2>1, <2>2, <2>3, <2>5, <2>6, <2>7, <1>6 DEF TypeOK
<1>14. \A x \in blocks' : x \in blocks /\ x \notin gone /\ (x # whole => x # b)
    BY <1>2
<1>15. ASSUME NEW x \in blocks', whole < x
       PROVE  b < x /\ after # MallocHead /\ after <= x /\ follower # MallocHead /\ follower <= x /\ top <= x
    <2>1. x \in blocks /\ x # b /\ x \in Nat /\ (JA => x # after)
        BY <1>14, <1>15, <1>10
    <2>2. b < x
        <3>1. CASE JB
            <4>1. b <= x BY <3>1, <1>3, <1>4, <1>15, <2>1 DEF Sorted
            <4> QED BY <4>1, <2>1, <1>10, <1>1
        <3>2. CASE ~JB BY <3>2, <1>15
        <3> QED BY <3>1, <3>2
    <2>3. after # MallocHead /\ after <= x /\ End(b) <= x
        BY <2>1, <2>2, <1>1 DEF Sorted, Apart
    <2>4. JA => after < x
        <3>1. JA => after \in Nat /\ after # x BY <2>1, <1>5, <1>10
        <3> QED BY <3>1, <2>1, <2>3
    <2>5. JA => next[after] # MallocHead /\ next[after] <= x /\ End(after) <= x
        BY <2>1, <2>4, <1>5 DEF Sorted, Apart
    <2> QED BY <2>2, <2>3, <2>5
<1>16. follower # MallocHead => follower \in blocks' /\ whole < follower
    <2>1. ASSUME follower # MallocHead PROVE follower \in blocks /\ b < follower /\ (JA => after < follower)
        <3>1. follower \in blocks BY <1>8, <2>1 DEF InList
        <3>2. after # MallocHead => after \in blocks /\ b < after
            BY <1>1, <1>3 DEF InList, Sorted
        <3>3. JA => after < follower
            BY <1>5, <2>1 DEF Sorted
        <3>4. b < follower
            <4>1. follower \in Nat BY <3>1, <1>10
            <4>2. CASE JA
                <5>1. after \in Nat /\ b < after BY <4>2, <1>5, <1>10
                <5> QED BY <5>1, <4>1, <4>2, <3>3, <1>1
            <4>3. CASE ~JA BY <4>3, <3>2, <2>1
            <4> QED BY <4>2, <4>3
        <3> QED BY <3>1, <3>3, <3>4
    <2> QED BY <2>1, <1>2, <1>7, <1>10, <1>1, <1>5
<1>17. Linked'
    <2>1. InList' = InList \ gone /\ MallocHead \notin gone
        BY <1>1, <1>2, <1>5 DEF InList
    <2>2. \A x \in InList' : x \in Node /\ x \in InList
        BY <2>1, <1>3
    <2>3. follower \in InList' /\ whole \in InList'
        BY <1>16, <1>7 DEF InList
    <2>4. ASSUME NEW x \in InList', x # whole
          PROVE next'[x] = next[x] /\ next[x] \in InList' /\ (next[x] = follower => FALSE)
        <3>1. next'[x] = next[x] /\ next[x] \in InList /\ x \in InList /\ prev[next[x]] = x
            BY <2>2, <2>4, <1>9 DEF Linked
        <3>2. next[x] # b \/ ~JB
            BY <3>1, <2>4
        <3>3. ~(JA /\ next[x] = after)
            <4>1. next[x] = after => x = b BY <3>1, <1>3
            <4>2. x # b BY <2>4, <2>1
            <4> QED BY <4>1, <4>2
        <3>4. next[x] # follower
            <4>1. CASE JA
                <5>1. next[after] = next[x] => x = after
                    BY <3>1, <4>1, <1>5 DEF Linked, InList
                <5>2. x # after BY <4>1, <2>1, <2>4
                <5> QED BY <5>1, <5>2, <4>1
            <4>2. CASE ~JA
                <5>1. next[x] = after => x = b BY <3>1, <1>3
                <5>2. x # b BY <2>4, <2>1
                <5> QED BY <4>2, <5>1, <5>2
            <4> QED BY <4>1, <4>2
        <3> QED BY <3>1, <3>2, <3>3, <3>4, <2>1
    <2>5. ASSUME NEW x \in InList', x # follower
          PROVE prev'[x] = prev[x] /\ prev[x] \in InList' /\ prev[x] # whole
        <3>1. prev'[x] = prev[x] /\ prev[x] \in InList /\ x \in InList /\ next[prev[x]] = x
            BY <2>2, <2>5, <1>9 DEF Linked
        <3>2. CASE prev[x] = b
            <4>1. x = after BY <3>1, <3>2
            <4>2. FALSE BY <4>1, <2>5, <2>1
            <4> QED BY <4>2
        <3>3. CASE prev[x] # b
            <4>1. ~(JA /\ prev[x] = after)
                BY <3>1, <2>5
            <4>2. prev[x] # whole
                <5>1. JB /\ prev[x] = before => x = b BY <3>1, <1>3
                <5>2. JB => x # b BY <2>1, <2>5
                <5> QED BY <5>1, <5>2, <3>3
            <4> QED BY <3>1, <3>3, <4>1, <4>2, <2>1
        <3> QED BY <3>2, <3>3
    <2>6. next'[whole] = follower /\ prev'[follower] = whole
        BY <1>7, <1>8, <1>9
    <2>7. \A x \in InList' : next[prev[x]] = x /\ prev[next[x]] = x
        BY <2>2 DEF Linked
    <2>8. ASSUME NEW x \in InList'
          PROVE next'[x] \in InList' /\ prev'[x] \in InList' /\ next'[prev'[x]] = x /\ prev'[next'[x]] = x
        <3>1. next'[x] \in InList' /\ prev'[next'[x]] = x
            <4>1. CASE x = whole BY <4>1, <2>3, <2>6
            <4>2. CASE x # whole BY <4>2, <2>4, <2>5, <2>7
            <4> QED BY <4>1, <4>2
        <3>2. prev'[x] \in InList' /\ next'[prev'[x]] = x
            <4>1. CASE x = follower BY <4>1, <2>3, <2>6
            <4>2. CASE x # follower BY <4>2, <2>4, <2>5, <2>7
            <4> QED BY <4>1, <4>2
        <3> QED BY <3>1, <3>2
    <2> QED BY <2>8 DEF Linked
<1>18. Sorted'
    <2>1. \A x \in blocks' : x # whole => next'[x] = next[x]
        BY <1>9, <1>14, <1>3 DEF InList
    <2>2. next'[whole] = follower /\ next'[MallocHead] = next[MallocHead]
        BY <1>7, <1>9 DEF Node
    <2>3. \A x \in blocks' : next'[x] # MallocHead => x < next'[x]
        BY <2>1, <2>2, <1>14, <1>16 DEF Sorted
    <2>4. \A x, y \in blocks' : x < y => next'[x] # MallocHead /\ next'[x] <= y
        BY <2>1, <2>2, <1>14, <1>15 DEF Sorted
    <2>5. \A y \in blocks' : next'[MallocHead] # MallocHead /\ next'[MallocHead] <= y
        BY <2>2, <1>14 DEF Sorted
    <2> QED BY <2>3, <2>4, <2>5 DEF Sorted
<1>19. Kinds'
    BY <1>1, <1>2 DEF Kinds, TypeOK
<1>20. Apart'
    <2>1. ASSUME NEW x \in blocks', NEW y \in blocks', x < y PROVE x + size'[x] <= y
        <3>1. CASE x = whole BY <3>1, <2>1, <1>12, <1>15
        <3>2. CASE x # whole
            BY <3>2, <2>1, <1>12, <1>14 DEF Apart, End
        <3> QED BY <3>1, <3>2
    <2> QED BY <2>1 DEF Apart, End
<1>21. Within'
    <2>1. Memory' = Memory BY DEF Memory
    <2>2. \A x \in blocks : x .. End(x) - 1 \subseteq Memory BY DEF Within
    <2>3. whole .. top - 1 \subseteq Memory
        <3> SUFFICES ASSUME NEW u \in whole .. top - 1 PROVE u \in Memory OBVIOUS
        <3>1. u \in Int /\ whole <= u /\ u < top /\ whole \in Nat
            BY <1>11, <1>7, <1>10
        <3>2. CASE u < b
            <4>1. JB /\ u \in before .. End(before) - 1
                BY <3>1, <3>2, <1>4, <1>1
            <4> QED BY <4>1, <2>2, <1>4
        <3>3. CASE b <= u /\ u < End(b)
            <4>1. u \in b .. End(b) - 1 BY <3>1, <3>3, <1>1, <1>10
            <4> QED BY <4>1, <2>2, <1>1
        <3>4. CASE End(b) <= u
            <4>1. JA /\ u < End(after) /\ End(b) = after
                <5>1. End(b) \in Nat BY <1>1, <1>10
                <5>2. JA BY <5>1, <3>1, <3>4
                <5> QED BY <5>2, <3>1, <1>5
            <4>2. u \in after .. End(after) - 1
                BY <4>1, <3>1, <3>4, <1>5, <1>10
            <4> QED BY <4>1, <4>2, <2>2, <1>5
        <3>5. End(b) \in Nat BY <1>1, <1>10
        <3> QED BY <3>1, <3>2, <3>3, <3>4, <3>5, <1>1
    <2>4. ASSUME NEW x \in blocks' PROVE x .. (x + size'[x]) - 1 \subseteq Memory
        <3>1. CASE x = whole BY <3>1, <1>12, <2>3
        <3>2. CASE x # whole BY <3>2, <1>12, <1>14, <2>2 DEF End
        <3> QED BY <3>1, <3>2
    <2> QED BY <2>1, <2>4 DEF Within, End
<1>22. Chained' /\ Ordered'
    <2> DEFINE F == IF JB THEN FreeBlocks ELSE FreeBlocks \union {b}
    <2>1. IsChain(next_free, prev_free, FreeBlocks) /\ IsOrdered(next_free, FreeBlocks)
        BY ChainIsChain
    <2>2. IsChain(nf, pf, F) /\ IsOrdered(nf, F)
        BY <2>1, <1>1, PushChain DEF NextPushed, PrevPushed
    <2>3. FreeBlocks' = IF JA THEN F \ {after} ELSE F
        <3>1. \A x \in blocks' : type'[x] = IF ~JB /\ x = b THEN "free" ELSE type[x]
            BY <1>1, <1>2, <1>14 DEF TypeOK, Node
        <3>2. FreeBlocks' = {x \in blocks' : type'[x] = "free"}
            BY <1>6 DEF FreeBlocks
        <3>3. \A x \in blocks : x # b => (x \in FreeBlocks <=> type[x] = "free")
            BY DEF FreeBlocks
        <3> QED BY <3>1, <3>2, <3>3, <1>1, <1>2, <1>4, <1>5 DEF FreeBlocks
    <2>4. IsChain(next_free, prev_free, FreeBlocks)' /\ IsOrdered(next_free, FreeBlocks)'
        <3>1. CASE JA
            <4>1. after \in F BY <3>1, <1>5
            <4> QED BY <3>1, <4>1, <2>2, <2>3, <1>2, UnlinkChain
        <3>2. CASE ~JA BY <3>2, <2>2, <2>3, <1>2
        <3> QED BY <3>1, <3>2
    <2> QED BY <2>4, <1>13 DEF TypeOK, Chained, Ordered, OnChain, IsChain
<1>23. Searching' /\ Inserting' /\ Freeing'
    BY <1>6 DEF Searching, Inserting, Freeing
<1>24. Covered'
    <2>1. Memory' = Memory /\ Pending = {} /\ Pending' = {}
        BY <1>6 DEF Memory, Pending
    <2>2. Memory \subseteq Nat
        BY MemoryAddr
    <2>3. ASSUME NEW u \in Memory
          PROVE  \E x \in blocks' : x <= u /\ u < x + size'[x]
        <3>1. PICK x \in blocks : x <= u /\ u < End(x)
            BY <2>1 DEF Covered
        <3>2. x \in Nat /\ End(x) \in Nat /\ End(b) \in Nat /\ whole \in Nat /\ u \in Nat
            BY <1>1, <1>7, <1>10, <2>2
        <3>3. CASE x = b
            <4>1. whole <= u /\ u < top
                BY <3>1, <3>2, <3>3, <1>1, <1>7, <1>11
            <4> QED BY <4>1, <1>7, <1>12
        <3>4. CASE JB /\ x = before
            <4>1. whole <= u /\ u < top
                BY <3>1, <3>2, <3>4, <1>1, <1>4, <1>10, <1>11
            <4> QED BY <4>1, <1>7, <1>12
        <3>5. CASE JA /\ x = after
            <4>1. whole <= u /\ u < top
                BY <3>1, <3>2, <3>5, <1>1, <1>5, <1>7
            <4> QED BY <4>1, <1>7, <1>12
        <3>6. CASE x # b /\ ~(JB /\ x = before) /\ ~(JA /\ x = after)
            <4>1. x \in blocks' /\ x # whole BY <3>6, <1>2
            <4> QED BY <3>1, <4>1, <1>12 DEF End
        <3> QED BY <3>3, <3>4, <3>5, <3>6
    <2> QED BY <2>1, <2>3 DEF Covered, End
<1>25. Joined'
    <2>1. ASSUME NEW x \in FreeBlocks', x # whole
          PROVE  /\ x \in FreeBlocks /\ x \in blocks' /\ x \in blocks /\ x # b
                 /\ (JA => x # after) /\ type[x] = "free"
                 /\ x + size'[x] = End(x)
        <3>1. x \in blocks' /\ type'[x] = "free" BY DEF FreeBlocks
        <3>2. x \in blocks /\ x # b /\ (JA => x # after) /\ size'[x] = size[x]
            BY <2>1, <3>1, <1>2, <1>4, <1>12, <1>14
        <3>3. type[x] = "free"
            BY <3>1, <3>2, <1>1, <1>2 DEF TypeOK, Node
        <3> QED BY <3>1, <3>2, <3>3 DEF FreeBlocks, End
    <2>2. ASSUME NEW a \in FreeBlocks', NEW c \in FreeBlocks'
          PROVE  a + size'[a] # c
        <3>1. /\ End(b) \in Nat /\ whole \in Nat /\ b < End(b)
              /\ whole < top
            <4>1. whole \in blocks BY <1>7
            <4>2. End(b) \in Nat /\ whole \in Nat /\ b < End(b)
                BY <4>1, <1>1, <1>10
            <4>3. size'[whole] \in Nat \ {0, 1} /\ whole + size'[whole] = top
                BY <1>12
            <4> HIDE DEF whole, top
            <4>4. whole < top BY <4>2, <4>3
            <4> QED BY <4>2, <4>4
        <3>2. CASE a = whole /\ c = whole
            BY <3>1, <3>2, <1>12
        <3>3. CASE a = whole /\ c # whole
            <4> SUFFICES ASSUME top = c PROVE FALSE
                BY <3>3, <1>12
            <4>1. c \in FreeBlocks /\ c \in blocks' /\ c \in blocks /\ type[c] = "free" /\ c \in Nat
                BY <2>1, <3>3, <1>10
            <4>2. after # MallocHead /\ after <= c
                BY <3>1, <4>1, <1>15
            <4>3. CASE JA
                BY <4>1, <4>3, <1>5 DEF Joined
            <4>4. CASE ~JA
                <5>1. after \in blocks /\ b < after /\ End(b) <= after
                    BY <4>2, <1>1, <1>3 DEF InList, Sorted, Apart
                <5>2. after = c
                    <6>1. after \in Nat /\ c = End(b)
                        BY <4>4, <5>1, <1>10
                    <6> HIDE DEF after, top
                    <6> QED BY <4>1, <4>2, <5>1, <6>1
                <5> QED BY <4>1, <4>4, <5>2 DEF TouchesNext
            <4> QED BY <4>3, <4>4
        <3>4. CASE a # whole /\ c = whole
            <4>1. a \in FreeBlocks /\ a \in blocks /\ type[a] = "free" /\ a + size'[a] = End(a) /\ a # b
                BY <2>1, <3>4
            <4> SUFFICES ASSUME End(a) = whole PROVE FALSE
                BY <3>4, <4>1
            <4>2. CASE JB
                BY <4>1, <4>2, <1>4 DEF Joined
            <4>3. CASE ~JB
                <5>1. a < b
                    BY <4>1, <4>3, <1>10
                <5>2. before # MallocHead /\ before \in blocks /\ before < b /\ a <= before
                    BY <4>1, <5>1, <1>1, <1>3, Neighbours DEF InList
                <5>3. a < before => End(a) <= before
                    BY <4>1, <5>2 DEF Apart
                <5>4. a = before
                    <6>1. a \in Nat /\ before \in Nat /\ End(a) = b
                        BY <4>1, <4>3, <5>2, <1>10
                    <6> HIDE DEF before
                    <6> QED BY <5>2, <5>3, <6>1, <1>1
                <5> QED BY <4>1, <4>3, <5>4 DEF Touches
            <4> QED BY <4>2, <4>3
        <3>5. CASE a # whole /\ c # whole
            BY <2>1, <3>5 DEF Joined
        <3> QED BY <3>2, <3>3, <3>4, <3>5
    <2> QED BY <2>2 DEF Joined, End
<1> QED BY <1>13, <1>17, <1>18, <1>19, <1>20, <1>21, <1>22, <1>23, <1>24, <1>25

-----------------------------------------------------------------------------
(* malloc_add *)

LEMMA AddStep ==
    ASSUME Inv, NEW r \in Regions, MallocAdd(r)
    PROVE  Inv'
<1> DEFINE b == r.start
<1> USE Constants DEF Inv, MallocAdd
<1>1. /\ b \in Nat /\ Rounded(r.size) \in Nat \ {0, 1} /\ Extent(r) \subseteq Addr /\ b \in Extent(r)
      /\ Extent(r) = b .. b + Rounded(r.size) - 1
    BY ArenaAssumption DEF ArenaAssumption, Extent
<1>2. Extent(r) \intersect Memory = {}
    BY ArenaAssumption DEF ArenaAssumption, Memory, TypeOK
<1>3. \A a \in blocks : a \in Nat /\ End(a) \in Nat /\ a \in Memory /\ a .. End(a) - 1 \subseteq Memory
    <2> SUFFICES ASSUME NEW a \in blocks
                 PROVE a \in Nat /\ End(a) \in Nat /\ a \in Memory /\ a .. End(a) - 1 \subseteq Memory
        OBVIOUS
    <2>1. a \in Nat /\ End(a) \in Nat /\ a < End(a) BY DEF TypeOK, End, Node
    <2>2. a \in a .. End(a) - 1 BY <2>1
    <2> QED BY <2>1, <2>2 DEF Within
<1>4. b \notin blocks /\ b \in Addr /\ b # MallocHead /\ b \in Node
    BY <1>1, <1>2, <1>3 DEF Node
<1>5. \A x \in blocks \union {MallocHead} : type'[x] = type[x] /\ size'[x] = size[x]
    BY <1>4 DEF TypeOK, Node
<1>6. type'[b] = "free" /\ size'[b] = Rounded(r.size)
    BY <1>4 DEF TypeOK
<1>7. /\ call'.pc = "insert" /\ call'.old = b /\ call'.at = prev[MallocHead]
      /\ call' \in [pc : {"idle", "search", "insert", "free"}, need : Nat, at : Node, old : Node]
    BY <1>4 DEF Insert, TypeOK, Node
<1>8. TypeOK'
    BY <1>1, <1>4, <1>5, <1>7 DEF TypeOK
<1>9. FreeBlocks' = FreeBlocks
    BY <1>5, <1>7 DEF FreeBlocks, Idle
<1>10. Linked' /\ Sorted' /\ Kinds' /\ Chained' /\ Ordered'
    BY <1>5, <1>9 DEF Linked, Sorted, Kinds, Chained, Ordered, InList, OnChain
<1>11. \A x \in blocks : x + size'[x] = End(x)
    BY <1>5 DEF End
<1>12. Apart'
    BY <1>11 DEF Apart, End
<1>13. Memory' = Memory \union Extent(r)
    BY DEF Memory
<1>14. Within'
    <2>1. \A x \in blocks : x .. (x + size'[x]) - 1 \subseteq Memory'
        BY <1>3, <1>11, <1>13
    <2> QED BY <2>1 DEF Within, End
<1>15. Inserting'
    <2>1. b .. (b + size'[b]) - 1 \subseteq Memory'
        BY <1>1, <1>6, <1>13
    <2>2. ASSUME NEW a \in blocks
          PROVE (a < b => a + size'[a] <= b) /\ (b < a => b + size'[b] <= a)
        <3>1. b \notin a .. End(a) - 1 /\ a \notin b .. b + Rounded(r.size) - 1
            BY <1>1, <1>2, <1>3
        <3> QED BY <3>1, <1>1, <1>3, <1>6, <1>11
    <2>3. prev[MallocHead] \in InList
        BY DEF Linked, InList
    <2>4. ASSUME NEW a \in blocks, prev[MallocHead] # MallocHead, prev[MallocHead] < a PROVE FALSE
        <3>1. prev[MallocHead] \in blocks /\ next[prev[MallocHead]] = MallocHead
            BY <2>3, <2>4 DEF Linked, InList
        <3> QED BY <3>1, <2>4 DEF Sorted
    <2>5. ASSUME NEW a \in blocks, prev[MallocHead] = MallocHead PROVE FALSE
        BY <2>5 DEF Linked, InList, Sorted
    <2>6. /\ b \in Addr \ blocks' /\ type'[b] = "free" /\ size'[b] \in Nat \ {0, 1}
          /\ call'.at \in InList' /\ blocks' = blocks
        BY <1>1, <1>4, <1>6, <1>7, <2>3 DEF InList
    <2>7. \A a \in blocks : ~(call'.at = MallocHead \/ call'.at < a)
        BY <1>7, <2>4, <2>5
    <2> QED BY <1>7, <2>1, <2>2, <2>6, <2>7 DEF Inserting, End
<1>16. Searching' /\ Freeing'
    BY <1>7 DEF Searching, Freeing
<1>17. Covered'
    <2>1. Pending = {} /\ Pending' = {b} /\ blocks' = blocks
        BY <1>7 DEF Pending, Idle
    <2>2. ASSUME NEW u \in Memory'
          PROVE  \E x \in blocks \union {b} : x <= u /\ u < x + size'[x]
        <3>1. CASE u \in Memory
            <4>1. PICK x \in blocks : x <= u /\ u < End(x)
                BY <2>1, <3>1 DEF Covered
            <4> QED BY <4>1, <1>11
        <3>2. CASE u \in Extent(r)
            BY <3>2, <1>1, <1>6
        <3> QED BY <3>1, <3>2, <1>13
    <2> QED BY <2>1, <2>2 DEF Covered, End
<1>18. Joined'
    <2>1. \A a \in FreeBlocks : a + size'[a] = End(a)
        BY <1>11 DEF FreeBlocks
    <2> QED BY <2>1, <1>9 DEF Joined, End
<1> QED BY <1>8, <1>10, <1>12, <1>14, <1>15, <1>16, <1>17, <1>18

LEMMA LinkStep ==
    ASSUME Inv, Link
    PROVE  Inv'
<1> DEFINE b == call.old
           before == call.at
           after == next[before]
<1> USE Constants DEF Inv, Link
<1>1. /\ b \in Addr /\ b \notin blocks /\ b # MallocHead /\ b \in Node /\ b \in Nat /\ blocks \subseteq Nat
      /\ blocks \subseteq Addr
    BY DEF Inserting, Node, TypeOK
<1>2. before \in InList /\ after \in InList /\ prev[after] = before /\ InList \subseteq Node /\ b \notin InList
    BY <1>1 DEF Inserting, Linked, InList, Node
<1>3. /\ blocks' = blocks \union {b} /\ InList' = InList \union {b}
      /\ \A x \in Node : /\ next'[x] = IF x = before THEN b ELSE IF x = b THEN after ELSE next[x]
                         /\ prev'[x] = IF x = after THEN b ELSE IF x = b THEN before ELSE prev[x]
    BY <1>1, <1>2 DEF TypeOK, InList
<1>4. call'.pc = "free" /\ call'.old = b
      /\ call' \in [pc : {"idle", "search", "insert", "free"}, need : Nat, at : Node, old : Node]
    BY <1>1 DEF Free, Node
<1>5. TypeOK'
    <2>1. next' \in [Node -> Node] /\ prev' \in [Node -> Node]
        BY <1>1, <1>2 DEF TypeOK
    <2>2. blocks' \subseteq Addr /\ \A x \in blocks' : size[x] \in Nat \ {0, 1}
        <3>1. \A x \in blocks : size[x] \in Nat \ {0, 1} BY DEF TypeOK
        <3>2. size[b] \in Nat \ {0, 1} BY DEF Inserting
        <3> QED BY <1>1, <1>3, <3>1, <3>2
    <2>3. added' \subseteq Regions BY DEF TypeOK
    <2> QED BY <1>4, <2>1, <2>2, <2>3 DEF TypeOK
<1>6. FreeBlocks' = FreeBlocks
    BY <1>1, <1>3, <1>4 DEF FreeBlocks
<1>7. Chained' /\ Ordered' /\ Kinds'
    BY <1>3, <1>6 DEF Chained, Ordered, Kinds, OnChain, Inserting
<1>8. Linked'
    <2>1. \A x \in InList : x # before => next[x] # after
        BY <1>2 DEF Linked
    <2>2. \A x \in InList : x # after => prev[x] # before
        BY DEF Linked
    <2>3. \A x \in InList : /\ x \in Node /\ x # b /\ next[x] \in InList /\ prev[x] \in InList
                            /\ next[prev[x]] = x /\ prev[next[x]] = x
        BY <1>2 DEF Linked
    <2>4. next'[b] = after /\ prev'[b] = before /\ next'[before] = b /\ prev'[after] = b
        BY <1>1, <1>2, <1>3
    <2>5. \A x \in InList : (x # before => next'[x] = next[x]) /\ (x # after => prev'[x] = prev[x])
        BY <1>3, <2>3
    <2>6. ASSUME NEW x \in InList \union {b}
          PROVE /\ next'[x] \in InList \union {b} /\ prev'[x] \in InList \union {b}
                /\ next'[prev'[x]] = x /\ prev'[next'[x]] = x
        <3>1. CASE x = b BY <3>1, <2>4, <1>2
        <3>2. CASE x \in InList
            <4>1. next'[x] \in InList \union {b} /\ prev'[next'[x]] = x
                <5>1. CASE x = before BY <5>1, <2>4
                <5>2. CASE x # before
                    <6>1. next'[x] = next[x] /\ next[x] \in InList /\ next[x] # after
                        BY <5>2, <3>2, <2>1, <2>3, <2>5
                    <6>2. prev'[next[x]] = prev[next[x]] /\ prev[next[x]] = x
                        BY <6>1, <3>2, <2>3, <2>5
                    <6> QED BY <6>1, <6>2
                <5> QED BY <5>1, <5>2
            <4>2. prev'[x] \in InList \union {b} /\ next'[prev'[x]] = x
                <5>1. CASE x = after BY <5>1, <2>4
                <5>2. CASE x # after
                    <6>1. prev'[x] = prev[x] /\ prev[x] \in InList /\ prev[x] # before
                        BY <5>2, <3>2, <2>2, <2>3, <2>5
                    <6>2. next'[prev[x]] = next[prev[x]] /\ next[prev[x]] = x
                        BY <6>1, <3>2, <2>3, <2>5
                    <6> QED BY <6>1, <6>2
                <5> QED BY <5>1, <5>2
            <4> QED BY <4>1, <4>2
        <3> QED BY <3>1, <3>2
    <2>7. InList' = InList \union {b} BY <1>3
    <2>8. \A x \in InList' : next'[x] \in InList' /\ prev'[x] \in InList'
                            /\ next'[prev'[x]] = x /\ prev'[next'[x]] = x
        <3> SUFFICES ASSUME NEW x \in InList'
                     PROVE  next'[x] \in InList' /\ prev'[x] \in InList'
                            /\ next'[prev'[x]] = x /\ prev'[next'[x]] = x
            OBVIOUS
        <3> HIDE DEF Inv, Link
        <3>1. x \in InList \union {b} BY <2>7
        <3>2. /\ next'[x] \in InList \union {b} /\ prev'[x] \in InList \union {b}
              /\ next'[prev'[x]] = x /\ prev'[next'[x]] = x
            BY <3>1, <2>6
        <3> QED BY <3>2, <2>7
    <2> QED BY <2>8, Zenon DEF Linked
<1>9. \A a \in blocks : (before # MallocHead => before < b) /\ (before = MallocHead \/ before < a => b < a)
    <2>1. before # MallocHead => before \in blocks /\ before < b
        BY <1>2 DEF Passes, InList
    <2> QED BY <2>1 DEF Inserting
<1>10. before # MallocHead => before \in blocks /\ before < b
    BY <1>2 DEF Passes, InList
<1>11. after # MallocHead => after \in blocks /\ b < after
    <2>1. after # MallocHead => after \in blocks
        BY <1>2 DEF InList
    <2>2. after # MallocHead /\ before # MallocHead => before < after
        BY <1>10 DEF Sorted
    <2> QED BY <2>1, <2>2, <1>9
<1>12. ASSUME NEW y \in blocks, b < y PROVE after # MallocHead /\ after <= y
    <2>1. CASE before = MallocHead
        BY <2>1 DEF Sorted
    <2>2. CASE before # MallocHead
        <3>1. before < y BY <2>2, <1>1, <1>10, <1>12
        <3> QED BY <3>1, <2>2, <1>10 DEF Sorted
    <2> QED BY <2>1, <2>2
<1>13. ASSUME NEW x \in blocks, x < b, x # before PROVE next[x] # MallocHead /\ next[x] <= b
    <2>1. before # MallocHead /\ x < before
        BY <1>9, <1>1, <1>10, <1>13
    <2>2. next[x] # MallocHead /\ next[x] <= before
        BY <2>1, <1>10 DEF Sorted
    <2>3. next[x] \in Nat
        BY <2>2, <1>1 DEF Linked, InList
    <2>4. before \in Nat /\ before < b BY <2>1, <1>1, <1>10
    <2> QED BY <2>2, <2>3, <2>4, <1>1
<1>14. Sorted'
    <2>1. \A x \in blocks : x # before => next'[x] = next[x]
        BY <1>1, <1>2, <1>3 DEF InList
    <2>2. next'[b] = after /\ next'[before] = b
        BY <1>1, <1>2, <1>3
    <2>3. \A x \in blocks' : next'[x] # MallocHead => x < next'[x]
        <3>1. \A x \in blocks : next[x] # MallocHead => x < next[x] BY DEF Sorted
        <3>2. \A x \in blocks' : x = b \/ x \in blocks BY <1>3
        <3>3. before \in blocks => before < b BY <1>1, <1>10
        <3> QED BY <1>11, <2>1, <2>2, <3>1, <3>2, <3>3
    <2>4. ASSUME NEW x \in blocks', NEW y \in blocks', x < y PROVE next'[x] # MallocHead /\ next'[x] <= y
        <3>1. CASE x = b
            <4>1. y \in blocks BY <3>1, <2>4, <1>3, <1>1
            <4> QED BY <3>1, <4>1, <2>2, <2>4, <1>12
        <3>2. CASE x = before /\ x # b
            <4>1. y = b \/ b < y BY <3>2, <2>4, <1>3, <1>9
            <4> QED BY <4>1, <3>2, <2>2, <1>1, <1>3
        <3>3. CASE x # b /\ x # before
            <4>1. x \in blocks /\ next'[x] = next[x] BY <3>3, <1>3, <2>1
            <4>2. CASE y = b BY <4>1, <4>2, <3>3, <2>4, <1>13
            <4>3. CASE y # b BY <4>1, <4>3, <2>4, <1>3 DEF Sorted
            <4> QED BY <4>2, <4>3
        <3> QED BY <3>1, <3>2, <3>3
    <2>5. ASSUME NEW y \in blocks' PROVE next'[MallocHead] # MallocHead /\ next'[MallocHead] <= y
        <3>1. CASE before = MallocHead
            <4>1. y = b \/ b < y BY <3>1, <1>3, <1>9
            <4> QED BY <3>1, <4>1, <2>2, <1>1, <1>3
        <3>2. CASE before # MallocHead
            <4>1. next'[MallocHead] = next[MallocHead] /\ next[MallocHead] # MallocHead /\ next[MallocHead] <= before
                BY <3>2, <1>1, <1>3, <1>10 DEF Sorted, Node
            <4>2. next[MallocHead] \in Nat
                BY <4>1, <1>1 DEF Linked, InList
            <4>3. next[MallocHead] <= b BY <3>2, <4>1, <4>2, <1>1, <1>10
            <4>4. y \in blocks => next[MallocHead] <= y BY DEF Sorted
            <4> QED BY <4>1, <4>3, <4>4, <1>3
        <3> QED BY <3>1, <3>2
    <2> QED BY <2>3, <2>4, <2>5 DEF Sorted
<1>15. Apart' /\ Within'
    <2>1. \A x \in blocks' : x + size'[x] = End(x) BY DEF End
    <2>2. \A x, y \in blocks' : x < y => End(x) <= y
        BY <1>1, <1>3 DEF Inserting, Apart
    <2>3. \A x \in blocks' : x .. End(x) - 1 \subseteq Memory
        BY <1>3 DEF Inserting, Within
    <2> QED BY <2>1, <2>2, <2>3 DEF Apart, Within, Memory, End
<1>16. Searching' /\ Inserting' /\ Freeing'
    BY <1>3, <1>4 DEF Searching, Inserting, Freeing
<1>17. Covered' /\ Joined'
    <2>1. blocks' \union Pending' = blocks \union Pending
        BY <1>3, <1>4 DEF Pending
    <2>2. \A x : End(x)' = End(x)
        BY DEF End
    <2> QED BY <2>1, <2>2, <1>6 DEF Covered, Joined, Memory
<1> QED BY <1>5, <1>7, <1>8, <1>14, <1>15, <1>16, <1>17

-----------------------------------------------------------------------------
LEMMA InitInv == Init => Inv
<1> SUFFICES ASSUME Init PROVE Inv OBVIOUS
<1> USE Constants DEF Init, Idle
<1>1. blocks = {} /\ InList = {MallocHead} /\ FreeBlocks = {} /\ OnChain = {MallocHead} /\ MallocHead \in Node
    BY DEF InList, FreeBlocks, OnChain, Node
<1>2. TypeOK BY <1>1 DEF TypeOK
<1>3. Linked /\ Sorted /\ Chained /\ Kinds BY <1>1 DEF Linked, Sorted, Chained, Kinds
<1>4. Ordered
    <2>1. [x \in Addr |-> 0] \in [Addr -> Int] /\ 0 \in Int OBVIOUS
    <2> QED BY <1>1, <2>1 DEF Ordered, IsOrdered, Numbered
<1>5. Apart /\ Within BY <1>1 DEF Apart, Within
<1>6. Searching /\ Inserting /\ Freeing BY DEF Searching, Inserting, Freeing
<1>7. Covered /\ Joined BY <1>1 DEF Covered, Joined, Memory
<1> QED BY <1>2, <1>3, <1>4, <1>5, <1>6, <1>7 DEF Inv

LEMMA NextInv == Inv /\ [Next]_vars => Inv'
<1> SUFFICES ASSUME Inv, [Next]_vars PROVE Inv' OBVIOUS
<1> DEFINE Calls == [pc : {"idle", "search", "insert", "free"}, need : Nat, at : Node, old : Node]
<1>1. call \in Calls /\ next_free[MallocHead] \in OnChain /\ MallocHead \in Node /\ OnChain \subseteq Node
      /\ Used \subseteq Node /\ InList \subseteq Node
    BY Constants DEF Inv, TypeOK, Chained, OnChain, FreeBlocks, Node, Used, InList
<1>2. ASSUME UNCHANGED <<headers, added>>
      PROVE OnChain' = OnChain \/ call.pc = "free" \/ call'.pc = "free"
    BY <1>2 DEF headers, OnChain, FreeBlocks
<1>3. CASE UNCHANGED vars
    <2>1. /\ UNCHANGED <<type, size, next, prev, next_free, prev_free, blocks, call, added>>
          /\ \A x : End(x)' = End(x)
        BY <1>3 DEF vars, headers, End
    <2>2. /\ FreeBlocks' = FreeBlocks /\ InList' = InList /\ Used' = Used
          /\ Memory' = Memory /\ Pending' = Pending
        BY <2>1 DEF FreeBlocks, InList, Used, Memory, Pending
    <2>3. TypeOK' /\ Linked' /\ Sorted' /\ Kinds'
        BY <2>1, <2>2 DEF Inv, TypeOK, Linked, Sorted, Kinds
    <2>4. Chained' /\ Ordered' /\ Joined'
        BY <2>1, <2>2 DEF Inv, Chained, Ordered, Joined, OnChain
    <2>5. Apart' /\ Within' /\ Covered'
        BY <2>1, <2>2 DEF Inv, Apart, Within, Covered
    <2>6. Searching'
        BY <2>1, <2>2 DEF Inv, Searching, Looked, OnChain
    <2>7. Inserting' /\ Freeing'
        BY <2>1, <2>2 DEF Inv, Inserting, Freeing
    <2> QED BY <2>3, <2>4, <2>5, <2>6, <2>7 DEF Inv
<1>4. ASSUME NEW n \in Nat \ {0, 1}, NEW old \in Used \union {MallocHead}, call.pc = "idle",
             call' = Search(n, old), UNCHANGED <<headers, added>>
      PROVE Inv'
    <2>1. call' \in Calls /\ call'.pc = "search" /\ call'.at = next_free[MallocHead] /\ call'.need = n
          /\ call'.old = old
        BY <1>1, <1>4 DEF Search
    <2>2. Searching'
        <3>1. Looked'
            <4>1. /\ FreeBlocks' = FreeBlocks /\ next_free' = next_free /\ size' = size
                  /\ FreeBlocks \subseteq Addr
                BY <1>4, <2>1 DEF FreeBlocks, headers, Inv, TypeOK
            <4>2. PICK place \in [Addr -> Int], front \in Int :
                     Numbered(place, front, next_free, FreeBlocks)
                BY DEF Inv, Ordered, IsOrdered
            <4>3. \A x \in FreeBlocks : call'.at # MallocHead /\ ~(place[x] < place[call'.at])
                <5>1. \A x \in FreeBlocks :
                         next_free[MallocHead] # MallocHead /\ place[next_free[MallocHead]] <= place[x]
                    BY <4>2 DEF Numbered
                <5>2. \A x \in OnChain : x # MallocHead => place[x] \in Int
                    BY <4>1 DEF OnChain
                <5>3. \A x \in FreeBlocks : place[x] \in Int
                    BY <4>1
                <5> QED BY <5>1, <5>2, <5>3, <2>1, <1>1
            <4> QED BY <4>1, <4>2, <4>3 DEF Looked
        <3> QED BY <3>1, <1>1, <1>2, <1>4, <2>1 DEF Searching, headers, Used
    <2>3. Inserting' /\ Pending' = Pending BY <1>4, <2>1 DEF Inserting, Pending
    <2> QED BY <1>4, <2>1, <2>2, <2>3, QuietStep
<1>5. ASSUME NEW n \in Requests, Malloc(n) PROVE Inv'
    BY <1>4, <1>5, Constants DEF Malloc, Idle
<1>6. ASSUME NEW b \in Used, NEW n \in Requests, Realloc(b, n) PROVE Inv'
    BY <1>4, <1>6, Constants DEF Realloc, Idle
<1>7. ASSUME NEW b \in Used, FreeCall(b) PROVE Inv'
    <2>1. call.pc = "idle" /\ call' \in Calls /\ call'.pc = "free" /\ call'.old = b
        BY <1>1, <1>7 DEF FreeCall, Free, Idle
    <2>2. Searching' /\ Inserting' /\ Pending' = Pending BY <2>1 DEF Searching, Inserting, Pending
    <2> QED BY <1>7, <2>1, <2>2, QuietStep DEF FreeCall
<1>8. ASSUME NEW r \in Regions, MallocAdd(r) PROVE Inv'
    BY <1>8, AddStep
<1>9. CASE TooSmall
    <2>1. call.at \in OnChain /\ call.need \in Nat \ {0, 1} /\ call.old \in Used \union {MallocHead}
        BY <1>9 DEF TooSmall, Inv, Searching
    <2>2. /\ call'.pc = "search" /\ call'.at = next_free[call.at] /\ call'.need = call.need
          /\ call'.old = call.old /\ call' \in Calls /\ call'.at \in OnChain
        BY <1>1, <1>9, <2>1 DEF TooSmall, Inv, Chained
    <2>3. Searching'
        <3>1. Looked'
            <4>1. /\ FreeBlocks' = FreeBlocks /\ next_free' = next_free /\ size' = size
                  /\ FreeBlocks \subseteq Addr /\ call.at \in FreeBlocks
                BY <1>9, <2>1, <2>2 DEF TooSmall, FreeBlocks, OnChain, headers, Inv, TypeOK
            <4>2. PICK place \in [Addr -> Int], front \in Int :
                     /\ Numbered(place, front, next_free, FreeBlocks)
                     /\ \A x \in FreeBlocks :
                          call.at = MallocHead \/ place[x] < place[call.at] => size[x] < call.need
                BY <1>9 DEF TooSmall, Inv, Searching, Looked
            <4>3. /\ \A x, y \in FreeBlocks : place[x] < place[y] =>
                        next_free[x] # MallocHead /\ place[next_free[x]] <= place[y]
                  /\ \A x, y \in FreeBlocks : place[x] = place[y] => x = y
                  /\ \A x \in FreeBlocks : place[x] \in Int
                BY <4>1, <4>2 DEF Numbered
            <4>4. size[call.at] < call.need
                BY <1>9 DEF TooSmall
            <4>5. ASSUME NEW x \in FreeBlocks, call'.at = MallocHead \/ place[x] < place[call'.at]
                  PROVE  size[x] < call.need
                <5>1. call'.at # MallocHead => place[call'.at] \in Int
                    BY <2>2, <4>3 DEF OnChain
                <5>2. ~(place[call.at] < place[x])
                    BY <4>1, <4>3, <4>5, <5>1, <2>2
                <5>3. x = call.at \/ place[x] < place[call.at]
                    BY <4>1, <4>3, <5>2
                <5> QED BY <4>2, <4>4, <5>3
            <4> QED BY <4>1, <4>2, <4>5, <2>2 DEF Looked
        <3> QED BY <3>1, <1>2, <1>9, <2>1, <2>2 DEF TooSmall, Searching, headers, Used
    <2>4. Inserting' /\ Pending' = Pending BY <1>9, <2>2 DEF Inserting, Pending, TooSmall
    <2> QED BY <1>9, <2>2, <2>3, <2>4, QuietStep DEF TooSmall
<1>10. CASE Fit
    BY <1>10, SplitStep, TakeStep DEF Fit
<1>11. CASE NothingFound
    <2>1. call.pc = "search" /\ call.old \in Used \union {MallocHead} /\ call' = Returned
        BY <1>11 DEF NothingFound, Inv, Searching
    <2>2. call'.pc \in {"idle", "free"} /\ (call'.pc = "free" => call'.old \in Used) /\ call' \in Calls
        BY <1>1, <2>1 DEF Returned, Idle, Free
    <2>3. Searching' /\ Inserting' /\ Pending' = Pending
        BY <2>1, <2>2 DEF Searching, Inserting, Pending
    <2> QED BY <1>11, <2>1, <2>2, <2>3, QuietStep DEF NothingFound
<1>12. CASE FreeIt
    BY <1>12, FreeStep DEF FreeIt
<1>13. CASE Further
    <2>1. call.pc = "insert" /\ call.at \in InList /\ call.at # MallocHead
        BY <1>13 DEF Further, Passes, Inv, Inserting
    <2>2. /\ call'.pc = "insert" /\ call'.at = prev[call.at] /\ call'.old = call.old
          /\ call' \in Calls /\ call'.at \in InList
        BY <1>1, <1>13, <2>1 DEF Further, Inv, Linked
    <2>3. Inserting'
        <3> DEFINE b == call.old
        <3>1. b \in Addr /\ b \notin blocks /\ blocks \subseteq Nat /\ b \in Nat /\ ~(call.at < b)
            BY <1>13, <2>1, Constants DEF Further, Passes, Inv, Inserting, TypeOK
        <3>2. call.at \in blocks /\ b < call.at
            <4>1. call.at \in blocks /\ call.at \in Nat BY <3>1, <2>1 DEF InList
            <4> QED BY <4>1, <3>1
        <3>3. ASSUME NEW a \in blocks, prev[call.at] = MallocHead \/ prev[call.at] < a PROVE b < a
            <4>1. next[prev[call.at]] = call.at /\ prev[call.at] \in InList
                BY <2>1 DEF Inv, Linked
            <4>2. call.at <= a
                <5>1. CASE prev[call.at] = MallocHead
                    BY <4>1, <5>1 DEF Inv, Sorted
                <5>2. CASE prev[call.at] # MallocHead
                    BY <3>3, <4>1, <5>2 DEF Inv, Sorted, InList
                <5> QED BY <5>1, <5>2
            <4>3. a \in Nat /\ call.at \in Nat BY <3>1, <3>2
            <4> QED BY <4>2, <4>3, <3>1, <3>2
        <3>4. /\ type' = type /\ size' = size /\ blocks' = blocks /\ Memory' = Memory
              /\ InList' = InList /\ End(b)' = End(b)
            BY <1>13, <2>2 DEF Further, headers, Memory, InList, End
        <3> QED BY <2>1, <2>2, <3>3, <3>4 DEF Inv, Inserting, End
    <2>4. Searching' /\ Pending' = Pending BY <2>1, <2>2 DEF Searching, Pending
    <2> QED BY <1>13, <2>1, <2>2, <2>3, <2>4, QuietStep DEF Further
<1>14. CASE Link
    BY <1>14, LinkStep
<1> QED
    BY <1>3, <1>5, <1>6, <1>7, <1>8, <1>9, <1>10, <1>11, <1>12, <1>13, <1>14 DEF Next, Continue

-----------------------------------------------------------------------------
(* The heap as its callers see it.                                          *)

Taken == {[start |-> b, size |-> size[b]] : b \in Used}
Wanted == IF call.pc = "search" THEN call.need ELSE 0
Loose == {u \in Memory : \A b \in Used : ~(b <= u /\ u < End(b))}

\* What the heap can still give is the memory in no used block.
LEMMA FreeIsLoose == Inv => Promise!Free = Loose
<1> SUFFICES ASSUME Inv PROVE Promise!Free = Loose OBVIOUS
<1>1. Memory \subseteq Nat BY MemoryAddr DEF Inv
<1>2. \A b \in Used : b \in Nat /\ size[b] \in Nat
    BY Constants DEF Inv, TypeOK, Used
<1>3. ASSUME NEW u \in Memory, NEW b \in Used
      PROVE  u \in Promise!Units([start |-> b, size |-> size[b]]) <=> b <= u /\ u < End(b)
    BY <1>1, <1>2 DEF Promise!Units, End
<1> QED BY <1>3 DEF Promise!Free, Loose, Memory

\* Free blocks are loose from end to end, and loose memory is in free blocks.
LEMMA LooseBlocks ==
    ASSUME Inv
    PROVE  /\ \A b \in blocks : type[b] = "free" => b .. End(b) - 1 \subseteq Loose
           /\ Pending = {} => \A u \in Loose : \E b \in blocks :
                                type[b] = "free" /\ b <= u /\ u < End(b)
<1> USE DEF Inv
<1>1. \A b \in blocks : b \in Nat /\ End(b) \in Nat
    BY Constants DEF TypeOK, End
<1>2. ASSUME NEW b \in blocks, type[b] = "free", NEW u \in b .. End(b) - 1
      PROVE  u \in Loose
    <2>1. u \in Memory BY DEF Within
    <2>2. u \in Int /\ b <= u /\ u < End(b) BY <1>1
    <2>3. ASSUME NEW a \in Used, a <= u, u < End(a) PROVE FALSE
        <3>1. a \in blocks /\ a # b BY <1>2 DEF Used
        <3>2. (a < b => End(a) <= b) /\ (b < a => End(b) <= a)
            BY <3>1 DEF Apart
        <3> QED BY <1>1, <2>2, <2>3, <3>1, <3>2
    <2> QED BY <2>1, <2>3 DEF Loose
<1>3. ASSUME Pending = {}, NEW u \in Loose
      PROVE  \E b \in blocks : type[b] = "free" /\ b <= u /\ u < End(b)
    <2>1. PICK b \in blocks : b <= u /\ u < End(b)
        BY <1>3 DEF Covered, Loose
    <2>2. b \notin Used BY <2>1 DEF Loose
    <2> QED BY <2>1, <2>2 DEF Used, Kinds
<1> QED BY <1>2, <1>3

\* A call granted: the block taken grows by one unit at most.
LEMMA GrantRefines ==
    ASSUME Inv, Fit
    PROVE  Promise!Grant
<1> DEFINE b == call.at
           n == call.need
<1> USE Constants DEF Inv
<1>1. b \in blocks /\ type[b] = "free" /\ b \in Addr /\ b \in Nat /\ b \in Node
    BY DEF Fit, Searching, OnChain, FreeBlocks, TypeOK, Node
<1>2. n \in Nat \ {0, 1} /\ size[b] \in Nat /\ size[b] >= n /\ call.pc = "search"
    BY <1>1 DEF Fit, Searching, TypeOK
<1>3. Memory' = Memory /\ Wanted = n /\ Wanted' = 0
    BY <1>2 DEF Fit, Memory, Wanted, Returned, Idle, Free
<1>4. ASSUME Split(b, n)
      PROVE  size'[b] = n /\ Used' = Used \union {b} /\ \A x \in Used : size'[x] = size[x]
    <2> DEFINE rest == b + n
    <2>1. /\ blocks' = blocks \union {rest}
          /\ type' = [type EXCEPT ![rest] = "free", ![b] = "used"]
          /\ size' = [size EXCEPT ![rest] = size[b] - n, ![b] = n]
          /\ size[b] >= n + 2
        BY <1>4 DEF Split, Splits, Remainder
    <2>2. b < rest /\ rest < End(b) /\ rest \in Nat /\ End(b) \in Nat
        BY <1>1, <1>2, <2>1 DEF End
    <2>3. rest \notin blocks
        BY <1>1, <2>2 DEF Apart
    <2>4. rest \in Node
        <3>1. rest \in b .. End(b) - 1 BY <2>2, <1>1
        <3> QED BY <3>1, <1>1, MemoryAddr DEF Within, Node
    <2>5. /\ type'[rest] = "free" /\ type'[b] = "used" /\ size'[b] = n
          /\ \A x \in blocks \ {b} : type'[x] = type[x] /\ size'[x] = size[x]
        BY <1>1, <2>1, <2>2, <2>3, <2>4 DEF TypeOK, Node
    <2> QED BY <1>1, <2>1, <2>3, <2>5 DEF Used
<1>5. ASSUME TakeWhole(b, n)
      PROVE  size' = size /\ size[b] < n + 2 /\ Used' = Used \union {b}
    <2>1. /\ type' = [type EXCEPT ![b] = "used"] /\ UNCHANGED <<size, blocks>>
          /\ ~(size[b] >= n + 2)
        BY <1>5 DEF TakeWhole, Splits
    <2>2. type'[b] = "used" /\ \A x \in blocks \ {b} : type'[x] = type[x]
        BY <1>1, <2>1 DEF TypeOK, Node
    <2> QED BY <1>1, <1>2, <2>1, <2>2 DEF Used
<1>6. /\ \E more \in {0, 1} : size'[b] = n + more /\ n + more <= size[b]
      /\ Used' = Used \union {b} /\ \A x \in Used : size'[x] = size[x]
    <2>1. CASE Split(b, n)
        BY <1>2, <1>4, <2>1
    <2>2. CASE TakeWhole(b, n)
        <3>1. size[b] = n + 0 \/ size[b] = n + 1 BY <1>2, <1>5, <2>2
        <3> QED BY <1>2, <1>5, <2>2, <3>1
    <2> QED BY <2>1, <2>2 DEF Fit
<1>7. PICK more \in {0, 1} : size'[b] = n + more /\ n + more <= size[b]
    BY <1>6
<1> DEFINE s == [start |-> b, size |-> n + more]
<1>8. Taken' = Taken \union {s}
    <2>1. Taken' = {[start |-> x, size |-> size'[x]] : x \in Used \union {b}}
        BY <1>6 DEF Taken
    <2>2. Taken = {[start |-> x, size |-> size'[x]] : x \in Used}
        BY <1>6 DEF Taken
    <2> QED BY <2>1, <2>2, <1>7
<1>9. Promise!Units(s) \subseteq Loose /\ b \in Loose
    <2>1. b .. End(b) - 1 \subseteq Loose BY <1>1, LooseBlocks
    <2>2. Promise!Units(s) = b .. b + (n + more) - 1 BY DEF Promise!Units
    <2> QED BY <2>1, <2>2, <1>1, <1>2, <1>7 DEF End
<1> QED
    BY <1>2, <1>3, <1>8, <1>9, FreeIsLoose DEF Promise!Grant, Taken, Wanted, Memory

\* A call refused: a loose stretch crosses no boundary of free blocks, for
\* they have been joined, and each of them was looked at.
LEMMA RefuseRefines ==
    ASSUME Inv, NothingFound
    PROVE  Promise!Refuse
<1> DEFINE n == call.need
<1> USE Constants DEF Inv
<1>1. n \in Nat \ {0, 1} /\ call.pc = "search" /\ Pending = {} /\ UNCHANGED <<headers, added>>
    BY DEF NothingFound, Searching, Pending
<1>2. Taken' = Taken /\ Memory' = Memory /\ Wanted = n /\ Wanted' = 0
    BY <1>1 DEF NothingFound, Taken, Used, headers, Memory, Wanted, Returned, Idle, Free
<1>3. \A b \in FreeBlocks : size[b] < n
    BY DEF NothingFound, Searching, Looked
<1>4. \A u \in Loose : \E b \in FreeBlocks : b <= u /\ u < End(b)
    BY <1>1, LooseBlocks DEF FreeBlocks
<1>5. ASSUME NEW u \in Loose, \A k \in 0 .. n - 1 : u + k \in Loose PROVE FALSE
    <2>1. PICK b \in FreeBlocks : b <= u /\ u < End(b)
        BY <1>4
    <2>2. b \in blocks /\ b \in Nat /\ size[b] \in Nat /\ End(b) = b + size[b] /\ size[b] < n
        BY <1>3 DEF FreeBlocks, TypeOK, End
    <2>3. u \in Nat BY MemoryAddr DEF Loose
    <2>4. End(b) - u \in 0 .. n - 1 /\ u + (End(b) - u) = End(b)
        BY <2>1, <2>2, <2>3, <1>1
    <2>5. End(b) \in Loose
        BY <1>5, <2>4
    <2>6. PICK c \in FreeBlocks : c <= End(b) /\ End(b) < End(c)
        BY <1>4, <2>5
    <2>7. c \in blocks /\ c \in Nat /\ End(c) \in Nat
        BY DEF FreeBlocks, TypeOK, End
    <2>8. c # End(b) BY DEF Joined
    <2>9. c # b BY <2>2, <2>6
    <2>10. (b < c => End(b) <= c) /\ (c < b => End(c) <= b)
        BY <2>2, <2>7 DEF Apart
    <2> QED BY <2>2, <2>6, <2>7, <2>8, <2>9, <2>10
<1>6. ~Promise!Fits(n)
    BY <1>5, FreeIsLoose DEF Promise!Fits
<1> QED
    BY <1>1, <1>2, <1>6 DEF Promise!Refuse, Taken, Wanted, Memory

\* A block freed: the one its caller held goes, a new region was nobody's.
LEMMA FreeRefines ==
    ASSUME Inv, FreeIt
    PROVE  UNCHANGED <<Memory, Taken, Wanted>>
           \/ \E s \in Taken : Promise!Release(s)
<1> DEFINE b == call.old
           s == [start |-> b, size |-> size[b]]
           JB == Touches(prev[b], b)
           JA == TouchesNext(b, next[b])
           whole == IF JB THEN prev[b] ELSE b
           gone == (IF JB THEN {b} ELSE {}) \union (IF JA THEN {next[b]} ELSE {})
<1> USE Constants DEF Inv, FreeIt
<1>1. b \in blocks /\ b \in Node /\ blocks \subseteq Node
    BY DEF Freeing, TypeOK, Node
<1>2. /\ type' = IF JB THEN type ELSE [type EXCEPT ![b] = "free"]
      /\ \E k : size' = [size EXCEPT ![whole] = k]
      /\ blocks' = blocks \ gone
    BY DEF FreeBlock
<1>3. \A x \in Used \ {b} : x \in Used' /\ size'[x] = size[x] /\ type'[x] = "used"
    <2> SUFFICES ASSUME NEW x \in Used, x # b
                 PROVE x \in Used' /\ size'[x] = size[x]
        BY DEF Used
    <2>1. type[x] = "used" /\ x \in blocks BY DEF Used
    <2>2. x \notin gone /\ x # whole
        BY <2>1 DEF Touches, TouchesNext
    <2>3. size'[x] = size[x] BY <2>1, <2>2, <1>1, <1>2 DEF TypeOK
    <2>4. type'[x] = type[x] BY <2>1, <1>1, <1>2 DEF TypeOK
    <2> QED BY <2>1, <2>2, <2>3, <2>4, <1>2 DEF Used
<1>4. Used' = Used \ {b}
    <2>1. b \notin Used' BY <1>1, <1>2 DEF Used, TypeOK
    <2>2. \A x \in Used' : x \in Used \/ x = b
        BY <1>1, <1>2 DEF Used, TypeOK
    <2> QED BY <1>3, <2>1, <2>2
<1>5. Taken' = {[start |-> x, size |-> size[x]] : x \in Used \ {b}}
    BY <1>3, <1>4 DEF Taken
<1>6. Memory' = Memory /\ Wanted = 0 /\ Wanted' = 0
    BY DEF Memory, Wanted, Idle
<1>7. CASE b \in Used
    <2>1. s \in Taken BY <1>7 DEF Taken
    <2>2. Taken' = Taken \ {s} BY <1>5 DEF Taken
    <2> QED BY <2>1, <2>2, <1>6 DEF Promise!Release, Taken, Wanted, Memory
<1>8. CASE b \notin Used
    <2>1. Used \ {b} = Used BY <1>8
    <2> QED BY <2>1, <1>5, <1>6 DEF Taken
<1> QED BY <1>7, <1>8

\* A region added.
LEMMA GrowRefines ==
    ASSUME Inv, NEW r \in Regions, MallocAdd(r)
    PROVE  Promise!Grow([start |-> r.start, size |-> Rounded(r.size)])
<1> USE Constants DEF Inv, MallocAdd
<1>1. Promise!Units([start |-> r.start, size |-> Rounded(r.size)]) = Extent(r)
    BY DEF Promise!Units, Extent
<1>2. Extent(r) \intersect Memory = {}
    BY ArenaAssumption DEF ArenaAssumption, Memory, TypeOK
<1>3. Memory' = Memory \union Extent(r)
    BY DEF Memory
<1>4. r.start \notin blocks
    <2>1. r.start \in Extent(r)
        BY ArenaAssumption DEF ArenaAssumption, Extent
    <2>2. \A b \in blocks : b \in b .. End(b) - 1
        BY DEF TypeOK, End
    <2> QED BY <2>1, <2>2, <1>2 DEF Within
<1>5. \A x \in blocks : type'[x] = type[x] /\ size'[x] = size[x]
    BY <1>4 DEF TypeOK, Node
<1>6. Used' = Used
    BY <1>5 DEF Used
<1>7. Taken' = Taken
    BY <1>5, <1>6 DEF Taken, Used
<1>8. Wanted = 0 /\ Wanted' = 0
    BY DEF Wanted, Idle, Insert
<1> QED
    BY <1>1, <1>2, <1>3, <1>7, <1>8 DEF Promise!Grow, Taken, Wanted, Memory

\* Every step is one of the heap's, or none.
LEMMA NextRefines == Inv /\ [Next]_vars => [Promise!Next]_(Promise!vars)
<1> SUFFICES ASSUME Inv, [Next]_vars
             PROVE  Promise!Next \/ UNCHANGED <<Memory, Taken, Wanted>>
    BY DEF Promise!vars, Memory, Taken, Wanted
<1> DEFINE Asked == {Need(n) : n \in Requests} \union {Need(Unit * Need(n)) : n \in Requests}
<1>1. ASSUME UNCHANGED <<headers, added>> PROVE UNCHANGED <<Memory, Taken>>
    BY <1>1 DEF headers, Memory, Taken, Used
<1>2. ASSUME NEW n \in Asked, NEW old, call = Idle, call' = Search(n, old), UNCHANGED <<headers, added>>
      PROVE  Promise!Next
    <2>1. Wanted = 0 /\ Wanted' = n
        BY <1>2 DEF Wanted, Idle, Search
    <2>2. Promise!Ask(n)
        BY <1>1, <1>2, <2>1 DEF Promise!Ask, Memory, Taken, Wanted
    <2> QED BY <2>2 DEF Promise!Next
<1>3. ASSUME NEW n \in Requests, Malloc(n) PROVE Promise!Next
    BY <1>2, <1>3 DEF Malloc
<1>4. ASSUME NEW b \in Used, NEW n \in Requests, Realloc(b, n) PROVE Promise!Next
    BY <1>2, <1>4 DEF Realloc
<1>5. ASSUME NEW b \in Used, FreeCall(b) PROVE UNCHANGED <<Memory, Taken, Wanted>>
    BY <1>1, <1>5 DEF FreeCall, Wanted, Idle, Free
<1>6. ASSUME NEW r \in Regions, MallocAdd(r) PROVE Promise!Next
    BY <1>6, GrowRefines DEF Promise!Next
<1>7. CASE TooSmall
    <2>1. call'.pc = call.pc /\ call'.need = call.need
        BY <1>7 DEF TooSmall, Inv, TypeOK
    <2> QED BY <1>1, <1>7, <2>1 DEF TooSmall, Wanted
<1>8. CASE Fit
    BY <1>8, GrantRefines DEF Promise!Next
<1>9. CASE NothingFound
    BY <1>9, RefuseRefines DEF Promise!Next
<1>10. CASE FreeIt
    <2>1. CASE UNCHANGED <<Memory, Taken, Wanted>> BY <2>1
    <2>2. ASSUME NEW s \in Taken, Promise!Release(s) PROVE Promise!Next
        BY <2>2 DEF Promise!Next, Taken
    <2> QED BY <1>10, <2>1, <2>2, FreeRefines
<1>11. CASE Further
    <2>1. call.pc = "insert" /\ call'.pc = "insert"
        BY <1>11 DEF Further, Inv, TypeOK
    <2> QED BY <1>1, <1>11, <2>1 DEF Further, Wanted
<1>12. CASE Link
    <2>1. call.pc = "insert" /\ call'.pc = "free"
        BY <1>12 DEF Link, Free
    <2>2. Used' = Used
        BY <1>12, <2>1 DEF Link, Used, Inv, Inserting
    <2> QED BY <1>12, <2>1, <2>2 DEF Link, Wanted, Taken, Memory
<1>13. CASE UNCHANGED vars
    BY <1>1, <1>13 DEF vars, Wanted
<1> QED
    BY <1>3, <1>4, <1>5, <1>6, <1>7, <1>8, <1>9, <1>10, <1>11, <1>12, <1>13 DEF Next, Continue

-----------------------------------------------------------------------------
\* Types: the links always lead to headers, and every block has room for the
\* links of the free chain.
THEOREM TypeCorrect == Spec => []TypeOK
<1>1. Inv => TypeOK BY DEF Inv
<1> QED BY <1>1, InitInv, NextInv, PTL DEF Spec

\* malloc, realloc, free and malloc_add never let two blocks overlap, nor a
\* block leave the memory that was added.
THEOREM Disjointness == Spec => []BlocksDisjoint
<1>1. Inv => BlocksDisjoint BY DEF Inv, BlocksDisjoint, Apart, Within, Memory
<1> QED BY <1>1, InitInv, NextInv, PTL DEF Spec

\* The allocator keeps the promise of Heap: a block that malloc or realloc
\* returns is of memory that was added and nobody holds, at most one unit
\* longer than asked for; and null is returned only when no stretch of free
\* memory, whatever was split and joined before, is long enough.
THEOREM ArenaIsHeap == Spec => ImplementsHeap
<1>1. Init => Promise!Init
    <2> SUFFICES ASSUME Init PROVE Memory = {} /\ Taken = {} /\ Wanted = 0
        BY DEF Promise!Init, Memory, Taken, Wanted
    <2> QED BY DEF Init, Idle, Memory, Taken, Used, Wanted
<1>2. Inv /\ [Next]_vars => [Promise!Next]_(Promise!vars)
    BY NextRefines
<1> QED BY <1>1, <1>2, InitInv, NextInv, PTL DEF Spec, ImplementsHeap, Promise!Spec

-----------------------------------------------------------------------------
(***************************************************************************)
(* The console, for any keys, messages, size of the screen and order of    *)
(* interrupts: no press is missed between two tests of a key, the key      *)
(* table settles to the keys that are held, what is typed is echoed once,  *)
(* in order and in its case, and the screen shows what was written.        *)
(***************************************************************************)

Bit == [down : BOOLEAN, since : BOOLEAN]
KeysOK == kb \in [keyup : BOOLEAN, extkey : BOOLEAN, shift : BOOLEAN, caps : BOOLEAN, table : [Entries -> Bit]]

Plain == Codes \union {KeyUp}
Wire == Plain \union {Ext}
CodesOK ==
    /\ ring \in Seq(Wire) /\ sending \in Seq(Wire) /\ prefixed \in BOOLEAN
    /\ held \subseteq Keys /\ unseen \subseteq Codes

\* As long as no key with a prefix was used there is no prefix on its way, and
\* the decoder remembers none.
NoPrefix ==
    ~prefixed =>
        /\ ring \in Seq(Plain) /\ sending \in Seq(Plain) /\ ~kb.extkey
        /\ \A k \in held : k[1] = FALSE

\* Between the read and the clear of a test no handler runs, so that what was
\* read is still there.
TestUndisturbed ==
    main.pc = "test" =>
        handlers = <<>> /\ main.code \in Codes /\ main.result = kb.table[keyidx(FALSE, main.code)]

Recorded == ~prefixed => \A code \in unseen : kb.table[keyidx(FALSE, code)].since

KeyInv == KeysOK /\ CodesOK /\ NoPrefix /\ TestUndisturbed /\ Recorded

-----------------------------------------------------------------------------
LEMMA EntryOf ==
    ASSUME NEW ext \in BOOLEAN, NEW c \in Codes, keyidx(ext, c) \in 0 .. 255
    PROVE  keyidx(ext, c) \in Entries
  BY DEF Entries

LEMMA Entry == ASSUME NEW code \in Codes PROVE keyidx(FALSE, code) \in Entries
<1>1. keyidx(FALSE, code) = Number[code] /\ Number[code] \in 0 .. 255
  BY KeyboardAssumption DEF keyidx
<1>2. PICK ext \in BOOLEAN : ~ext
  OBVIOUS
<1>3. keyidx(ext, code) = Number[code]
  BY <1>2 DEF keyidx
<1>4. keyidx(ext, code) \in Entries
  BY <1>1, <1>3, EntryOf
<1> QED
  BY <1>1, <1>3, <1>4

LEMMA Distincts ==
    ASSUME NEW c \in Codes, NEW d \in Codes, keyidx(FALSE, c) = keyidx(FALSE, d)
    PROVE  c = d
  BY KeyboardAssumption DEF keyidx

LEMMA NoPrefixInCodes ==
    Ext \notin Plain /\ Ack \in Plain /\ KeyUp \in Plain /\ Codes \subseteq Plain /\ Plain \subseteq Wire
  BY KeyboardAssumption DEF Plain, Wire, Ext, KeyUp, Ack

LEMMA KeysInitially == ConsoleInit => KeyInv
<1> SUFFICES ASSUME ConsoleInit PROVE KeyInv
  OBVIOUS
<1>1. KeysOK /\ kb.extkey = FALSE
  BY DEF ConsoleInit, KeysInit, KeysOK, Untouched, Bit
<1>2. CodesOK /\ NoPrefix
  <2>1. <<>> \in Seq(Wire) /\ <<>> \in Seq(Plain)
    OBVIOUS
  <2>2. ring = <<>> /\ sending = <<>> /\ held = {} /\ unseen = {} /\ prefixed = FALSE
    BY DEF ConsoleInit
  <2> QED
    BY <1>1, <2>1, <2>2 DEF CodesOK, NoPrefix
<1>3. main.pc = "write" /\ unseen = {}
  BY DEF ConsoleInit
<1> QED
  BY <1>1, <1>2, <1>3 DEF KeyInv, TestUndisturbed, Recorded

\* Steps of the keyboard, of the screen, and of handlers between codes.
LEMMA Elsewhere ==
    ASSUME KeyInv, UNCHANGED <<kb, unseen>>, CodesOK', NoPrefix', TestUndisturbed', prefixed => prefixed'
    PROVE  KeyInv'
  BY DEF KeyInv, KeysOK, Recorded

LEMMA Decoding ==
    ASSUME KeysOK, NEW code \in Wire
    PROVE  /\ Decoded(kb, code) \in [keyup : BOOLEAN, extkey : BOOLEAN, shift : BOOLEAN, caps : BOOLEAN,
                                     table : [Entries -> Bit]]
           /\ code # Ext /\ ~kb.extkey => ~Decoded(kb, code).extkey
           /\ \A i \in Entries : kb.table[i].since => Decoded(kb, code).table[i].since
           /\ code \in Codes /\ ~kb.keyup /\ ~kb.extkey => Decoded(kb, code).table[keyidx(FALSE, code)].since
<1> DEFINE marked == Marked(kb, code)
<1>1. /\ marked \in [Entries -> Bit]
      /\ \A i \in Entries : kb.table[i].since => marked[i].since
      /\ \A i \in Entries : i = keyidx(kb.extkey, code) /\ ~kb.keyup => marked[i].since
  <2>1. \A i \in Entries :
          kb.table[i] \in Bit /\ AfterRelease(kb.table[i]) \in Bit /\ AfterRelease(kb.table[i]).since = kb.table[i].since
    BY DEF KeysOK, Bit, AfterRelease
  <2>2. [down |-> TRUE, since |-> TRUE] \in Bit /\ [down |-> TRUE, since |-> TRUE].since
    BY DEF Bit
  <2> QED
    BY <2>1, <2>2 DEF Marked
<1>2. kb.keyup \in BOOLEAN /\ kb.extkey \in BOOLEAN /\ kb.shift \in BOOLEAN /\ kb.caps \in BOOLEAN
  BY DEF KeysOK
<1>3. CASE code \in {Ext, KeyUp}
  <2>1. Decoded(kb, code) = Prefix(kb, code)
    BY <1>3 DEF Decoded
  <2>2. code \notin Codes
    BY <1>3, KeyboardAssumption
  <2> QED
    BY <1>3, <2>1, <2>2 DEF Prefix, KeysOK, Ext, KeyUp
<1>4. CASE code \notin {Ext, KeyUp} /\ kb.keyup
  <2>1. Decoded(kb, code) = Released(kb, code)
    BY <1>4 DEF Decoded
  <2> HIDE DEF marked
  <2> QED
    BY <1>1, <1>2, <1>4, <2>1 DEF Released, KeysOK, marked
<1>5. CASE code \notin {Ext, KeyUp} /\ ~kb.keyup
  <2>1. Decoded(kb, code) = Pressed(kb, code)
    BY <1>5 DEF Decoded
  <2>2. /\ Pressed(kb, code) \in [keyup : BOOLEAN, extkey : BOOLEAN, shift : BOOLEAN, caps : BOOLEAN,
                                  table : [Entries -> Bit]]
        /\ Pressed(kb, code).table = marked /\ (~kb.extkey => ~Pressed(kb, code).extkey)
    <3> HIDE DEF marked
    <3> QED
      BY <1>1, <1>2 DEF Pressed, KeysOK, marked
  <2>3. ~kb.extkey => keyidx(FALSE, code) = keyidx(kb.extkey, code)
    BY <1>2 DEF keyidx
  <2>4. code \in Codes => keyidx(FALSE, code) \in Entries
    BY Entry
  <2> HIDE DEF marked
  <2> QED
    BY <1>1, <1>5, <2>1, <2>2, <2>3, <2>4
<1> QED
  BY <1>3, <1>4, <1>5

LEMMA CodeStep == ASSUME KeyInv, Code PROVE KeyInv'
<1>1. PICK code : code = Head(ring)
  OBVIOUS
<1>2. /\ ring # <<>> /\ ring' = Tail(ring) /\ kb' = Decoded(kb, code)
      /\ unseen' = IF code \in Codes /\ ~kb.keyup THEN unseen \union {code} ELSE unseen
      /\ UNCHANGED <<keyboardVars, main>> /\ handlers # <<>>
  BY <1>1 DEF Code, Doing, Runs
<1>3. code \in Wire /\ ring' \in Seq(Wire) /\ (~prefixed => code \in Plain /\ ring' \in Seq(Plain))
  BY <1>1, <1>2 DEF KeyInv, CodesOK, NoPrefix
<1>4. main.pc # "test"
  BY <1>2 DEF KeyInv, TestUndisturbed
<1>5. /\ KeysOK' /\ (code # Ext /\ ~kb.extkey => ~kb'.extkey)
      /\ \A i \in Entries : kb.table[i].since => kb'.table[i].since
      /\ code \in Codes /\ ~kb.keyup /\ ~kb.extkey => kb'.table[keyidx(FALSE, code)].since
  BY <1>2, <1>3, Decoding DEF KeyInv, KeysOK
<1>6. CodesOK'
  BY <1>2, <1>3 DEF KeyInv, CodesOK, keyboardVars
<1>7. NoPrefix'
  BY <1>2, <1>3, <1>5, NoPrefixInCodes DEF KeyInv, NoPrefix, keyboardVars
<1>8. TestUndisturbed'
  BY <1>2, <1>4 DEF TestUndisturbed
<1>9. Recorded'
  <2> SUFFICES ASSUME ~prefixed, NEW c \in unseen' PROVE kb'.table[keyidx(FALSE, c)].since
    BY <1>2 DEF Recorded, keyboardVars
  <2>1. CASE c \in unseen
    <3>1. c \in Codes /\ kb.table[keyidx(FALSE, c)].since
      BY <2>1 DEF KeyInv, CodesOK, Recorded
    <3> QED
      BY <1>5, <3>1, Entry
  <2>2. CASE c \notin unseen
    BY <1>2, <1>5, <2>2 DEF KeyInv, NoPrefix
  <2> QED
    BY <2>1, <2>2
<1> QED
  BY <1>5, <1>6, <1>7, <1>8, <1>9 DEF KeyInv

LEMMA TestedStep == ASSUME KeyInv, Tested PROVE KeyInv'
<1>1. PICK i, code : code = main.code /\ i = keyidx(FALSE, code)
  OBVIOUS
<1>2. /\ main.pc = "test" /\ kb' = [kb EXCEPT !.table[i].since = FALSE]
      /\ unseen' = IF main.result.down \/ main.result.since THEN unseen \ {code} ELSE unseen
      /\ main' = Loop /\ UNCHANGED <<keyboardVars, ring>>
  BY <1>1 DEF Tested
<1>3. code \in Codes /\ i \in Entries /\ main.result = kb.table[i]
  BY <1>1, <1>2, Entry DEF KeyInv, TestUndisturbed
<1>4. KeysOK' /\ kb'.extkey = kb.extkey /\ \A j \in Entries \ {i} : kb'.table[j] = kb.table[j]
  BY <1>2, <1>3 DEF KeyInv, KeysOK, Bit
<1>5. CodesOK' /\ NoPrefix'
  BY <1>2, <1>4 DEF KeyInv, CodesOK, NoPrefix, keyboardVars
<1>6. TestUndisturbed'
  BY <1>2 DEF TestUndisturbed, Loop
<1>7. Recorded'
  <2> SUFFICES ASSUME ~prefixed, NEW c \in unseen' PROVE kb'.table[keyidx(FALSE, c)].since
    BY <1>2 DEF Recorded, keyboardVars
  <2>1. c \in unseen /\ c \in Codes /\ kb.table[keyidx(FALSE, c)].since
    BY <1>2 DEF KeyInv, CodesOK, Recorded
  <2>2. c # code
    BY <1>1, <1>2, <1>3, <2>1
  <2>3. keyidx(FALSE, c) \in Entries \ {i}
    BY <1>1, <1>3, <2>1, <2>2, Entry, Distincts
  <2> QED
    BY <1>4, <2>1, <2>3
<1> QED
  BY <1>4, <1>5, <1>6, <1>7 DEF KeyInv

-----------------------------------------------------------------------------
LEMMA PressStep == ASSUME KeyInv, NEW k \in Keys, Press(k) PROVE KeyInv'
<1>1. /\ held' = held \union {k} /\ sending' = Make(k) /\ prefixed' = (prefixed \/ k[1])
      /\ UNCHANGED <<ring, kb, handlers, main, unseen>>
  BY DEF Press
<1>2. k[1] \in BOOLEAN /\ k[2] \in Codes
  BY ConsoleAssumption
<1>3. Make(k) \in Seq(Wire) /\ (k[1] = FALSE => Make(k) \in Seq(Plain))
  <2>1. k[2] \in Plain /\ k[2] \in Wire /\ Ext \in Wire
    BY <1>2 DEF Plain, Wire
  <2>2. CASE k[1] = TRUE
    BY <2>1, <2>2 DEF Make
  <2>3. CASE k[1] = FALSE
    BY <2>1, <2>3 DEF Make
  <2> QED
    BY <1>2, <2>2, <2>3
<1>4. CodesOK' /\ NoPrefix'
  BY <1>1, <1>2, <1>3 DEF KeyInv, CodesOK, NoPrefix
<1>5. TestUndisturbed'
  BY <1>1 DEF KeyInv, TestUndisturbed
<1> QED
  BY <1>1, <1>4, <1>5, Elsewhere

LEMMA ReleaseStep == ASSUME KeyInv, NEW k \in Keys, Release(k) PROVE KeyInv'
<1>1. /\ k \in held /\ held' = held \ {k} /\ sending' = Break(k)
      /\ UNCHANGED <<prefixed, ring, kb, handlers, main, unseen>>
  BY DEF Release
<1>2. k[1] \in BOOLEAN /\ k[2] \in Codes
  BY ConsoleAssumption
<1>3. Break(k) \in Seq(Wire) /\ (k[1] = FALSE => Break(k) \in Seq(Plain))
  <2>1. k[2] \in Plain /\ k[2] \in Wire /\ Ext \in Wire /\ KeyUp \in Plain /\ KeyUp \in Wire
    BY <1>2 DEF Plain, Wire
  <2>2. CASE k[1] = TRUE
    BY <2>1, <2>2 DEF Break
  <2>3. CASE k[1] = FALSE
    BY <2>1, <2>3 DEF Break
  <2> QED
    BY <1>2, <2>2, <2>3
<1>4. CodesOK' /\ NoPrefix'
  BY <1>1, <1>3 DEF KeyInv, CodesOK, NoPrefix
<1>5. TestUndisturbed'
  BY <1>1 DEF KeyInv, TestUndisturbed
<1> QED
  BY <1>1, <1>4, <1>5, Elsewhere

LEMMA SendStep == ASSUME KeyInv, Send PROVE KeyInv'
<1>1. /\ sending # <<>> /\ ring' = Append(ring, Head(sending)) /\ sending' = Tail(sending)
      /\ UNCHANGED <<held, prefixed, kb, handlers, main, unseen>>
  BY DEF Send
<1>2. CodesOK' /\ NoPrefix'
  BY <1>1 DEF KeyInv, CodesOK, NoPrefix
<1>3. TestUndisturbed'
  BY <1>1 DEF KeyInv, TestUndisturbed
<1> QED
  BY <1>1, <1>2, <1>3, Elsewhere

\* A handler does not begin during a test, and lights are sent outside of one.
LEMMA HandlerStep == ASSUME KeyInv, VBlank \/ HandlerEnds \/ LightsSent PROVE KeyInv'
<1>1. UNCHANGED <<held, prefixed, ring, kb, main, unseen>> /\ (sending' = sending \/ sending' = Append(sending, Ack))
  BY DEF VBlank, HandlerEnds, LightsSent, keyboardVars
<1>2. main.pc # "test"
  BY DEF VBlank, HandlerEnds, LightsSent, Doing, Runs, Disabled, KeyInv, TestUndisturbed
<1>3. CodesOK' /\ NoPrefix'
  BY <1>1, NoPrefixInCodes DEF KeyInv, CodesOK, NoPrefix, Wire
<1>4. TestUndisturbed'
  BY <1>1, <1>2 DEF TestUndisturbed
<1> QED
  BY <1>1, <1>3, <1>4, Elsewhere

LEMMA MainStep ==
    ASSUME KeyInv, WriteOne \/ Written \/ (\E code \in TestKeys : Test(code)) PROVE KeyInv'
<1>1. UNCHANGED <<held, sending, prefixed, ring, kb, unseen, handlers>>
  BY DEF WriteOne, Written, Test, keyboardVars
<1>2. CodesOK' /\ NoPrefix'
  BY <1>1 DEF KeyInv, CodesOK, NoPrefix
<1>3. CASE WriteOne
  <2>1. main'.pc # "test"
    <3>1. main.pc = "write" /\ main' = [main EXCEPT !.msg = Tail(@), !.p = Put(text, main.p, Head(main.msg)).p]
      BY <1>3 DEF WriteOne
    <3> QED
      BY <3>1
  <2> QED
    BY <1>1, <1>2, <2>1, Elsewhere DEF TestUndisturbed
<1>4. CASE Written
  <2>1. main'.pc # "test"
    BY <1>4 DEF Written, Loop
  <2> QED
    BY <1>1, <1>2, <2>1, Elsewhere DEF TestUndisturbed
<1>5. ASSUME NEW code \in TestKeys, Test(code) PROVE KeyInv'
  <2>1. /\ handlers = <<>> /\ main' = [pc |-> "test", code |-> code, result |-> kb.table[keyidx(FALSE, code)]]
        /\ code \in Codes
    BY <1>5, ConsoleAssumption DEF Test, Runs
  <2>2. TestUndisturbed'
    BY <1>1, <2>1 DEF TestUndisturbed
  <2> QED
    BY <1>1, <1>2, <2>2, Elsewhere
<1> QED
  BY <1>3, <1>4, <1>5

-----------------------------------------------------------------------------
\* No press between two tests of a key is lost, for any keys, messages and order of interrupts.
THEOREM NoPressMissed == ConsoleSpec => []PressNoticed
<1>1. ConsoleInit => KeyInv
  BY KeysInitially
<1>2. KeyInv /\ [ConsoleNext]_consoleVars => KeyInv'
  <2> SUFFICES ASSUME KeyInv, [ConsoleNext]_consoleVars PROVE KeyInv'
    OBVIOUS
  <2>1. CASE UNCHANGED consoleVars
    <3>1. UNCHANGED <<held, sending, prefixed, ring, kb, unseen, handlers, main>>
      BY <2>1 DEF consoleVars, keyboardVars
    <3>2. CodesOK' /\ NoPrefix' /\ TestUndisturbed'
      BY <3>1 DEF KeyInv, CodesOK, NoPrefix, TestUndisturbed
    <3> QED
      BY <3>1, <3>2, Elsewhere
  <2> QED
    BY <2>1, PressStep, ReleaseStep, SendStep, CodeStep, HandlerStep, MainStep, TestedStep DEF ConsoleNext, Works
<1>3. KeyInv => PressNoticed
  BY DEF KeyInv, TestUndisturbed, Recorded, PressNoticed
<1> QED
  BY <1>1, <1>2, <1>3, PTL DEF ConsoleSpec

-----------------------------------------------------------------------------
(* The table and the keys that are held.                                   *)

\* The codes on their way are decoded in the end: of those of one key the last
\* counts, and it is a release if the code before it says so.
LastOf(s, i, c) == s[i] = c /\ \A j \in i + 1 .. Len(s) : s[j] # c
UpAt(s, up, i) == IF i = 1 THEN up ELSE s[i - 1] = KeyUp
Settles(s, up, c, down, isHeld) ==
    /\ (\A i \in 1 .. Len(s) : s[i] # c) => (down <=> isHeld)
    /\ \A i \in 1 .. Len(s) : LastOf(s, i, c) => (isHeld <=> ~UpAt(s, up, i))

\* No release is cut short.
Whole(s, up) == IF s = <<>> THEN ~up ELSE s[Len(s)] # KeyUp

Flight == ring \o sending
IsHeld(c) == \E k \in held : k[2] = c
DownInv ==
    ~prefixed =>
        /\ Whole(Flight, kb.keyup)
        /\ \A c \in Codes \ {Ack} :
              Settles(Flight, kb.keyup, c, kb.table[keyidx(FALSE, c)].down, IsHeld(c))
        /\ \A i \in Entries : (\A c \in Codes : keyidx(FALSE, c) # i) => ~kb.table[i].down

LEMMA SettlesAppended ==
    ASSUME NEW s \in Seq(Wire), NEW x \in Wire, NEW up, NEW c, NEW down, NEW isHeld,
           x # c, Settles(s, up, c, down, isHeld)
    PROVE  Settles(Append(s, x), up, c, down, isHeld)
<1>1. /\ Len(Append(s, x)) = Len(s) + 1 /\ Len(s) \in Nat
      /\ \A i \in 1 .. Len(s) : Append(s, x)[i] = s[i]
      /\ Append(s, x)[Len(s) + 1] = x
  OBVIOUS
<1>2. PICK t : t = Append(s, x)
  OBVIOUS
<1>3. ASSUME NEW i \in 1 .. Len(t), LastOf(t, i, c)
      PROVE  i \in 1 .. Len(s) /\ LastOf(s, i, c) /\ (UpAt(t, up, i) <=> UpAt(s, up, i))
  <2>1. i \in 1 .. Len(s) BY <1>1, <1>2, <1>3 DEF LastOf
  <2> QED BY <1>1, <1>2, <1>3, <2>1 DEF LastOf, UpAt
<1>4. (\A i \in 1 .. Len(t) : t[i] # c) => (\A i \in 1 .. Len(s) : s[i] # c)
  BY <1>1, <1>2
<1>5. Settles(t, up, c, down, isHeld)
  BY <1>3, <1>4 DEF Settles
<1> QED
  BY <1>2, <1>5

\* The code of a key, after all others.
LEMMA SettlesOwn ==
    ASSUME NEW s \in Seq(Wire), NEW x \in Wire, NEW up \in BOOLEAN, NEW down, NEW isHeld \in BOOLEAN,
           isHeld <=> Whole(s, up)
    PROVE  Settles(Append(s, x), up, x, down, isHeld)
<1>1. /\ Len(Append(s, x)) = Len(s) + 1 /\ Len(s) \in Nat
      /\ \A i \in 1 .. Len(s) : Append(s, x)[i] = s[i]
      /\ Append(s, x)[Len(s) + 1] = x
  OBVIOUS
<1>2. PICK t : t = Append(s, x)
  OBVIOUS
<1>3. ASSUME NEW i \in 1 .. Len(t), LastOf(t, i, x)
      PROVE  i = Len(s) + 1
  BY <1>1, <1>2, <1>3 DEF LastOf
<1>4. UpAt(t, up, Len(s) + 1) <=> ~Whole(s, up)
  <2>1. CASE s = <<>>
    BY <2>1 DEF UpAt, Whole
  <2>2. CASE s # <<>>
    <3>1. Len(s) + 1 # 1 /\ Len(s) + 1 - 1 = Len(s) /\ Len(s) \in 1 .. Len(s)
      BY <1>1, <2>2
    <3> QED
      BY <1>1, <1>2, <2>2, <3>1 DEF UpAt, Whole
  <2> QED
    BY <2>1, <2>2
<1>5. ~(\A i \in 1 .. Len(t) : t[i] # x)
  BY <1>1, <1>2
<1>6. Settles(t, up, x, down, isHeld)
  BY <1>3, <1>4, <1>5 DEF Settles
<1> QED
  BY <1>2, <1>6

\* The first code is decoded.
LEMMA SettlesDecoded ==
    ASSUME NEW s \in Seq(Wire), s # <<>>, NEW up \in BOOLEAN, NEW c, NEW down, NEW isHeld,
           NEW newUp \in BOOLEAN, NEW newDown,
           Settles(s, up, c, down, isHeld),
           newUp <=> s[1] = KeyUp,
           newDown <=> IF s[1] = c THEN ~up ELSE down
    PROVE  Settles(Tail(s), newUp, c, newDown, isHeld)
<1>1. /\ Len(Tail(s)) = Len(s) - 1 /\ Len(s) \in Nat /\ Len(s) >= 1
      /\ \A i \in 1 .. Len(s) - 1 : Tail(s)[i] = s[i + 1]
  OBVIOUS
<1>2. PICK t : t = Tail(s)
  OBVIOUS
<1>3. ASSUME NEW i \in 1 .. Len(t), LastOf(t, i, c)
      PROVE  i + 1 \in 1 .. Len(s) /\ LastOf(s, i + 1, c) /\ (UpAt(t, newUp, i) <=> UpAt(s, up, i + 1))
  <2>1. i \in Nat /\ i >= 1 /\ i + 1 \in 1 .. Len(s) /\ i + 1 # 1 /\ i + 1 - 1 = i /\ s[i + 1] = c
    BY <1>1, <1>2, <1>3 DEF LastOf
  <2>2. ASSUME NEW j \in i + 1 + 1 .. Len(s) PROVE s[j] # c
    <3>1. j - 1 \in i + 1 .. Len(t) /\ j - 1 \in 1 .. Len(s) - 1 /\ j - 1 + 1 = j
      BY <1>1, <1>2, <2>1
    <3>2. t[j - 1] # c
      BY <1>3, <3>1 DEF LastOf
    <3> QED
      BY <1>1, <1>2, <3>1, <3>2
  <2>3. UpAt(t, newUp, i) <=> s[i] = KeyUp
    <3>1. CASE i = 1
      BY <3>1 DEF UpAt
    <3>2. CASE i # 1
      <4>1. i - 1 \in 1 .. Len(s) - 1 /\ i - 1 + 1 = i
        BY <1>1, <1>2, <2>1, <3>2
      <4> QED
        BY <1>1, <1>2, <3>2, <4>1 DEF UpAt
    <3> QED
      BY <3>1, <3>2
  <2> QED
    BY <2>1, <2>2, <2>3 DEF LastOf, UpAt
<1>4. ASSUME \A i \in 1 .. Len(t) : t[i] # c
      PROVE  newDown <=> isHeld
  <2>1. \A j \in 2 .. Len(s) : s[j] # c
    <3>1. \A j \in 2 .. Len(s) : j - 1 \in 1 .. Len(s) - 1 /\ j - 1 + 1 = j
      BY <1>1
    <3> QED
      BY <1>1, <1>2, <1>4, <3>1
  <2>2. CASE s[1] = c
    <3>1. LastOf(s, 1, c) /\ 1 \in 1 .. Len(s)
      BY <1>1, <2>1, <2>2 DEF LastOf
    <3> QED
      BY <2>2, <3>1 DEF Settles, UpAt
  <2>3. CASE s[1] # c
    <3>1. \A i \in 1 .. Len(s) : s[i] # c
      BY <1>1, <2>1, <2>3
    <3> QED
      BY <2>3, <3>1 DEF Settles
  <2> QED
    BY <2>2, <2>3
<1>5. Settles(t, newUp, c, newDown, isHeld)
  BY <1>3, <1>4 DEF Settles
<1> QED
  BY <1>2, <1>5

LEMMA WholeDecoded ==
    ASSUME NEW s \in Seq(Wire), s # <<>>, NEW up, Whole(s, up), NEW newUp, newUp <=> s[1] = KeyUp
    PROVE  Whole(Tail(s), newUp)
<1>1. /\ Len(Tail(s)) = Len(s) - 1 /\ Len(s) \in Nat /\ Len(s) >= 1 /\ Tail(s) \in Seq(Wire)
      /\ \A i \in 1 .. Len(s) - 1 : Tail(s)[i] = s[i + 1]
  OBVIOUS
<1>2. PICK t : t = Tail(s)
  OBVIOUS
<1>3. CASE t = <<>>
  <2>1. Len(t) = Len(s) - 1
    BY <1>1, <1>2
  <2>2. Len(t) = 0
    BY <1>3
  <2>3. Len(s) = 1
    <3>1. Len(s) \in Nat
      OBVIOUS
    <3> QED
      BY <2>1, <2>2, <3>1
  <2> QED
    BY <1>2, <1>3, <2>3 DEF Whole
<1>4. CASE t # <<>>
  <2>1. Len(t) >= 1 /\ Len(t) \in 1 .. Len(s) - 1 /\ Len(t) + 1 = Len(s)
    BY <1>1, <1>2, <1>4
  <2>2. t[Len(t)] = s[Len(s)]
    BY <1>1, <1>2, <2>1
  <2> QED
    BY <1>2, <1>4, <2>2 DEF Whole
<1> QED
  BY <1>3, <1>4

LEMMA DownDecoding ==
    ASSUME KeysOK, NEW code \in Plain, ~kb.extkey
    PROVE  /\ Decoded(kb, code).keyup <=> code = KeyUp
           /\ \A i \in Entries :
                 Decoded(kb, code).table[i].down <=>
                     IF code \in Codes /\ i = keyidx(FALSE, code) THEN ~kb.keyup ELSE kb.table[i].down
<1> DEFINE marked == Marked(kb, code)
<1>1. kb.keyup \in BOOLEAN /\ kb.extkey = FALSE /\ kb.table \in [Entries -> Bit]
  BY DEF KeysOK
<1>2. \A i \in Entries : marked[i].down <=>
          IF i = keyidx(FALSE, code) THEN ~kb.keyup ELSE kb.table[i].down
  <2>1. \A i \in Entries : AfterRelease(kb.table[i]).down = FALSE
    BY <1>1 DEF Bit, AfterRelease
  <2> QED
    BY <1>1, <2>1 DEF Marked
<1> HIDE DEF marked
<1>3. CASE code = KeyUp
  <2>1. Decoded(kb, code) = [kb EXCEPT !.keyup = TRUE] /\ code \notin Codes
    BY <1>3, KeyboardAssumption DEF Decoded, Prefix
  <2> QED
    BY <1>3, <2>1 DEF KeysOK
<1>4. CASE code # KeyUp
  <2>1. code \in Codes /\ code \notin {Ext, KeyUp}
    BY <1>4, KeyboardAssumption DEF Plain
  <2>2. CASE kb.keyup
    <3>1. Decoded(kb, code) = Released(kb, code)
      BY <2>1, <2>2 DEF Decoded
    <3>2. Released(kb, code).table = marked /\ Released(kb, code).keyup = FALSE
      BY <1>1 DEF Released, KeysOK, marked
    <3> QED
      BY <1>2, <1>4, <2>1, <3>1, <3>2
  <2>3. CASE ~kb.keyup
    <3>1. Decoded(kb, code) = Pressed(kb, code)
      BY <2>1, <2>3 DEF Decoded
    <3>2. Pressed(kb, code).table = marked /\ Pressed(kb, code).keyup = kb.keyup
      BY <1>1 DEF Pressed, KeysOK, marked
    <3> QED
      BY <1>2, <1>4, <2>1, <2>3, <3>1, <3>2
  <2> QED
    BY <2>2, <2>3
<1> QED
  BY <1>3, <1>4

LEMMA DownInitially == ConsoleInit => DownInv
<1> SUFFICES ASSUME ConsoleInit PROVE DownInv
  OBVIOUS
<1>1. Flight = <<>> /\ ~kb.keyup /\ held = {} /\ \A i \in Entries : kb.table[i].down = FALSE
  BY DEF ConsoleInit, Flight, KeysInit, Untouched
<1>2. ASSUME NEW c \in Codes
      PROVE  Settles(Flight, kb.keyup, c, kb.table[keyidx(FALSE, c)].down, IsHeld(c))
  <2>1. kb.table[keyidx(FALSE, c)].down = FALSE /\ ~IsHeld(c)
    BY <1>1, Entry DEF IsHeld
  <2>2. \A i \in 1 .. Len(Flight) : FALSE
    BY <1>1
  <2> QED
    BY <2>1, <2>2 DEF Settles
<1> QED
  BY <1>1, <1>2 DEF DownInv, Whole

\* What the invariant depends on.
LEMMA DownKept ==
    ASSUME DownInv, Flight' = Flight, kb'.keyup = kb.keyup, held' = held, prefixed' = prefixed,
           \A i \in Entries : kb'.table[i].down = kb.table[i].down
    PROVE  DownInv'
<1>1. \A c \in Codes : kb'.table[keyidx(FALSE, c)].down = kb.table[keyidx(FALSE, c)].down
  BY Entry
<1>2. \A c : IsHeld(c)' = IsHeld(c)
  BY DEF IsHeld
<1> QED
  BY <1>1, <1>2 DEF DownInv

LEMMA FlightType == CodesOK => Flight \in Seq(Wire)
  BY DEF CodesOK, Flight

\* The keyboard's acknowledge is on its way behind all else.
LEMMA AckKept ==
    ASSUME KeyInv, DownInv, UNCHANGED <<ring, kb, held, prefixed>>, sending' = Append(sending, Ack)
    PROVE  DownInv'
<1>1. Flight' = Append(Flight, Ack) /\ Flight \in Seq(Wire) /\ Ack \in Wire /\ Ack # KeyUp
  <2>1. Ack \in Wire /\ Ack # KeyUp
    BY KeyboardAssumption DEF Wire, Plain
  <2> QED
    BY <2>1, FlightType DEF KeyInv, CodesOK, Flight
<1> SUFFICES ASSUME ~prefixed PROVE DownInv'
  BY DEF DownInv
<1>2. Whole(Append(Flight, Ack), kb.keyup)
  BY <1>1 DEF Whole
<1>3. ASSUME NEW c \in Codes \ {Ack}
      PROVE  Settles(Append(Flight, Ack), kb.keyup, c, kb.table[keyidx(FALSE, c)].down, IsHeld(c))
  BY <1>1, <1>3, SettlesAppended DEF DownInv
<1>4. \A c : IsHeld(c)' = IsHeld(c)
  BY DEF IsHeld
<1> QED
  BY <1>1, <1>2, <1>3, <1>4 DEF DownInv

LEMMA PressDown == ASSUME KeyInv, DownInv, NEW k \in Keys, Press(k) PROVE DownInv'
<1>1. /\ sending = <<>> /\ held' = held \union {k} /\ sending' = Make(k)
      /\ prefixed' = (prefixed \/ k[1]) /\ UNCHANGED <<ring, kb>>
  BY DEF Press
<1>2. k[1] \in BOOLEAN /\ k[2] \in Codes \ {Ack} /\ k[2] \in Wire /\ k[2] # KeyUp
  BY ConsoleAssumption, KeyboardAssumption DEF Wire, Plain
<1> SUFFICES ASSUME ~prefixed' PROVE DownInv'
  BY DEF DownInv
<1>3. ~prefixed /\ sending' = <<k[2]>>
  BY <1>1 DEF Make
<1>4. Flight' = Append(Flight, k[2]) /\ Flight \in Seq(Wire)
  BY <1>1, <1>3, FlightType DEF KeyInv, CodesOK, Flight
<1>5. Whole(Append(Flight, k[2]), kb.keyup)
  BY <1>2, <1>4 DEF Whole
<1>6. ASSUME NEW c \in Codes \ {Ack}
      PROVE  Settles(Append(Flight, k[2]), kb.keyup, c, kb.table[keyidx(FALSE, c)].down, IsHeld(c)')
  <2>1. CASE c = k[2]
    <3>1. IsHeld(c)' = TRUE
      BY <1>1, <2>1 DEF IsHeld
    <3>2. Whole(Flight, kb.keyup) /\ kb.keyup \in BOOLEAN
      BY <1>3 DEF DownInv, KeyInv, KeysOK
    <3> QED
      BY <1>2, <1>4, <2>1, <3>1, <3>2, SettlesOwn
  <2>2. CASE c # k[2]
    <3>1. IsHeld(c)' = IsHeld(c)
      BY <1>1, <2>2 DEF IsHeld
    <3> QED
      BY <1>2, <1>3, <1>4, <2>2, <3>1, SettlesAppended DEF DownInv
  <2> QED
    BY <2>1, <2>2
<1> QED
  BY <1>1, <1>3, <1>4, <1>5, <1>6 DEF DownInv

LEMMA ReleaseDown == ASSUME KeyInv, DownInv, NEW k \in Keys, Release(k) PROVE DownInv'
<1>1. /\ sending = <<>> /\ k \in held /\ held' = held \ {k} /\ sending' = Break(k)
      /\ UNCHANGED <<ring, kb, prefixed>>
  BY DEF Release
<1>2. k[2] \in Codes \ {Ack} /\ k[2] \in Wire /\ k[2] # KeyUp /\ KeyUp \in Wire /\ KeyUp \notin Codes
  BY ConsoleAssumption, KeyboardAssumption DEF Wire, Plain
<1> SUFFICES ASSUME ~prefixed PROVE DownInv'
  BY <1>1 DEF DownInv
<1>3. \A l \in held : l[1] = FALSE /\ l = <<FALSE, l[2]>>
  <2>1. \A l \in Keys : l = <<l[1], l[2]>>
    BY ConsoleAssumption
  <2> QED
    BY <2>1 DEF KeyInv, NoPrefix, CodesOK
<1>4. sending' = <<KeyUp, k[2]>>
  BY <1>1, <1>3 DEF Break
<1>5. PICK s : s = Append(Flight, KeyUp)
  OBVIOUS
<1>6. /\ Flight' = Append(s, k[2]) /\ Flight \in Seq(Wire) /\ s \in Seq(Wire)
      /\ s # <<>> /\ s[Len(s)] = KeyUp
  BY <1>1, <1>2, <1>4, <1>5, FlightType DEF KeyInv, CodesOK, Flight
<1>7. Whole(Append(s, k[2]), kb.keyup)
  BY <1>2, <1>6 DEF Whole
<1>8. ASSUME NEW c \in Codes \ {Ack}
      PROVE  Settles(Append(s, k[2]), kb.keyup, c, kb.table[keyidx(FALSE, c)].down, IsHeld(c)')
  <2>1. CASE c = k[2]
    <3>1. IsHeld(c)' = FALSE
      BY <1>1, <1>3, <2>1 DEF IsHeld
    <3>2. ~Whole(s, kb.keyup) /\ kb.keyup \in BOOLEAN
      BY <1>6 DEF Whole, KeyInv, KeysOK
    <3> QED
      BY <1>2, <1>6, <2>1, <3>1, <3>2, SettlesOwn
  <2>2. CASE c # k[2]
    <3>1. IsHeld(c)' = IsHeld(c)
      BY <1>1, <2>2 DEF IsHeld
    <3>2. Settles(s, kb.keyup, c, kb.table[keyidx(FALSE, c)].down, IsHeld(c))
      BY <1>2, <1>5, <1>6, SettlesAppended DEF DownInv
    <3> QED
      BY <1>2, <1>6, <2>2, <3>1, <3>2, SettlesAppended
  <2> QED
    BY <2>1, <2>2
<1> QED
  BY <1>1, <1>6, <1>7, <1>8 DEF DownInv

LEMMA CodeDown == ASSUME KeyInv, DownInv, Code PROVE DownInv'
<1>1. PICK code : code = Head(ring)
  OBVIOUS
<1>2. /\ ring # <<>> /\ ring' = Tail(ring) /\ kb' = Decoded(kb, code)
      /\ UNCHANGED <<held, prefixed, sending>>
  BY <1>1 DEF Code, keyboardVars
<1> SUFFICES ASSUME ~prefixed PROVE DownInv'
  BY <1>2 DEF DownInv
<1>3. /\ Flight \in Seq(Wire) /\ Flight # <<>> /\ Flight[1] = code /\ Flight' = Tail(Flight)
      /\ code \in Plain /\ ~kb.extkey
  BY <1>1, <1>2, FlightType DEF KeyInv, CodesOK, NoPrefix, Flight
<1>4. /\ KeysOK' /\ (kb'.keyup <=> code = KeyUp)
      /\ \A i \in Entries : kb'.table[i].down <=>
            IF code \in Codes /\ i = keyidx(FALSE, code) THEN ~kb.keyup ELSE kb.table[i].down
  <2>1. code \in Wire
    BY <1>3, NoPrefixInCodes
  <2> QED
    BY <1>2, <1>3, <2>1, Decoding, DownDecoding DEF KeyInv, KeysOK
<1>5. Whole(Tail(Flight), kb'.keyup)
  BY <1>3, <1>4, WholeDecoded DEF DownInv
<1>6. ASSUME NEW c \in Codes \ {Ack}
      PROVE  Settles(Tail(Flight), kb'.keyup, c, kb'.table[keyidx(FALSE, c)].down, IsHeld(c))
  <2>1. kb'.table[keyidx(FALSE, c)].down <=>
            IF code = c THEN ~kb.keyup ELSE kb.table[keyidx(FALSE, c)].down
    BY <1>4, Entry, Distincts
  <2>2. kb.keyup \in BOOLEAN /\ kb'.keyup \in BOOLEAN
    BY <1>4 DEF KeyInv, KeysOK
  <2>3. Settles(Flight, kb.keyup, c, kb.table[keyidx(FALSE, c)].down, IsHeld(c))
    BY DEF DownInv
  <2>4. PICK s, up, newUp, down, newDown, isHeld :
            /\ s = Flight /\ up = kb.keyup /\ newUp = kb'.keyup /\ down = kb.table[keyidx(FALSE, c)].down
            /\ newDown = kb'.table[keyidx(FALSE, c)].down /\ isHeld = IsHeld(c)
    OBVIOUS
  <2>5. /\ s \in Seq(Wire) /\ s # <<>> /\ up \in BOOLEAN /\ newUp \in BOOLEAN
        /\ Settles(s, up, c, down, isHeld)
        /\ newUp <=> s[1] = KeyUp
        /\ newDown <=> IF s[1] = c THEN ~up ELSE down
    BY <1>3, <1>4, <2>1, <2>2, <2>3, <2>4
  <2>6. Settles(Tail(s), newUp, c, newDown, isHeld)
    BY <2>5, SettlesDecoded
  <2> QED
    BY <2>4, <2>6
<1>7. ASSUME NEW i \in Entries, \A c \in Codes : keyidx(FALSE, c) # i
      PROVE  ~kb'.table[i].down
  BY <1>4, <1>7 DEF DownInv
<1>8. \A c : IsHeld(c)' = IsHeld(c)
  BY <1>2 DEF IsHeld
<1> QED
  BY <1>2, <1>3, <1>5, <1>6, <1>7, <1>8 DEF DownInv

\* Steps that move a code on, or do not touch the codes and the table.
LEMMA OtherDown ==
    ASSUME KeyInv, DownInv, Send \/ VBlank \/ HandlerEnds \/ LightsSent \/ WriteOne \/ Written \/ Tested
                            \/ (\E code \in TestKeys : Test(code)) \/ UNCHANGED consoleVars
    PROVE  DownInv'
<1>1. CASE Send
  <2>1. /\ sending # <<>> /\ ring' = Append(ring, Head(sending)) /\ sending' = Tail(sending)
        /\ UNCHANGED <<held, prefixed, kb>>
    BY <1>1 DEF Send
  <2>2. Flight' = Flight
    <3>1. ring \in Seq(Wire) /\ sending \in Seq(Wire)
      BY DEF KeyInv, CodesOK
    <3>2. ring' \o sending' = ring \o sending
      BY <2>1, <3>1
    <3> QED
      BY <3>2 DEF Flight
  <2> QED
    BY <2>1, <2>2, DownKept
<1>2. CASE Tested
  <2>1. PICK i : i = keyidx(FALSE, main.code)
    OBVIOUS
  <2>2. /\ main.pc = "test" /\ kb' = [kb EXCEPT !.table[i].since = FALSE]
        /\ UNCHANGED <<held, sending, prefixed, ring>>
    BY <1>2, <2>1 DEF Tested, keyboardVars
  <2>3. i \in Entries
    BY <2>1, <2>2, Entry DEF KeyInv, TestUndisturbed
  <2>4. kb'.keyup = kb.keyup /\ \A j \in Entries : kb'.table[j].down = kb.table[j].down
    BY <2>2, <2>3 DEF KeyInv, KeysOK, Bit
  <2> QED
    BY <2>2, <2>4, DownKept DEF Flight
<1>3. CASE /\ VBlank \/ HandlerEnds \/ LightsSent \/ WriteOne \/ Written
              \/ (\E code \in TestKeys : Test(code)) \/ UNCHANGED consoleVars
  <2>1. /\ UNCHANGED <<held, prefixed, ring, kb>>
        /\ sending' = sending \/ sending' = Append(sending, Ack)
    BY <1>3 DEF VBlank, HandlerEnds, LightsSent, WriteOne, Written, Test, consoleVars, keyboardVars
  <2>2. CASE sending' = sending
    BY <2>1, <2>2, DownKept DEF Flight
  <2> QED
    BY <2>1, <2>2, AckKept
<1> QED
  BY <1>1, <1>2, <1>3

LEMMA KeyInvStep == ASSUME KeyInv, [ConsoleNext]_consoleVars PROVE KeyInv'
<1>1. CASE UNCHANGED consoleVars
  <2>1. UNCHANGED <<held, sending, prefixed, ring, kb, unseen, handlers, main>>
    BY <1>1 DEF consoleVars, keyboardVars
  <2>2. CodesOK' /\ NoPrefix' /\ TestUndisturbed'
    BY <2>1 DEF KeyInv, CodesOK, NoPrefix, TestUndisturbed
  <2> QED
    BY <2>1, <2>2, Elsewhere
<1> QED
  BY <1>1, PressStep, ReleaseStep, SendStep, CodeStep, HandlerStep, MainStep, TestedStep DEF ConsoleNext, Works

\* Once every code is decoded, the keys down in the table are those held, but
\* for the entry of the keyboard's acknowledge, whatever the order of presses,
\* releases, repeats, lights and tests.
THEOREM TableMatchesKeys == ConsoleSpec => []HeldKeysDown
<1>1. ConsoleInit => KeyInv /\ DownInv
  BY KeysInitially, DownInitially
<1>2. KeyInv /\ DownInv /\ [ConsoleNext]_consoleVars => (KeyInv /\ DownInv)'
  BY KeyInvStep, PressDown, ReleaseDown, CodeDown, OtherDown DEF ConsoleNext, Works
<1>3. KeyInv /\ DownInv => HeldKeysDown
  <2> SUFFICES ASSUME KeyInv, DownInv, Quiet, ~prefixed, NEW i \in Entries \ {Number[Ack]}
               PROVE  kb.table[i].down <=> \E k \in held : keyidx(k[1], k[2]) = i
    BY DEF HeldKeysDown
  <2>1. Flight = <<>>
    BY DEF Quiet, Flight
  <2>2. \A k \in held : k[1] = FALSE /\ k[2] \in Codes
    BY ConsoleAssumption DEF KeyInv, CodesOK, NoPrefix
  <2>3. CASE \A c \in Codes : keyidx(FALSE, c) # i
    BY <2>2, <2>3 DEF DownInv
  <2>4. ASSUME NEW c \in Codes, keyidx(FALSE, c) = i
        PROVE  kb.table[i].down <=> \E k \in held : keyidx(k[1], k[2]) = i
    <3>1. c # Ack
      BY <2>4 DEF keyidx
    <3>2. \A j \in 1 .. Len(Flight) : FALSE
      BY <2>1
    <3>3. kb.table[i].down <=> IsHeld(c)
      BY <2>4, <3>1, <3>2 DEF DownInv, Settles
    <3>4. \A k \in held : keyidx(k[1], k[2]) = i <=> k[2] = c
      BY <2>2, <2>4, Distincts
    <3> QED
      BY <3>3, <3>4 DEF IsHeld
  <2> QED
    BY <2>3, <2>4
<1> QED
  BY <1>1, <1>2, <1>3, PTL DEF ConsoleSpec

-----------------------------------------------------------------------------
(* Types, and the text buffer's bounds.                                    *)

IsText(t) ==
    /\ t = [mem |-> t.mem, row |-> t.row, col |-> t.col]
    /\ t.row \in 0 .. Rows - 1 /\ t.col \in 0 .. Cols - 1 /\ DOMAIN t.mem = Cell

ConsoleInv ==
    /\ presses \in 0 .. MaxPresses /\ mixed \in BOOLEAN
    /\ main.pc \in {"write", "loop", "test"}
    /\ ~mixed => IsText(text)

LEMMA TheText ==
    ASSUME NEW m, NEW r, NEW k, NEW t, t \in [mem : {m}, row : {r}, col : {k}]
    PROVE  t = [mem |-> m, row |-> r, col |-> k]
  OBVIOUS

LEMMA IsTextOf ==
    ASSUME NEW m, NEW r \in 0 .. Rows - 1, NEW k \in 0 .. Cols - 1, DOMAIN m = Cell
    PROVE  IsText([mem |-> m, row |-> r, col |-> k])
  BY DEF IsText

\* The cursor stays on the screen after a scroll, a wrap and a step back.
LEMMA ScrollType ==
    ASSUME NEW m, NEW r \in 0 .. Rows, NEW k \in 0 .. Cols - 1, DOMAIN m = Cell, NEW p
    PROVE  IsText(ScrollIfFull([mem |-> m, row |-> r, col |-> k], p).text)
<1>1. Rows \in Nat /\ Rows >= 1 /\ Cols \in Nat /\ Cols >= 2
  BY TextAssumption
<1>2. DOMAIN Scrolled(m) = Cell
  BY DEF Scrolled
<1>3. CASE r >= Rows
  <2>1. ScrollIfFull([mem |-> m, row |-> r, col |-> k], p).text
          = [mem |-> Scrolled(m), row |-> Rows - 1, col |-> 0]
    BY <1>3 DEF ScrollIfFull, Full
  <2> QED
    BY <1>1, <1>2, <2>1, IsTextOf
<1>4. CASE ~(r >= Rows)
  <2>1. ScrollIfFull([mem |-> m, row |-> r, col |-> k], p).text = [mem |-> m, row |-> r, col |-> k]
    BY <1>4 DEF ScrollIfFull, Full
  <2>2. r \in 0 .. Rows - 1
    BY <1>1, <1>4
  <2> QED
    BY <2>1, <2>2, IsTextOf
<1> QED
  BY <1>3, <1>4

\* The three cases of a turn of charbuffer_write's loop.
\* The buffer, and a store to it, by names that stay folded in the proofs.
TextOf(m, r, k) == [mem |-> m, row |-> r, col |-> k]

Stored(m, p, c) == [m EXCEPT ![p] = c]
Space == " "

LEMMA PutBackspace ==
    ASSUME NEW m, NEW r, NEW k, NEW p, NEW c, c = "bs", k > 0, NEW q, q = p - 1, NEW x, x = Stored(m, q, Space)
    PROVE  Put(TextOf(m, r, k), p, c) = [text |-> TextOf(x, r, k - 1), p |-> q]
<1>1. [TextOf(m, r, k) EXCEPT !.mem = [@ EXCEPT ![p - 1] = " "], !.col = @ - 1]
        = TextOf(x, r, k - 1)
  <2>1. [TextOf(m, r, k) EXCEPT !.mem = [@ EXCEPT ![p - 1] = " "], !.col = @ - 1]
          \in [mem : {x}, row : {r}, col : {k - 1}]
    BY DEF TextOf, Stored, Space
  <2> QED
    BY <2>1, TheText DEF TextOf
<1>2. TextOf(m, r, k).col = k
  BY DEF TextOf
<1> QED
  BY <1>1, <1>2 DEF Put, Backspace

LEMMA PutNewline ==
    ASSUME NEW m, NEW r, NEW k, NEW p, NEW c, c = "nl"
    PROVE  Put(TextOf(m, r, k), p, c) = ScrollIfFull(TextOf(m, r + 1, 0), toaddr(r + 1, 0))
<1>1. [TextOf(m, r, k) EXCEPT !.row = @ + 1, !.col = 0] = TextOf(m, r + 1, 0)
  <2>1. [TextOf(m, r, k) EXCEPT !.row = @ + 1, !.col = 0] \in [mem : {m}, row : {r + 1}, col : {0}]
    BY DEF TextOf
  <2> QED
    BY <2>1, TheText DEF TextOf
<1>2. TextOf(m, r, k).row = r
  BY DEF TextOf
<1> QED
  BY <1>1, <1>2 DEF Put, Newline

LEMMA PutGlyph ==
    ASSUME NEW m, NEW r, NEW k, NEW p, NEW c, ~(c = "bs" /\ k > 0), c # "nl", NEW x, x = Stored(m, p, c)
    PROVE  Put(TextOf(m, r, k), p, c)
             = ScrollIfFull(IF AtEnd(k) THEN TextOf(x, r + 1, 0) ELSE TextOf(x, r, k + 1), p + 1)
<1>1. TextOf(m, r, k).col = k
  BY DEF TextOf
<1>2. [TextOf(m, r, k) EXCEPT !.mem = [@ EXCEPT ![p] = c]] = TextOf(x, r, k)
  BY DEF TextOf, Stored, Space
<1>3. Put(TextOf(m, r, k), p, c)
        = ScrollIfFull(IF AtEnd(k) THEN [TextOf(x, r, k) EXCEPT !.col = 0, !.row = @ + 1]
                       ELSE [TextOf(x, r, k) EXCEPT !.col = @ + 1], p + 1)
  BY <1>1, <1>2 DEF Put, Glyph
<1>4. [TextOf(x, r, k) EXCEPT !.col = 0, !.row = @ + 1] = TextOf(x, r + 1, 0)
  <2>1. [TextOf(x, r, k) EXCEPT !.col = 0, !.row = @ + 1] \in [mem : {x}, row : {r + 1}, col : {0}]
    BY DEF TextOf
  <2> QED
    BY <2>1, TheText DEF TextOf
<1>5. [TextOf(x, r, k) EXCEPT !.col = @ + 1] = TextOf(x, r, k + 1)
  BY DEF TextOf
<1> QED
  BY <1>3, <1>4, <1>5

LEMMA PutType ==
    ASSUME NEW t, IsText(t), NEW p, NEW c
    PROVE  IsText(Put(t, p, c).text)
<1>1. PICK m, r, k : m = t.mem /\ r = t.row /\ k = t.col
  OBVIOUS
<1>2. t = TextOf(m, r, k) /\ r \in 0 .. Rows - 1 /\ k \in 0 .. Cols - 1 /\ DOMAIN m = Cell
  BY <1>1 DEF IsText, TextOf
<1>3. /\ Rows \in Nat /\ Cols \in Nat /\ Cols >= 2
      /\ r \in 0 .. Rows /\ r + 1 \in 0 .. Rows /\ 0 \in 0 .. Cols - 1
  BY <1>2, TextAssumption
<1>4. CASE c = "bs" /\ k > 0
  <2>1. PICK q, x : q = p - 1 /\ x = Stored(m, q, Space)
    OBVIOUS
  <2>2. Put(TextOf(m, r, k), p, c).text = TextOf(x, r, k - 1)
    BY <1>4, <2>1, PutBackspace
  <2>3. DOMAIN x = Cell /\ k - 1 \in 0 .. Cols - 1
    BY <1>2, <1>3, <1>4, <2>1 DEF Stored
  <2> QED
    BY <1>2, <2>2, <2>3, IsTextOf DEF TextOf
<1>5. CASE c = "nl"
  <2>1. Put(TextOf(m, r, k), p, c) = ScrollIfFull(TextOf(m, r + 1, 0), toaddr(r + 1, 0))
    BY <1>5, PutNewline
  <2> QED
    BY <1>2, <1>3, <2>1, ScrollType DEF TextOf
<1>6. CASE ~(c = "bs" /\ k > 0) /\ c # "nl"
  <2>1. PICK x : x = Stored(m, p, c)
    OBVIOUS
  <2>2. Put(TextOf(m, r, k), p, c)
          = ScrollIfFull(IF AtEnd(k) THEN TextOf(x, r + 1, 0) ELSE TextOf(x, r, k + 1), p + 1)
    BY <1>6, <2>1, PutGlyph
  <2>3. DOMAIN x = Cell
    BY <1>2, <2>1 DEF Stored
  <2>4. CASE AtEnd(k)
    BY <1>2, <1>3, <2>2, <2>3, <2>4, ScrollType DEF TextOf
  <2>5. CASE ~AtEnd(k)
    <3>1. k + 1 \in 0 .. Cols - 1
      BY <1>2, <1>3, <2>5 DEF AtEnd
    <3> QED
      BY <1>2, <1>3, <2>2, <2>3, <2>5, <3>1, ScrollType DEF TextOf
  <2> QED
    BY <2>4, <2>5
<1> QED
  BY <1>4, <1>5, <1>6

LEMMA ConsoleInitially == ConsoleInit => ConsoleInv
<1> SUFFICES ASSUME ConsoleInit PROVE ConsoleInv
  OBVIOUS
<1>1. /\ text = [mem |-> [i \in Cell |-> Nothing], row |-> 0, col |-> 0]
      /\ presses = 0 /\ mixed = FALSE /\ main.pc = "write"
  BY DEF ConsoleInit, Cleared
<1> QED
  <2>1. DOMAIN [i \in Cell |-> Nothing] = Cell /\ 0 \in 0 .. Rows - 1 /\ 0 \in 0 .. Cols - 1
    BY TextAssumption
  <2>2. IsText(text)
    BY <1>1, <2>1, IsTextOf
  <2> QED
    <3>1. 0 \in 0 .. MaxPresses
      BY ConsoleAssumption
    <3>2. presses = 0 /\ mixed = FALSE /\ main.pc = "write"
      BY <1>1
    <3> QED
      BY <2>2, <3>1, <3>2 DEF ConsoleInv

LEMMA ConsoleStep == ASSUME ConsoleInv, [ConsoleNext]_consoleVars PROVE ConsoleInv'
<1>1. ASSUME UNCHANGED <<text, mixed>>, presses' \in 0 .. MaxPresses, main'.pc \in {"write", "loop", "test"}
      PROVE  ConsoleInv'
  BY <1>1 DEF ConsoleInv
<1>2. ASSUME NEW k \in Keys, Press(k) PROVE ConsoleInv'
  <2>1. presses' \in 0 .. MaxPresses
    BY <1>2, ConsoleAssumption DEF Press, ConsoleInv
  <2> QED
    BY <1>1, <1>2, <2>1 DEF Press, ConsoleInv
<1>3. ASSUME NEW k \in Keys, Release(k) PROVE ConsoleInv'
  BY <1>1, <1>3 DEF Release, ConsoleInv
<1>4. CASE UNCHANGED <<presses, text, mixed, main>>
  BY <1>1, <1>4 DEF ConsoleInv
<1>5. CASE Send \/ VBlank \/ HandlerEnds \/ LightsSent \/ UNCHANGED consoleVars
  BY <1>4, <1>5 DEF Send, VBlank, HandlerEnds, LightsSent, consoleVars, keyboardVars
<1>6. CASE Code
  <2>1. /\ UNCHANGED <<presses, main>>
        /\ \/ UNCHANGED <<text, mixed>>
           \/ /\ \E c : text' = Put(text, toaddr(text.row, text.col), c).text
              /\ mixed' = (mixed \/ main.pc = "write")
    BY <1>6 DEF Code, keyboardVars, outputs
  <2> QED
    BY <1>4, <2>1, PutType DEF ConsoleInv
<1>7. CASE WriteOne
  <2>1. PICK p, c : p = main.p /\ c = Head(main.msg)
    OBVIOUS
  <2>2. /\ UNCHANGED <<presses, mixed>> /\ main.pc = "write" /\ text' = Put(text, p, c).text
        /\ main' = [main EXCEPT !.msg = Tail(@), !.p = Put(text, p, c).p]
    BY <1>7, <2>1 DEF WriteOne, keyboardVars
  <2>3. main'.pc = "write"
    BY <2>2
  <2> QED
    BY <2>2, <2>3, PutType DEF ConsoleInv
<1>8. CASE Written \/ Tested \/ (\E code \in TestKeys : Test(code))
  <2>1. UNCHANGED <<presses, text, mixed>> /\ main'.pc \in {"loop", "test"}
    <3>1. Loop.pc = "loop" /\ \A c, x : [pc |-> "test", code |-> c, result |-> x].pc = "test"
      BY DEF Loop
    <3> QED
      BY <1>8, <3>1 DEF Written, Tested, Test, keyboardVars
  <2> QED
    BY <1>1, <2>1 DEF ConsoleInv
<1> QED
  BY <1>2, <1>3, <1>5, <1>6, <1>7, <1>8 DEF ConsoleNext, Works

\* The codes on their way, the key table and the cursor keep their types for
\* any keys, messages and size of the screen.
THEOREM ConsoleTypeCorrect == ConsoleSpec => []ConsoleTypeOK
<1>1. ConsoleInit => KeyInv /\ ConsoleInv
  BY KeysInitially, ConsoleInitially
<1>2. KeyInv /\ ConsoleInv /\ [ConsoleNext]_consoleVars => (KeyInv /\ ConsoleInv)'
  BY KeyInvStep, ConsoleStep
<1>3. KeyInv /\ ConsoleInv => ConsoleTypeOK
  <2>1. Wire = Codes \union {Ext, KeyUp}
    BY DEF Wire, Plain
  <2> QED
    BY <2>1 DEF KeyInv, KeysOK, Bit, CodesOK, ConsoleInv, IsText, ConsoleTypeOK
<1> QED
  BY <1>1, <1>2, <1>3, PTL DEF ConsoleSpec

-----------------------------------------------------------------------------
(* The screen and what was written on it.                                  *)

\* Rows do not overlap: Cols * r has no carry into the next row.
LEMMA Below ==
    ASSUME NEW a \in Nat, NEW b \in Nat, NEW n \in Nat, a < b
    PROVE  n * a + n <= n * b
<1>1. PICK d \in Nat : b = a + 1 + d
  <2>1. b - a - 1 \in Nat /\ b = a + 1 + (b - a - 1)
    OBVIOUS
  <2> QED
    BY <2>1
<1>2. n * d \in Nat
  OBVIOUS
<1>3. n * b = n * a + n + n * d
  BY <1>1
<1>4. n * a \in Nat /\ n * b \in Nat
  OBVIOUS
<1> QED
  BY <1>2, <1>3, <1>4

LEMMA Address ==
    ASSUME NEW r \in 0 .. Rows, NEW k \in 0 .. Cols - 1
    PROVE  /\ toaddr(r, k) \in Cell
           /\ toaddr(r, k) + Cols \in Cell <=> r < Rows
           /\ toaddr(r, k) + Cols = toaddr(r + 1, k)
           /\ toaddr(r, k) + 1 = toaddr(r, k + 1) /\ toaddr(r, Cols) = toaddr(r + 1, 0)
<1>1. Rows \in Nat /\ Rows >= 1 /\ Cols \in Nat /\ Cols >= 2 /\ r \in Nat /\ k \in Nat /\ k < Cols /\ r <= Rows
  BY TextAssumption
<1>2. PICK a \in Nat, b \in Nat : a = Cols * r /\ b = Cols * Rows
  <2>1. Cols * r \in Nat /\ Cols * Rows \in Nat
    BY <1>1
  <2> QED
    BY <2>1
<1>3. (r = Rows => a = b) /\ (r < Rows => a + Cols <= b)
  BY <1>1, <1>2, Below
<1>4. /\ (Rows + 1) * Cols = b + Cols /\ Cols * (r + 1) = a + Cols
      /\ toaddr(r, k) = a + k /\ toaddr(r, k + 1) = a + k + 1
      /\ toaddr(r + 1, k) = a + Cols + k /\ toaddr(r + 1, 0) = a + Cols /\ toaddr(r, Cols) = a + Cols
  BY <1>1, <1>2 DEF toaddr
<1>5. Cell = 0 .. b + Cols - 1
  <2>1. PICK cells : cells = (Rows + 1) * Cols
    OBVIOUS
  <2>2. Cell = 0 .. cells - 1 /\ cells = b + Cols
    BY <1>4, <2>1 DEF Cell
  <2> QED
    BY <1>1, <1>2, <2>2
<1> QED
  BY <1>1, <1>2, <1>3, <1>4, <1>5

LEMMA Distinct ==
    ASSUME NEW r \in 0 .. Rows, NEW k \in 0 .. Cols - 1, NEW s \in 0 .. Rows, NEW l \in 0 .. Cols - 1,
           toaddr(r, k) = toaddr(s, l)
    PROVE  r = s /\ k = l
<1>1. Rows \in Nat /\ Cols \in Nat /\ r \in Nat /\ k \in Nat /\ k < Cols /\ s \in Nat /\ l \in Nat /\ l < Cols
  BY TextAssumption
<1>2. PICK a \in Nat, b \in Nat : a = Cols * r /\ b = Cols * s
  <2>1. Cols * r \in Nat /\ Cols * s \in Nat
    BY <1>1
  <2> QED
    BY <2>1
<1>3. (r < s => a + Cols <= b) /\ (s < r => b + Cols <= a) /\ (r = s => a = b)
  BY <1>1, <1>2, Below
<1>4. a + k = b + l
  BY <1>1, <1>2 DEF toaddr
<1> QED
  BY <1>1, <1>2, <1>3, <1>4

\* What the buffer holds when the terminal has these n lines: the last of
\* them, and blanks below; row Rows is the one that is not shown.
FirstLine(n) == IF n > Rows THEN n - Rows ELSE 0
Image(m, lines, n) ==
    \A r \in 0 .. Rows, k \in 0 .. Cols - 1 :
        m[toaddr(r, k)] = IF r < Rows /\ FirstLine(n) + r < n THEN lines[FirstLine(n) + r + 1][k + 1] ELSE Nothing
AreLines(lines, n) ==
    /\ n \in Nat /\ n >= 1 /\ Len(lines) = n /\ \E S : lines \in Seq(S)
    /\ \A i \in 1 .. n : DOMAIN lines[i] = 1 .. Cols
\* The row the last of n lines is on.
RowOf(n) == (IF n > Rows THEN Rows ELSE n) - 1

\* A character in the line being written.
LEMMA ImageWritten ==
    ASSUME NEW m, DOMAIN m = Cell, NEW lines, NEW n, AreLines(lines, n), Image(m, lines, n),
           NEW k \in 0 .. Cols - 1, NEW c, NEW written,
           written = [lines EXCEPT ![n] = [@ EXCEPT ![k + 1] = c]]
    PROVE  /\ AreLines(written, n)
           /\ Image([m EXCEPT ![toaddr(RowOf(n), k)] = c], written, n)
<1>1. Rows \in Nat /\ Rows >= 1 /\ Cols \in Nat /\ Cols >= 2 /\ n \in Nat /\ n >= 1 /\ k \in Nat
  BY TextAssumption DEF AreLines
<1>2. /\ RowOf(n) \in 0 .. Rows - 1 /\ FirstLine(n) + RowOf(n) + 1 = n /\ FirstLine(n) \in Nat
      /\ RowOf(n) \in 0 .. Rows
  BY <1>1 DEF RowOf, FirstLine
<1>3. PICK S : lines \in Seq(S) /\ Len(lines) = n /\ DOMAIN lines = 1 .. n
  BY DEF AreLines
<1>4. n \in 1 .. n /\ k + 1 \in 1 .. Cols /\ DOMAIN lines[n] = 1 .. Cols
  BY <1>1 DEF AreLines
<1>5. PICK line : line = [lines[n] EXCEPT ![k + 1] = c]
  OBVIOUS
<1>6. DOMAIN line = 1 .. Cols /\ line[k + 1] = c /\ \A j \in 1 .. Cols : j # k + 1 => line[j] = lines[n][j]
  BY <1>4, <1>5
<1>7. written = [lines EXCEPT ![n] = line]
  BY <1>5
<1>8. DOMAIN written = 1 .. n /\ written[n] = line /\ \A i \in 1 .. n : i # n => written[i] = lines[i]
  BY <1>3, <1>4, <1>7
<1>9. AreLines(written, n)
  <2>1. written \in Seq(S \union {line}) /\ Len(written) = n
    <3>1. \A i \in 1 .. n : written[i] \in S \union {line}
      BY <1>3, <1>8
    <3>2. written = [i \in 1 .. n |-> written[i]]
      BY <1>3, <1>7
    <3>3. written \in [1 .. n -> S \union {line}]
      BY <3>1, <3>2
    <3>4. written \in Seq(S \union {line})
      BY <1>1, <3>3, SeqDef
    <3> QED
      BY <1>1, <1>8, <3>4
  <2> QED
    BY <1>1, <1>6, <1>8, <2>1 DEF AreLines
<1>10. ASSUME NEW r \in 0 .. Rows, NEW j \in 0 .. Cols - 1
       PROVE  [m EXCEPT ![toaddr(RowOf(n), k)] = c][toaddr(r, j)]
                = IF r < Rows /\ FirstLine(n) + r < n THEN written[FirstLine(n) + r + 1][j + 1] ELSE Nothing
  <2>1. PICK p, q : p = toaddr(RowOf(n), k) /\ q = toaddr(r, j)
    OBVIOUS
  <2>2. p \in Cell /\ q \in Cell
    BY <1>2, <2>1, Address
  <2>3. m[q] = IF r < Rows /\ FirstLine(n) + r < n THEN lines[FirstLine(n) + r + 1][j + 1] ELSE Nothing
    BY <2>1 DEF Image
  <2>4. CASE r = RowOf(n) /\ j = k
    <3>1. p = q /\ r < Rows /\ FirstLine(n) + r + 1 = n /\ FirstLine(n) + r < n
      BY <1>1, <1>2, <2>1, <2>4
    <3> QED
      BY <1>6, <1>8, <2>1, <2>2, <2>4, <3>1
  <2>5. CASE ~(r = RowOf(n) /\ j = k)
    <3>1. p # q
      BY <1>2, <2>1, <2>5, Distinct
    <3>2. [m EXCEPT ![p] = c][q] = m[q]
      BY <2>2, <3>1
    <3>3. ASSUME r < Rows, FirstLine(n) + r < n
          PROVE  written[FirstLine(n) + r + 1][j + 1] = lines[FirstLine(n) + r + 1][j + 1]
      <4>1. FirstLine(n) + r + 1 \in 1 .. n /\ j + 1 \in 1 .. Cols
        BY <1>1, <1>2, <3>3
      <4>2. CASE r = RowOf(n)
        <5>1. FirstLine(n) + r + 1 = n /\ j + 1 # k + 1
          BY <1>1, <1>2, <2>5, <4>2
        <5> QED
          BY <1>6, <1>8, <4>1, <5>1
      <4>3. CASE r # RowOf(n)
        <5>1. FirstLine(n) + r + 1 # n
          BY <1>1, <1>2, <4>3
        <5> QED
          BY <1>8, <4>1, <5>1
      <4> QED
        BY <4>2, <4>3
    <3> QED
      BY <2>1, <2>3, <3>2, <3>3
  <2> QED
    BY <2>4, <2>5
<1> QED
  BY <1>9, <1>10 DEF Image

\* A line begun: on the next row, or, when there is none, after a scroll.
LEMMA ImageBroken ==
    ASSUME NEW m, DOMAIN m = Cell, NEW lines, NEW n, AreLines(lines, n), Image(m, lines, n)
    PROVE  /\ AreLines(Append(lines, BlankLine), n + 1)
           /\ n < Rows => Image(m, Append(lines, BlankLine), n + 1)
           /\ n >= Rows => Image(Scrolled(m), Append(lines, BlankLine), n + 1)
<1>1. Rows \in Nat /\ Rows >= 1 /\ Cols \in Nat /\ Cols >= 2 /\ n \in Nat /\ n >= 1
  BY TextAssumption DEF AreLines
<1>2. PICK S : lines \in Seq(S) /\ Len(lines) = n
  BY DEF AreLines
<1>3. DOMAIN BlankLine = 1 .. Cols /\ \A k \in 1 .. Cols : BlankLine[k] = Nothing
  BY DEF BlankLine
<1>4. PICK all, blank : all = Append(lines, blank) /\ blank = BlankLine
  OBVIOUS
<1>5. /\ all \in Seq(S \union {blank}) /\ Len(all) = n + 1 /\ all[n + 1] = blank
      /\ \A i \in 1 .. n : all[i] = lines[i]
  <2>1. lines \in Seq(S \union {blank})
    BY <1>2
  <2> QED
    BY <1>1, <1>2, <1>4, <2>1
<1>6. AreLines(all, n + 1)
  <2>1. \A i \in 1 .. n + 1 : i = n + 1 \/ i \in 1 .. n
    BY <1>1
  <2>2. n + 1 \in Nat /\ n + 1 >= 1
    BY <1>1
  <2> QED
    BY <1>3, <1>4, <1>5, <2>1, <2>2 DEF AreLines
<1>7. ASSUME n < Rows PROVE Image(m, all, n + 1)
  <2>1. FirstLine(n) = 0 /\ FirstLine(n + 1) = 0
    BY <1>1, <1>7 DEF FirstLine
  <2>2. ASSUME NEW r \in 0 .. Rows, NEW k \in 0 .. Cols - 1
        PROVE  m[toaddr(r, k)] = IF r < Rows /\ r < n + 1 THEN all[r + 1][k + 1] ELSE Nothing
    <3>1. m[toaddr(r, k)] = IF r < Rows /\ 0 + r < n THEN lines[0 + r + 1][k + 1] ELSE Nothing
      BY <2>1 DEF Image
    <3>2. k + 1 \in 1 .. Cols /\ 0 + r = r
      BY <1>1
    <3>3. CASE r < n
      <4>1. r + 1 \in 1 .. n /\ r < n + 1
        BY <1>1, <3>3
      <4> QED
        BY <1>5, <3>1, <3>2, <3>3, <4>1
    <3>4. CASE r = n
      BY <1>1, <1>3, <1>4, <1>5, <1>7, <3>1, <3>2, <3>4
    <3>5. CASE r > n
      BY <1>1, <3>1, <3>2, <3>5
    <3> QED
      BY <1>1, <3>3, <3>4, <3>5
  <2>3. \A r \in 0 .. Rows : 0 + r = r
    OBVIOUS
  <2> QED
    BY <2>1, <2>2, <2>3 DEF Image
<1>8. ASSUME n >= Rows PROVE Image(Scrolled(m), all, n + 1)
  <2>1. PICK f : f = FirstLine(n) /\ f \in Nat /\ FirstLine(n + 1) = f + 1 /\ n = f + Rows
    BY <1>1, <1>8 DEF FirstLine
  <2>2. ASSUME NEW r \in 0 .. Rows, NEW k \in 0 .. Cols - 1
        PROVE  Scrolled(m)[toaddr(r, k)]
                 = IF r < Rows /\ f + 1 + r < n + 1 THEN all[f + 1 + r + 1][k + 1] ELSE Nothing
    <3>1. PICK q : q = toaddr(r, k) /\ q \in Cell /\ (q + Cols \in Cell <=> r < Rows) /\ q + Cols = toaddr(r + 1, k)
      BY Address
    <3>2. Scrolled(m)[q] = IF r < Rows THEN m[q + Cols] ELSE Nothing
      BY <3>1 DEF Scrolled
    <3>3. CASE r < Rows
      <4>1. r + 1 \in 0 .. Rows /\ k + 1 \in 1 .. Cols
        BY <1>1, <3>3
      <4>2. m[q + Cols] = IF r + 1 < Rows /\ f + (r + 1) < n THEN lines[f + (r + 1) + 1][k + 1] ELSE Nothing
        BY <2>1, <3>1, <4>1 DEF Image
      <4>3. CASE r + 1 < Rows
        <5>1. f + (r + 1) < n /\ f + 1 + r < n + 1 /\ f + (r + 1) + 1 = f + 1 + r + 1 /\ f + 1 + r + 1 \in 1 .. n
          BY <1>1, <2>1, <4>3
        <5> QED
          BY <1>5, <3>1, <3>2, <3>3, <4>2, <4>3, <5>1
      <4>4. CASE ~(r + 1 < Rows)
        <5>1. f + 1 + r + 1 = n + 1 /\ f + 1 + r < n + 1
          BY <1>1, <2>1, <3>3, <4>4
        <5> QED
          BY <1>3, <1>4, <1>5, <3>1, <3>2, <3>3, <4>1, <4>2, <4>4, <5>1
      <4> QED
        BY <4>3, <4>4
    <3>4. CASE ~(r < Rows)
      BY <3>1, <3>2, <3>4
    <3> QED
      BY <3>3, <3>4
  <2> QED
    BY <2>1, <2>2 DEF Image
<1> QED
  BY <1>4, <1>6, <1>7, <1>8

\* The screen, with the cursor, is the end of what the terminal was given.
Follows(t, s) ==
    /\ IsText(t) /\ AreLines(s.lines, Len(s.lines))
    /\ s.at = t.col + 1 /\ t.row = RowOf(Len(s.lines))
    /\ Image(t.mem, s.lines, Len(s.lines))

LEMMA FollowsOf ==
    ASSUME NEW m, NEW k \in 0 .. Cols - 1, DOMAIN m = Cell, NEW lines, NEW n, AreLines(lines, n), Image(m, lines, n)
    PROVE  Follows([mem |-> m, row |-> RowOf(n), col |-> k], [lines |-> lines, at |-> k + 1])
<1>1. RowOf(n) \in 0 .. Rows - 1 /\ Len(lines) = n
  BY TextAssumption DEF AreLines, RowOf
<1>2. IsText([mem |-> m, row |-> RowOf(n), col |-> k])
  BY <1>1, IsTextOf
<1>3. PICK r, t, s : r = RowOf(n) /\ t = [mem |-> m, row |-> r, col |-> k] /\ s = [lines |-> lines, at |-> k + 1]
  OBVIOUS
<1>4. t.mem = m /\ t.row = r /\ t.col = k /\ s.lines = lines /\ s.at = k + 1
  BY <1>3
<1>5. Follows(t, s)
  BY <1>1, <1>2, <1>3, <1>4 DEF Follows
<1> QED
  BY <1>3, <1>5

\* A new line, with its scroll.
LEMMA FollowsBreak ==
    ASSUME NEW m, DOMAIN m = Cell, NEW lines, NEW n, AreLines(lines, n), Image(m, lines, n), NEW w,
           w = ScrollIfFull([mem |-> m, row |-> RowOf(n) + 1, col |-> 0], toaddr(RowOf(n) + 1, 0))
    PROVE  /\ Follows(w.text, [lines |-> Append(lines, BlankLine), at |-> 1])
           /\ w.p = toaddr(w.text.row, w.text.col)
<1>1. Rows \in Nat /\ Rows >= 1 /\ n \in Nat /\ n >= 1 /\ 0 \in 0 .. Cols - 1 /\ 0 + 1 = 1
  BY TextAssumption DEF AreLines
<1>2. AreLines(Append(lines, BlankLine), n + 1)
  BY ImageBroken
<1>3. CASE n < Rows
  <2>1. RowOf(n) + 1 = RowOf(n + 1) /\ RowOf(n + 1) < Rows /\ RowOf(n + 1) \in Nat
    BY <1>1, <1>3 DEF RowOf
  <2>2. w = [text |-> [mem |-> m, row |-> RowOf(n + 1), col |-> 0], p |-> toaddr(RowOf(n + 1), 0)]
    BY <1>1, <2>1 DEF ScrollIfFull, Full
  <2>3. Image(m, Append(lines, BlankLine), n + 1)
    BY <1>3, ImageBroken
  <2>4. w.text = [mem |-> m, row |-> RowOf(n + 1), col |-> 0] /\ w.p = toaddr(RowOf(n + 1), 0)
    BY <2>2
  <2>5. Follows(w.text, [lines |-> Append(lines, BlankLine), at |-> 0 + 1])
    BY <1>1, <1>2, <2>3, <2>4, FollowsOf
  <2>6. w.text.row = RowOf(n + 1) /\ w.text.col = 0
    BY <2>4
  <2> QED
    BY <1>1, <2>4, <2>5, <2>6
<1>4. CASE n >= Rows
  <2>1. RowOf(n) + 1 = Rows /\ RowOf(n + 1) = Rows - 1
    BY <1>1, <1>4 DEF RowOf
  <2>2. w = [text |-> [mem |-> Scrolled(m), row |-> RowOf(n + 1), col |-> 0], p |-> toaddr(RowOf(n + 1), 0)]
    BY <1>1, <2>1 DEF ScrollIfFull, Full
  <2>3. Image(Scrolled(m), Append(lines, BlankLine), n + 1) /\ DOMAIN Scrolled(m) = Cell
    BY <1>4, ImageBroken DEF Scrolled
  <2>4. w.text = [mem |-> Scrolled(m), row |-> RowOf(n + 1), col |-> 0] /\ w.p = toaddr(RowOf(n + 1), 0)
    BY <2>2
  <2>5. Follows(w.text, [lines |-> Append(lines, BlankLine), at |-> 0 + 1])
    BY <1>1, <1>2, <2>3, <2>4, FollowsOf
  <2>6. w.text.row = RowOf(n + 1) /\ w.text.col = 0
    BY <2>4
  <2> QED
    BY <1>1, <2>4, <2>5, <2>6
<1> QED
  BY <1>1, <1>3, <1>4

\* One turn of charbuffer_write does what the terminal does.
LEMMA PutFollows ==
    ASSUME NEW t, NEW s, Follows(t, s), NEW p, p = toaddr(t.row, t.col), NEW c, NEW w, w = Put(t, p, c)
    PROVE  Follows(w.text, Typed(s, c)) /\ w.p = toaddr(w.text.row, w.text.col)
<1>1. PICK m, r, k, lines, n, at :
        m = t.mem /\ r = t.row /\ k = t.col /\ lines = s.lines /\ n = Len(s.lines) /\ at = s.at
  OBVIOUS
<1>2. /\ w = Put(TextOf(m, r, k), p, c) /\ r \in 0 .. Rows - 1 /\ k \in 0 .. Cols - 1 /\ DOMAIN m = Cell
      /\ r = RowOf(n) /\ at = k + 1 /\ AreLines(lines, n) /\ Image(m, lines, n) /\ p = toaddr(RowOf(n), k)
  BY <1>1 DEF Follows, IsText, TextOf
<1>3. Cols \in Nat /\ Cols >= 2 /\ Rows \in Nat /\ k \in Nat /\ k < Cols /\ r \in 0 .. Rows
  BY <1>2, TextAssumption
<1>4. CASE c = "bs" /\ k > 0
  <2>1. k - 1 \in 0 .. Cols - 1 /\ toaddr(r, k - 1) + 1 = toaddr(r, k) /\ toaddr(r, k - 1) \in Cell
    <3>1. PICK l : l = k - 1 /\ l \in 0 .. Cols - 1 /\ l + 1 = k
      BY <1>3, <1>4
    <3> QED
      BY <1>3, <3>1, Address
  <2>2. p - 1 = toaddr(r, k - 1)
    <3>1. toaddr(r, k - 1) \in Int
      BY <2>1, <1>3, TextAssumption DEF Cell
    <3> QED
      BY <1>2, <2>1, <3>1
  <2>3. PICK q, x : q = p - 1 /\ x = Stored(m, q, Space)
    OBVIOUS
  <2>4. DOMAIN x = Cell /\ x = [m EXCEPT ![toaddr(RowOf(n), k - 1)] = " "]
    BY <1>2, <2>2, <2>3 DEF Stored, Space
  <2>5. w.text = TextOf(x, r, k - 1) /\ w.p = q
    BY <1>2, <1>4, <2>3, PutBackspace
  <2>6. w.text = TextOf(x, RowOf(n), k - 1) /\ w.p = toaddr(RowOf(n), k - 1)
    BY <1>2, <2>2, <2>3, <2>5
  <2>7. PICK written : written = [lines EXCEPT ![n] = [@ EXCEPT ![k - 1 + 1] = " "]]
    OBVIOUS
  <2>8. AreLines(written, n) /\ Image(x, written, n)
    BY <1>2, <2>1, <2>4, <2>7, ImageWritten
  <2>9. Typed(s, c) = [lines |-> written, at |-> k - 1 + 1]
    <3>1. at - 1 = k - 1 + 1 /\ at > 1
      BY <1>2, <1>3, <1>4
    <3> QED
      BY <1>1, <1>4, <2>7, <3>1 DEF Typed
  <2>10. Follows(w.text, Typed(s, c))
    BY <2>1, <2>4, <2>8, <2>9, <2>6, FollowsOf DEF TextOf
  <2> QED
    BY <2>6, <2>10 DEF TextOf
<1>5. CASE c = "nl"
  <2>1. w = ScrollIfFull(TextOf(m, RowOf(n) + 1, 0), toaddr(RowOf(n) + 1, 0))
    BY <1>2, <1>5, PutNewline
  <2>2. Typed(s, c) = [lines |-> Append(lines, BlankLine), at |-> 1]
    BY <1>1, <1>5 DEF Typed
  <2> QED
    BY <1>2, <2>1, <2>2, FollowsBreak DEF TextOf
<1>6. CASE ~(c = "bs" /\ k > 0) /\ c # "nl"
  <2>1. PICK x, written : x = Stored(m, p, c) /\ written = [lines EXCEPT ![n] = [@ EXCEPT ![k + 1] = c]]
    OBVIOUS
  <2>2. AreLines(written, n) /\ Image(x, written, n) /\ DOMAIN x = Cell
    BY <1>2, <2>1, ImageWritten DEF Stored
  <2>3. ~(c = "bs" /\ at > 1) /\ written = [lines EXCEPT ![n] = [lines[n] EXCEPT ![at] = c]]
    BY <1>2, <1>3, <1>6, <2>1
  <2>4. toaddr(r, k) + 1 = toaddr(r, k + 1) /\ toaddr(r, Cols) = toaddr(r + 1, 0)
    BY <1>2, <1>3, Address
  <2>5. w = ScrollIfFull(IF AtEnd(k) THEN TextOf(x, r + 1, 0) ELSE TextOf(x, r, k + 1), p + 1)
    <3>1. Put(TextOf(m, r, k), p, c)
            = ScrollIfFull(IF AtEnd(k) THEN TextOf(x, r + 1, 0) ELSE TextOf(x, r, k + 1), p + 1)
      BY <1>6, <2>1, PutGlyph
    <3> QED
      BY <1>2, <3>1
  <2>6. CASE k + 1 = Cols
    <3>1. w = ScrollIfFull(TextOf(x, RowOf(n) + 1, 0), toaddr(RowOf(n) + 1, 0))
      BY <1>2, <2>4, <2>6, <2>5 DEF AtEnd
    <3>2. Typed(s, c) = [lines |-> Append(written, BlankLine), at |-> 1]
      BY <1>1, <1>2, <1>6, <2>3, <2>6 DEF Typed
    <3> QED
      BY <2>2, <3>1, <3>2, FollowsBreak DEF TextOf
  <2>7. CASE k + 1 # Cols
    <3>1. k + 1 \in 0 .. Cols - 1
      BY <1>3, <2>7
    <3>2. w = [text |-> TextOf(x, r, k + 1), p |-> toaddr(r, k + 1)]
      <4>1. w = ScrollIfFull(TextOf(x, r, k + 1), toaddr(r, k + 1))
        BY <1>2, <2>4, <2>7, <2>5 DEF AtEnd
      <4>2. ~Full(r)
        BY <1>2, <1>3 DEF Full
      <4> QED
        BY <4>1, <4>2 DEF ScrollIfFull, TextOf
    <3>3. Typed(s, c) = [lines |-> written, at |-> k + 1 + 1]
      BY <1>1, <1>2, <1>6, <2>3, <2>7 DEF Typed
    <3> QED
      BY <1>2, <2>2, <3>1, <3>2, <3>3, FollowsOf DEF TextOf
  <2> QED
    BY <2>6, <2>7
<1> QED
  BY <1>4, <1>5, <1>6

\* The program's pointer is where the cursor is.
ScreenInv ==
    ~mixed =>
        /\ Follows(text, terminal)
        /\ main.pc = "write" =>
              main.p = toaddr(text.row, text.col) /\ main = [pc |-> "write", msg |-> main.msg, p |-> main.p]

LEMMA ScreenInitially == ConsoleInit => ScreenInv
<1> SUFFICES ASSUME ConsoleInit PROVE ScreenInv
  OBVIOUS
<1>1. PICK m, lines : m = [i \in Cell |-> Nothing] /\ lines = <<BlankLine>>
  OBVIOUS
<1>2. /\ text = [mem |-> m, row |-> 0, col |-> 0] /\ terminal = [lines |-> lines, at |-> 1]
      /\ main.p = toaddr(0, 0) /\ main = [pc |-> "write", msg |-> main.msg, p |-> main.p]
  BY <1>1 DEF ConsoleInit, Cleared, NothingTyped
<1>3. Rows \in Nat /\ Rows >= 1 /\ 0 \in 0 .. Cols - 1 /\ RowOf(1) = 0 /\ FirstLine(1) = 0 /\ 0 + 1 = 1
  BY TextAssumption DEF RowOf, FirstLine
<1>4. AreLines(lines, 1)
  <2>1. lines \in Seq({BlankLine}) /\ Len(lines) = 1 /\ lines[1] = BlankLine /\ DOMAIN BlankLine = 1 .. Cols
    BY <1>1 DEF BlankLine
  <2> QED
    BY <2>1 DEF AreLines
<1>5. Image(m, lines, 1)
  <2>1. ASSUME NEW r \in 0 .. Rows, NEW k \in 0 .. Cols - 1
        PROVE  m[toaddr(r, k)] = IF r < Rows /\ 0 + r < 1 THEN lines[0 + r + 1][k + 1] ELSE Nothing
    <3>1. m[toaddr(r, k)] = Nothing
      BY <1>1, Address
    <3>2. ASSUME r < 1 PROVE lines[0 + r + 1][k + 1] = Nothing
      <4>1. 0 + r + 1 = 1 /\ k + 1 \in 1 .. Cols /\ lines[1] = BlankLine
        BY <1>1, <1>3, <3>2, TextAssumption
      <4> QED
        BY <4>1 DEF BlankLine
    <3> QED
      BY <3>1, <3>2
  <2> QED
    BY <1>3, <2>1 DEF Image
<1>6. DOMAIN m = Cell
  BY <1>1
<1>7. Follows(text, terminal)
  BY <1>2, <1>3, <1>4, <1>5, <1>6, FollowsOf
<1>8. text.row = 0 /\ text.col = 0
  BY <1>2
<1> QED
  BY <1>2, <1>7, <1>8 DEF ScreenInv

LEMMA ScreenStep == ASSUME ScreenInv, [ConsoleNext]_consoleVars PROVE ScreenInv'
<1>1. ASSUME UNCHANGED <<text, terminal, mixed>>, main' = main \/ main'.pc # "write"
      PROVE  ScreenInv'
  BY <1>1 DEF ScreenInv
<1>2. CASE \/ \E k \in Keys : Press(k) \/ Release(k)
           \/ Send \/ VBlank \/ HandlerEnds \/ LightsSent \/ UNCHANGED consoleVars
  <2>1. UNCHANGED <<text, terminal, mixed, main>>
    BY <1>2 DEF Press, Release, Send, VBlank, HandlerEnds, LightsSent, consoleVars, keyboardVars, outputs
  <2> QED
    BY <1>1, <2>1
<1>3. CASE Written \/ Tested \/ (\E code \in TestKeys : Test(code))
  <2>1. UNCHANGED <<text, terminal, mixed>> /\ main'.pc \in {"loop", "test"}
    <3>1. Loop.pc = "loop" /\ \A c, x : [pc |-> "test", code |-> c, result |-> x].pc = "test"
      BY DEF Loop
    <3> QED
      BY <1>3, <3>1 DEF Written, Tested, Test, keyboardVars, outputs
  <2> QED
    BY <1>1, <2>1
<1>4. CASE Code
  <2>1. main' = main /\ \/ UNCHANGED <<text, terminal, mixed>>
                        \/ /\ \E c : /\ text' = Put(text, toaddr(text.row, text.col), c).text
                                     /\ terminal' = Typed(terminal, c)
                           /\ mixed' = (mixed \/ main.pc = "write")
    BY <1>4 DEF Code, outputs
  <2>2. CASE UNCHANGED <<text, terminal, mixed>>
    BY <1>1, <2>1, <2>2
  <2>3. ASSUME NEW c, text' = Put(text, toaddr(text.row, text.col), c).text, terminal' = Typed(terminal, c),
               mixed' = (mixed \/ main.pc = "write")
        PROVE  ScreenInv'
    BY <2>1, <2>3, PutFollows DEF ScreenInv
  <2> QED
    BY <2>1, <2>2, <2>3
<1>5. CASE WriteOne
  <2>1. PICK p, c, w : p = main.p /\ c = Head(main.msg) /\ w = Put(text, p, c)
    OBVIOUS
  <2>2. /\ text' = w.text /\ main' = [main EXCEPT !.msg = Tail(@), !.p = w.p] /\ main.pc = "write"
        /\ terminal' = Typed(terminal, c) /\ UNCHANGED mixed
    BY <1>5, <2>1 DEF WriteOne
  <2> SUFFICES ASSUME ~mixed PROVE ScreenInv'
    BY <2>2 DEF ScreenInv
  <2>3. main'.p = w.p /\ main' = [pc |-> "write", msg |-> main'.msg, p |-> main'.p]
    <3>1. main = [pc |-> "write", msg |-> main.msg, p |-> main.p]
      BY <2>2 DEF ScreenInv
    <3> QED
      BY <2>2, <3>1
  <2>4. Follows(text', terminal') /\ w.p = toaddr(text'.row, text'.col)
    BY <2>1, <2>2, PutFollows DEF ScreenInv
  <2> QED
    BY <2>3, <2>4 DEF ScreenInv
<1> QED
  BY <1>2, <1>3, <1>4, <1>5 DEF ConsoleNext, Works

\* What is on the screen is what a terminal would show that was given the same
\* characters, for any size of screen and any messages, until an echo falls
\* into a message.
THEOREM ScreenIsRight == ConsoleSpec => []ScreenShows
<1>1. ConsoleInit => ScreenInv
  BY ScreenInitially
<1>2. ScreenInv /\ [ConsoleNext]_consoleVars => ScreenInv'
  BY ScreenStep
<1>3. ScreenInv => ScreenShows
  <2> SUFFICES ASSUME ScreenInv, ~mixed
               PROVE  /\ Shows(text, terminal.lines)
                      /\ \A k \in 0 .. Cols - 1 : text.mem[toaddr(Rows, k)] = Nothing
    BY DEF ScreenShows
  <2>1. PICK lines, n : lines = terminal.lines /\ n = Len(lines) /\ Image(text.mem, lines, n) /\ n \in Nat
    BY DEF ScreenInv, Follows, AreLines
  <2>2. Rows \in Nat /\ Cols \in Nat
    BY TextAssumption
  <2>3. ASSUME NEW r \in 0 .. Rows - 1, NEW k \in 1 .. Cols
        PROVE  text.mem[toaddr(r, k - 1)]
                 = IF FirstLine(n) + r < n THEN lines[FirstLine(n) + r + 1][k] ELSE Nothing
    <3>1. r \in 0 .. Rows /\ r < Rows /\ k - 1 \in 0 .. Cols - 1 /\ k - 1 + 1 = k
      BY <2>2
    <3> QED
      BY <2>1, <3>1 DEF Image
  <2>4. Shows(text, lines)
    BY <2>1, <2>3 DEF Shows, FirstLine
  <2>5. ASSUME NEW k \in 0 .. Cols - 1 PROVE text.mem[toaddr(Rows, k)] = Nothing
    <3>1. Rows \in 0 .. Rows /\ ~(Rows < Rows)
      BY <2>2
    <3> QED
      BY <2>1, <3>1 DEF Image
  <2> QED
    BY <2>1, <2>4, <2>5
<1> QED
  BY <1>1, <1>2, <1>3, PTL DEF ConsoleSpec

-----------------------------------------------------------------------------
(* The keys and what was echoed for them.                                  *)

\* A stage of the decoder: its memory of prefix, shift and caps lock, and how
\* many characters it has returned.
Stages == [keyup : BOOLEAN, shift : BOOLEAN, caps : BOOLEAN, n : Nat]
\* The character a code is at a stage; the stage after it; and the codes on
\* their way take the decoder from one stage to another, each character on the
\* way being the next that is due.
CharOf(d, x) ==
    IF x \in Codes /\ ~d.keyup THEN kblookup[x][IF d.shift \/ d.caps THEN 2 ELSE 1] ELSE NoChar
Takes(d, x, e, due) ==
    /\ e.keyup <=> x = KeyUp \/ (x = Ext /\ d.keyup)
    /\ e.shift <=> IF x = "shift" THEN ~d.keyup ELSE d.shift
    /\ e.caps <=> IF x = "caps" /\ ~d.keyup THEN ~d.caps ELSE d.caps
    /\ IF CharOf(d, x) = NoChar THEN e.n = d.n
       ELSE e.n = d.n + 1 /\ e.n <= Len(due) /\ due[e.n] = CharOf(d, x)
Decodes(s, d, e, due) ==
    \E run \in [1 .. Len(s) + 1 -> Stages] :
        /\ run[1] = d /\ run[Len(s) + 1] = e
        /\ \A i \in 1 .. Len(s) : Takes(run[i], s[i], run[i + 1], due)

\* A code is added behind, the first is taken, a character more becomes due.
LEMMA DecodesMore ==
    ASSUME NEW s \in Seq(Wire), NEW x \in Wire, NEW d, NEW e, NEW g \in Stages, NEW due,
           Decodes(s, d, e, due), Takes(e, x, g, due)
    PROVE  Decodes(Append(s, x), d, g, due)
<1>1. PICK n, t : n = Len(s) /\ t = Append(s, x)
  OBVIOUS
<1>2. n \in Nat /\ Len(t) = n + 1 /\ t[n + 1] = x /\ \A i \in 1 .. n : t[i] = s[i]
  BY <1>1
<1>3. PICK run \in [1 .. n + 1 -> Stages] :
        /\ run[1] = d /\ run[n + 1] = e
        /\ \A i \in 1 .. n : Takes(run[i], s[i], run[i + 1], due)
  BY <1>1 DEF Decodes
<1>4. PICK more : more = [i \in 1 .. n + 1 + 1 |-> IF i = n + 1 + 1 THEN g ELSE run[i]]
  OBVIOUS
<1>5. more \in [1 .. n + 1 + 1 -> Stages] /\ more[1] = d /\ more[n + 1 + 1] = g /\ more[n + 1] = e
  BY <1>2, <1>3, <1>4
<1>6. ASSUME NEW i \in 1 .. n + 1 PROVE Takes(more[i], t[i], more[i + 1], due)
  <2>1. CASE i = n + 1
    BY <1>2, <1>5, <2>1
  <2>2. CASE i # n + 1
    <3>1. i \in 1 .. n /\ more[i] = run[i] /\ more[i + 1] = run[i + 1]
      BY <1>2, <1>4, <2>2
    <3> QED
      BY <1>2, <1>3, <3>1
  <2> QED
    BY <2>1, <2>2
<1>7. Decodes(t, d, g, due)
  BY <1>2, <1>5, <1>6 DEF Decodes
<1> QED
  BY <1>1, <1>7

LEMMA DecodesFirst ==
    ASSUME NEW s \in Seq(Wire), s # <<>>, NEW d, NEW e, NEW due, Decodes(s, d, e, due)
    PROVE  \E g \in Stages : Takes(d, s[1], g, due) /\ Decodes(Tail(s), g, e, due)
<1>1. PICK n, t : n = Len(s) /\ t = Tail(s)
  OBVIOUS
<1>2. n \in Nat /\ n >= 1 /\ Len(t) = n - 1 /\ \A i \in 1 .. n - 1 : t[i] = s[i + 1]
  BY <1>1
<1>3. PICK run \in [1 .. n + 1 -> Stages] :
        /\ run[1] = d /\ run[n + 1] = e
        /\ \A i \in 1 .. n : Takes(run[i], s[i], run[i + 1], due)
  BY <1>1 DEF Decodes
<1>4. PICK rest : rest = [i \in 1 .. n |-> run[i + 1]]
  OBVIOUS
<1>5. /\ rest \in [1 .. n -> Stages] /\ rest[n] = e /\ rest[1] \in Stages
      /\ \A i \in 1 .. n : rest[i] = run[i + 1]
  <2>1. \A i \in 1 .. n : i + 1 \in 1 .. n + 1
    BY <1>2
  <2>2. 1 \in 1 .. n /\ n \in 1 .. n
    BY <1>2
  <2> QED
    BY <1>3, <1>4, <2>1, <2>2
<1>6. Takes(d, s[1], rest[1], due)
  <2>1. 1 \in 1 .. n /\ 1 + 1 = 2
    BY <1>2
  <2> QED
    BY <1>3, <1>5, <2>1
<1>7. ASSUME NEW i \in 1 .. n - 1 PROVE Takes(rest[i], t[i], rest[i + 1], due)
  <2>1. i + 1 \in 1 .. n /\ i \in 1 .. n
    BY <1>2
  <2> QED
    BY <1>2, <1>3, <1>5, <2>1
<1>8. Decodes(t, rest[1], e, due)
  <2>1. Len(t) + 1 = n /\ Len(t) = n - 1
    BY <1>2
  <2> QED
    BY <1>2, <1>5, <1>7, <2>1 DEF Decodes
<1> QED
  BY <1>1, <1>5, <1>6, <1>8

LEMMA TakesDue ==
    ASSUME NEW S, NEW due \in Seq(S), NEW c \in S, NEW d \in Stages, NEW x, NEW e, Takes(d, x, e, due)
    PROVE  Takes(d, x, e, Append(due, c))
<1>1. PICK m, more : m = Len(due) /\ more = Append(due, c)
  OBVIOUS
<1>2. m \in Nat /\ Len(more) = m + 1 /\ (\A i \in 1 .. m : more[i] = due[i]) /\ d.n \in Nat
  BY <1>1 DEF Stages
<1>3. Takes(d, x, e, more)
  <2>1. CASE CharOf(d, x) = NoChar
    BY <2>1 DEF Takes
  <2>2. CASE CharOf(d, x) # NoChar
    <3>1. e.n = d.n + 1 /\ e.n <= m /\ due[e.n] = CharOf(d, x)
      BY <1>1, <2>2 DEF Takes
    <3>2. e.n \in 1 .. m /\ e.n <= m + 1
      BY <1>2, <3>1
    <3> QED
      BY <1>2, <2>2, <3>1, <3>2 DEF Takes
  <2> QED
    BY <2>1, <2>2
<1> QED
  BY <1>1, <1>3

LEMMA DecodesDue ==
    ASSUME NEW S, NEW due \in Seq(S), NEW c \in S, NEW s \in Seq(Wire), NEW d, NEW e, Decodes(s, d, e, due)
    PROVE  Decodes(s, d, e, Append(due, c))
<1>1. PICK n : n = Len(s) /\ n \in Nat
  OBVIOUS
<1>2. PICK run \in [1 .. n + 1 -> Stages] :
        /\ run[1] = d /\ run[n + 1] = e
        /\ \A i \in 1 .. n : Takes(run[i], s[i], run[i + 1], due)
  BY <1>1 DEF Decodes
<1>3. ASSUME NEW i \in 1 .. n PROVE Takes(run[i], s[i], run[i + 1], Append(due, c))
  <2>1. i \in 1 .. n + 1
    BY <1>1
  <2> QED
    BY <1>2, <2>1, TakesDue
<1> QED
  BY <1>1, <1>2, <1>3 DEF Decodes

\* There is a stage after each, unless a character comes that is not due.
LEMMA StageWith ==
    ASSUME NEW up \in BOOLEAN, NEW shift \in BOOLEAN, NEW caps \in BOOLEAN, NEW n \in Nat
    PROVE  \E g \in Stages : /\ g.keyup <=> up
                             /\ g.shift <=> shift
                             /\ g.caps <=> caps
                             /\ g.n = n
<1>1. PICK g : g = [keyup |-> up, shift |-> shift, caps |-> caps, n |-> n]
  OBVIOUS
<1>2. g \in Stages
  BY <1>1 DEF Stages
<1>3. /\ g.keyup <=> up
      /\ g.shift <=> shift
      /\ g.caps <=> caps
  BY <1>1, Zenon
<1>4. g.n = n
  BY <1>1
<1> QED
  BY <1>2, <1>3, <1>4

LEMMA TakesSome ==
    ASSUME NEW d \in Stages, NEW x, NEW due,
           CharOf(d, x) # NoChar => d.n + 1 <= Len(due) /\ due[d.n + 1] = CharOf(d, x)
    PROVE  \E g \in Stages : Takes(d, x, g, due)
<1>1. d.n \in Nat /\ d.n + 1 \in Nat
  BY DEF Stages
<1>2. PICK up \in BOOLEAN, shift \in BOOLEAN, caps \in BOOLEAN :
        /\ up <=> x = KeyUp \/ (x = Ext /\ d.keyup)
        /\ shift <=> IF x = "shift" THEN ~d.keyup ELSE d.shift
        /\ caps <=> IF x = "caps" /\ ~d.keyup THEN ~d.caps ELSE d.caps
  <2>1. \E up \in BOOLEAN : up <=> x = KeyUp \/ (x = Ext /\ d.keyup)
    OBVIOUS
  <2>2. \E shift \in BOOLEAN : shift <=> IF x = "shift" THEN ~d.keyup ELSE d.shift
    OBVIOUS
  <2>3. \E caps \in BOOLEAN : caps <=> IF x = "caps" /\ ~d.keyup THEN ~d.caps ELSE d.caps
    OBVIOUS
  <2> QED
    BY <2>1, <2>2, <2>3
<1>3. PICK n \in Nat : n = IF CharOf(d, x) = NoChar THEN d.n ELSE d.n + 1
  BY <1>1
<1>4. PICK g \in Stages : /\ g.keyup <=> up
                          /\ g.shift <=> shift
                          /\ g.caps <=> caps
                          /\ g.n = n
  BY StageWith
<1>5. Takes(d, x, g, due)
  BY <1>2, <1>3, <1>4 DEF Takes
<1> QED
  BY <1>5

\* What keyboard.c does with a code is what this says of it.
LEMMA TypeDecoding ==
    ASSUME KeysOK, NEW code \in Wire, NEW d \in Stages,
           d.keyup <=> kb.keyup,
           d.shift <=> kb.shift,
           d.caps <=> kb.caps
    PROVE  /\ Decoded(kb, code).keyup <=> code = KeyUp \/ (code = Ext /\ d.keyup)
           /\ Decoded(kb, code).shift <=> IF code = "shift" THEN ~d.keyup ELSE d.shift
           /\ Decoded(kb, code).caps <=> IF code = "caps" /\ ~d.keyup THEN ~d.caps ELSE d.caps
           /\ Echo(kb, code) = CharOf(d, code)
<1>1. kb.keyup \in BOOLEAN /\ kb.shift \in BOOLEAN /\ kb.caps \in BOOLEAN
  BY DEF KeysOK
<1>2. /\ code \in Codes \/ code = KeyUp \/ code = Ext
      /\ KeyUp \notin Codes /\ Ext \notin Codes /\ KeyUp # Ext
      /\ "shift" \notin {KeyUp, Ext} /\ "caps" \notin {KeyUp, Ext}
      /\ code \in Codes /\ code \in {"shift", "caps"} => kblookup[code] = <<NoChar, NoChar>>
  BY KeyboardAssumption DEF Wire, Plain, KeyUp, Ext
<1>3. Echo(kb, code) = CharOf(d, code)
  BY DEF Echo, Typing, Character, CharOf
<1>4. PICK marked : marked = Marked(kb, code)
  OBVIOUS
<1>5. CASE code \in {Ext, KeyUp}
  <2>1. Decoded(kb, code) = Prefix(kb, code)
    BY <1>5 DEF Decoded
  <2> QED
    BY <1>1, <1>2, <1>3, <1>5, <2>1 DEF Prefix, KeysOK
<1>6. CASE code \notin {Ext, KeyUp} /\ kb.keyup
  <2>1. Decoded(kb, code) = Released(kb, code)
    BY <1>6 DEF Decoded
  <2> QED
    BY <1>1, <1>2, <1>3, <1>4, <1>6, <2>1 DEF Released, KeysOK
<1>7. CASE code \notin {Ext, KeyUp} /\ ~kb.keyup
  <2>1. Decoded(kb, code) = Pressed(kb, code)
    BY <1>7 DEF Decoded
  <2>2. CASE Character(kb, code) # NoChar
    <3>1. code \notin {"shift", "caps"}
      BY <1>2, <1>7, <2>2 DEF Character
    <3> QED
      BY <1>1, <1>2, <1>3, <1>4, <1>7, <2>1, <2>2, <3>1 DEF Pressed, KeysOK
  <2>3. CASE Character(kb, code) = NoChar
    BY <1>1, <1>2, <1>3, <1>4, <1>7, <2>1, <2>3 DEF Pressed, KeysOK
  <2> QED
    BY <2>2, <2>3
<1> QED
  BY <1>5, <1>6, <1>7

\* The invariant: the codes in flight take the decoder from where it is to
\* where the keyboard's user has it.  Caps lock and shift of the two agree only
\* then, but each code meets the case it was sent in.
Chars == {kblookup[c][i] : c \in Codes, i \in {1, 2}}
IsDecoder(d) ==
    /\ d \in Stages /\ d.n = Len(echoed)
    /\ d.keyup <=> kb.keyup
    /\ d.shift <=> kb.shift
    /\ d.caps <=> kb.caps
IsKeyboard(e) ==
    /\ e \in Stages /\ e.n = Len(expected) /\ ~e.keyup
    /\ e.shift <=> <<FALSE, "shift">> \in held
    /\ e.caps <=> capsOn
EchoedDue ==
    /\ echoed \in Seq(Chars) /\ expected \in Seq(Chars) /\ capsOn \in BOOLEAN
    /\ Len(echoed) <= Len(expected) /\ \A i \in 1 .. Len(echoed) : echoed[i] = expected[i]
TypingInv == EchoedDue /\ \E d, e : IsDecoder(d) /\ IsKeyboard(e) /\ Decodes(Flight, d, e, expected)

\* Releases, prefixes, qualifiers and acknowledges type nothing.
LEMMA NoChars ==
    ASSUME NEW d, NEW x, x \notin Codes \/ x \in {"shift", "caps", Ack} \/ d.keyup
    PROVE  CharOf(d, x) = NoChar
<1>1. \A c \in Codes : c \in {"shift", "caps", Ack} => kblookup[c] = <<NoChar, NoChar>>
  BY KeyboardAssumption
<1> QED
  BY <1>1 DEF CharOf

\* The keys with shift's code are one.
LEMMA ShiftKey == ASSUME NEW k \in Keys PROVE <<FALSE, "shift">> \in {k} <=> k[2] = "shift"
<1>1. k \in BOOLEAN \X Codes /\ <<TRUE, "shift">> \notin Keys
  BY ConsoleAssumption
<1>2. PICK b \in BOOLEAN, c \in Codes : k = <<b, c>>
  BY <1>1
<1>3. k[2] = c
  BY <1>2
<1>4. CASE b
  <2>1. b = TRUE
    BY <1>4, Zenon
  <2>2. c # "shift"
    BY <1>1, <1>2, <2>1
  <2> QED
    BY <1>2, <1>3, <2>1, <2>2
<1>5. CASE ~b
  <2>1. b = FALSE
    BY <1>2, <1>5, Zenon
  <2> QED
    BY <1>2, <1>3, <2>1
<1> QED
  BY <1>4, <1>5

LEMMA TypingInitially == ConsoleInit => TypingInv
<1> SUFFICES ASSUME ConsoleInit PROVE TypingInv
  OBVIOUS
<1>1. /\ ring = <<>> /\ sending = <<>> /\ echoed = <<>> /\ expected = <<>> /\ capsOn = FALSE /\ held = {}
      /\ kb.keyup = FALSE /\ kb.shift = FALSE /\ kb.caps = FALSE
  BY DEF ConsoleInit, KeysInit
<1>2. PICK g \in Stages : /\ g.keyup <=> FALSE
                          /\ g.shift <=> FALSE
                          /\ g.caps <=> FALSE
                          /\ g.n = 0
  <2>1. FALSE \in BOOLEAN /\ 0 \in Nat
    OBVIOUS
  <2> QED
    BY <2>1, StageWith
<1>3. IsDecoder(g) /\ IsKeyboard(g)
  BY <1>1, <1>2 DEF IsDecoder, IsKeyboard
<1>4. Decodes(Flight, g, g, expected)
  <2>1. PICK s : s = Flight /\ Len(s) = 0
    BY <1>1 DEF Flight
  <2>2. PICK run : run = [i \in 1 .. 0 + 1 |-> g]
    OBVIOUS
  <2>3. run \in [1 .. 0 + 1 -> Stages] /\ run[1] = g /\ run[0 + 1] = g
    BY <2>2
  <2> QED
    BY <2>1, <2>3 DEF Decodes
<1>5. EchoedDue
  <2>1. capsOn \in BOOLEAN
    BY <1>1
  <2>2. <<>> \in Seq(Chars) /\ Len(<<>>) = 0
    OBVIOUS
  <2>3. Len(echoed) = 0 /\ Len(expected) = 0 /\ echoed \in Seq(Chars) /\ expected \in Seq(Chars)
    BY <1>1, <2>2
  <2>4. \A i \in 1 .. Len(echoed) : FALSE
    BY <2>3
  <2> QED
    BY <2>1, <2>3, <2>4 DEF EchoedDue
<1> QED
  BY <1>3, <1>4, <1>5 DEF TypingInv

LEMMA TypingKept ==
    ASSUME TypingInv, Flight' = Flight, UNCHANGED <<held, capsOn, expected, echoed>>,
           kb'.keyup = kb.keyup, kb'.shift = kb.shift, kb'.caps = kb.caps
    PROVE  TypingInv'
<1>1. \A d : IsDecoder(d) => IsDecoder(d)'
  BY DEF IsDecoder
<1>2. \A e : IsKeyboard(e) => IsKeyboard(e)'
  BY DEF IsKeyboard
<1>3. EchoedDue'
  BY DEF TypingInv, EchoedDue
<1> QED
  BY <1>1, <1>2, <1>3 DEF TypingInv

\* The acknowledge of a byte types nothing.
LEMMA TypingAck ==
    ASSUME KeyInv, TypingInv, UNCHANGED <<ring, held, capsOn, expected, echoed, kb>>, sending' = Append(sending, Ack)
    PROVE  TypingInv'
<1>1. PICK d, e : IsDecoder(d) /\ IsKeyboard(e) /\ Decodes(Flight, d, e, expected)
  BY DEF TypingInv
<1>2. Flight' = Append(Flight, Ack) /\ Flight \in Seq(Wire) /\ Ack \in Wire
  BY FlightType, NoPrefixInCodes DEF KeyInv, CodesOK, Flight
<1>3. e \in Stages /\ CharOf(e, Ack) = NoChar
  BY <1>1, NoChars DEF IsKeyboard
<1>4. PICK g \in Stages : Takes(e, Ack, g, expected)
  BY <1>3, TakesSome
<1>5. Ack # KeyUp /\ Ack # Ext /\ Ack # "shift" /\ Ack # "caps"
  BY DEF Ack, KeyUp, Ext
<1>6. IsKeyboard(g)'
  BY <1>1, <1>3, <1>4, <1>5 DEF Takes, IsKeyboard
<1>7. IsDecoder(d)' /\ EchoedDue'
  BY <1>1 DEF IsDecoder, EchoedDue, TypingInv
<1>8. Decodes(Append(Flight, Ack), d, g, expected)
  BY <1>1, <1>2, <1>4, DecodesMore
<1> QED
  BY <1>2, <1>6, <1>7, <1>8 DEF TypingInv

\* A prefix behind a whole sequence: extended or not.
LEMMA DecodesPrefix ==
    ASSUME NEW s \in Seq(Wire), NEW d, NEW e \in Stages, NEW due, ~e.keyup, NEW t,
           Decodes(s, d, e, due), t = s \/ t = Append(s, Ext)
    PROVE  \E f \in Stages : /\ Decodes(t, d, f, due) /\ t \in Seq(Wire)
                             /\ ~f.keyup /\ f.n = e.n
                             /\ f.shift <=> e.shift
                             /\ f.caps <=> e.caps
<1>1. CASE t = s
  BY <1>1
<1>2. CASE t = Append(s, Ext)
  <2>1. Ext \in Wire /\ Ext \notin Codes /\ Ext # KeyUp /\ Ext # "shift" /\ Ext # "caps"
    BY KeyboardAssumption DEF Wire, Ext, KeyUp
  <2>2. CharOf(e, Ext) = NoChar
    BY <2>1, NoChars
  <2>3. PICK f \in Stages : Takes(e, Ext, f, due)
    BY <2>2, TakesSome
  <2>4. Decodes(t, d, f, due) /\ t \in Seq(Wire)
    BY <1>2, <2>1, <2>3, DecodesMore
  <2> QED
    BY <2>1, <2>2, <2>3, <2>4 DEF Takes
<1> QED
  BY <1>1, <1>2

LEMMA TypingPress == ASSUME KeyInv, TypingInv, NEW k \in Keys, Press(k) PROVE TypingInv'
<1>1. PICK x : x = k[2]
  OBVIOUS
<1>2. /\ sending = <<>> /\ held' = held \union {k} /\ sending' = Make(k) /\ expected' = expected \o Due(k)
      /\ capsOn' = (IF x = "caps" THEN ~capsOn ELSE capsOn) /\ UNCHANGED <<ring, kb, echoed>>
  BY <1>1 DEF Press, outputs
<1>3. /\ x \in Codes /\ x \in Wire /\ x # KeyUp /\ x # Ext
      /\ <<FALSE, "shift">> \in {k} <=> x = "shift"
  <2>1. x \in Codes /\ x \in Wire /\ x # KeyUp /\ x # Ext
    BY <1>1, ConsoleAssumption, KeyboardAssumption DEF Wire, Plain
  <2> QED
    BY <1>1, <2>1, ShiftKey
<1>4. PICK d, e : IsDecoder(d) /\ IsKeyboard(e) /\ Decodes(Flight, d, e, expected)
  BY DEF TypingInv
<1>5. PICK t : (t = Flight \/ t = Append(Flight, Ext)) /\ Flight' = Append(t, x) /\ Flight \in Seq(Wire)
  <2>1. ring \in Seq(Wire) /\ Flight = ring /\ Flight' = ring \o Make(k)
    BY <1>2 DEF KeyInv, CodesOK, Flight
  <2>2. Ext \in Wire
    BY DEF Wire
  <2>3. CASE k[1]
    <3>1. Flight' = Append(Append(Flight, Ext), x)
      BY <1>1, <1>3, <2>1, <2>2, <2>3 DEF Make
    <3> QED
      BY <2>1, <3>1
  <2>4. CASE ~k[1]
    <3>1. Flight' = Append(Flight, x)
      BY <1>1, <1>3, <2>1, <2>4 DEF Make
    <3> QED
      BY <2>1, <3>1
  <2> QED
    BY <2>3, <2>4
<1>6. e \in Stages /\ ~e.keyup
  BY <1>4 DEF IsKeyboard
<1>7. PICK f \in Stages : /\ Decodes(t, d, f, expected) /\ t \in Seq(Wire)
                          /\ ~f.keyup /\ f.n = e.n
                          /\ f.shift <=> e.shift
                          /\ f.caps <=> e.caps
  BY <1>4, <1>5, <1>6, DecodesPrefix
<1>8. PICK c : c = CharOf(f, x)
  OBVIOUS
<1>9. c \in Chars /\ Due(k) = (IF c = NoChar THEN <<>> ELSE <<c>>)
  <2>1. c = kblookup[x][IF capsOn \/ <<FALSE, "shift">> \in held THEN 2 ELSE 1]
    BY <1>3, <1>4, <1>7, <1>8 DEF CharOf, IsKeyboard
  <2>2. c \in Chars
    BY <1>3, <2>1 DEF Chars
  <2> QED
    BY <1>1, <2>1, <2>2 DEF Due
<1>10. expected \in Seq(Chars) /\ Len(expected) \in Nat /\ f.n = Len(expected)
  BY <1>4, <1>7 DEF TypingInv, EchoedDue, IsKeyboard
<1>11. expected' = (IF c = NoChar THEN expected ELSE Append(expected, c))
  BY <1>2, <1>9, <1>10
<1>12. /\ expected' \in Seq(Chars) /\ Len(expected') = (IF c = NoChar THEN f.n ELSE f.n + 1)
       /\ c # NoChar => expected'[f.n + 1] = c
       /\ \A i \in 1 .. Len(expected) : expected'[i] = expected[i]
  BY <1>9, <1>10, <1>11
<1>13. PICK g \in Stages : Takes(f, x, g, expected')
  <2>1. CharOf(f, x) # NoChar => f.n + 1 <= Len(expected') /\ expected'[f.n + 1] = CharOf(f, x)
    BY <1>8, <1>10, <1>12
  <2> QED
    BY <2>1, TakesSome
<1>14. Decodes(t, d, f, expected')
  BY <1>7, <1>9, <1>10, <1>11, DecodesDue
<1>15. Decodes(Append(t, x), d, g, expected')
  BY <1>3, <1>7, <1>13, <1>14, DecodesMore
<1>16. IsKeyboard(g)'
  <2>1. g.n = Len(expected') /\ ~g.keyup
    BY <1>3, <1>7, <1>8, <1>12, <1>13 DEF Takes
  <2>2. g.shift <=> <<FALSE, "shift">> \in held'
    BY <1>2, <1>3, <1>4, <1>7, <1>13 DEF Takes, IsKeyboard
  <2>3. g.caps <=> capsOn'
    BY <1>2, <1>4, <1>7, <1>13 DEF Takes, IsKeyboard
  <2> QED
    BY <2>1, <2>2, <2>3 DEF IsKeyboard
<1>17. IsDecoder(d)'
  BY <1>2, <1>4 DEF IsDecoder
<1>18. EchoedDue'
  <2>1. Len(echoed) <= Len(expected) /\ Len(echoed) \in Nat /\ Len(expected) <= Len(expected')
    BY <1>10, <1>12 DEF TypingInv, EchoedDue
  <2>2. \A i \in 1 .. Len(echoed) : i \in 1 .. Len(expected)
    BY <1>10, <2>1
  <2>3. capsOn' \in BOOLEAN
    <3>1. capsOn \in BOOLEAN
      BY DEF TypingInv, EchoedDue
    <3> QED
      BY <1>2, <3>1
  <2>4. \A i \in 1 .. Len(echoed) : echoed[i] = expected'[i]
    BY <1>12, <2>2 DEF TypingInv, EchoedDue
  <2>5. echoed \in Seq(Chars) /\ Len(echoed) <= Len(expected')
    <3>1. Len(expected') \in Nat /\ Len(expected) \in Nat
      BY <1>10, <1>12
    <3> QED
      BY <2>1, <3>1 DEF TypingInv, EchoedDue
  <2> QED
    BY <1>2, <1>12, <2>3, <2>4, <2>5 DEF EchoedDue
<1> QED
  BY <1>5, <1>15, <1>16, <1>17, <1>18 DEF TypingInv

LEMMA TypingRelease == ASSUME KeyInv, TypingInv, NEW k \in Keys, Release(k) PROVE TypingInv'
<1>1. PICK x : x = k[2]
  OBVIOUS
<1>2. /\ sending = <<>> /\ k \in held /\ held' = held \ {k} /\ sending' = Break(k)
      /\ UNCHANGED <<ring, kb, echoed, expected, capsOn>>
  BY DEF Release, outputs
<1>3. /\ x \in Codes /\ x \in Wire /\ x # KeyUp /\ x # Ext
      /\ <<FALSE, "shift">> \in {k} <=> x = "shift"
  <2>1. x \in Codes /\ x \in Wire /\ x # KeyUp /\ x # Ext
    BY <1>1, ConsoleAssumption, KeyboardAssumption DEF Wire, Plain
  <2> QED
    BY <1>1, <2>1, ShiftKey
<1>4. PICK d, e : IsDecoder(d) /\ IsKeyboard(e) /\ Decodes(Flight, d, e, expected)
  BY DEF TypingInv
<1>5. PICK t : /\ t = Flight \/ t = Append(Flight, Ext)
               /\ Flight' = Append(Append(t, KeyUp), x) /\ Flight \in Seq(Wire)
  <2>1. ring \in Seq(Wire) /\ Flight = ring /\ Flight' = ring \o Break(k)
    BY <1>2 DEF KeyInv, CodesOK, Flight
  <2>2. Ext \in Wire /\ KeyUp \in Wire
    BY DEF Wire, Plain
  <2>3. CASE k[1]
    <3>1. Flight' = Append(Append(Append(Flight, Ext), KeyUp), x)
      BY <1>1, <1>3, <2>1, <2>2, <2>3 DEF Break
    <3> QED
      BY <2>1, <3>1
  <2>4. CASE ~k[1]
    <3>1. Flight' = Append(Append(Flight, KeyUp), x)
      BY <1>1, <1>3, <2>1, <2>2, <2>4 DEF Break
    <3> QED
      BY <2>1, <3>1
  <2> QED
    BY <2>3, <2>4
<1>6. e \in Stages /\ ~e.keyup
  BY <1>4 DEF IsKeyboard
<1>7. PICK f \in Stages : /\ Decodes(t, d, f, expected) /\ t \in Seq(Wire)
                          /\ ~f.keyup /\ f.n = e.n
                          /\ f.shift <=> e.shift
                          /\ f.caps <=> e.caps
  BY <1>4, <1>5, <1>6, DecodesPrefix
<1>8. KeyUp \in Wire /\ KeyUp \notin Codes /\ KeyUp # "shift" /\ KeyUp # "caps"
  BY KeyboardAssumption DEF Wire, Plain, KeyUp
<1>9. PICK up \in Stages : Takes(f, KeyUp, up, expected)
  <2>1. CharOf(f, KeyUp) = NoChar
    BY <1>8, NoChars
  <2> QED
    BY <2>1, TakesSome
<1>10. /\ up.keyup /\ up.n = f.n
       /\ up.shift <=> f.shift
       /\ up.caps <=> f.caps
  <2>1. CharOf(f, KeyUp) = NoChar
    BY <1>8, NoChars
  <2> QED
    BY <1>8, <1>9, <2>1 DEF Takes
<1>11. CharOf(up, x) = NoChar
  BY <1>10, NoChars
<1>12. PICK g \in Stages : Takes(up, x, g, expected)
  BY <1>11, TakesSome
<1>13. PICK u : u = Append(t, KeyUp)
  OBVIOUS
<1>14. Decodes(u, d, up, expected) /\ u \in Seq(Wire)
  BY <1>7, <1>8, <1>9, <1>13, DecodesMore
<1>15. Decodes(Append(u, x), d, g, expected)
  BY <1>3, <1>12, <1>14, DecodesMore
<1>16. IsKeyboard(g)'
  <2>1. g.n = Len(expected) /\ ~g.keyup
    BY <1>3, <1>4, <1>7, <1>10, <1>11, <1>12 DEF Takes, IsKeyboard
  <2>2. g.shift <=> <<FALSE, "shift">> \in held'
    BY <1>2, <1>3, <1>4, <1>7, <1>10, <1>12 DEF Takes, IsKeyboard
  <2>3. g.caps <=> capsOn
    BY <1>4, <1>7, <1>10, <1>12 DEF Takes, IsKeyboard
  <2> QED
    BY <1>2, <2>1, <2>2, <2>3 DEF IsKeyboard
<1>17. IsDecoder(d)' /\ EchoedDue'
  BY <1>2, <1>4 DEF IsDecoder, EchoedDue, TypingInv
<1> QED
  BY <1>2, <1>5, <1>13, <1>15, <1>16, <1>17 DEF TypingInv

LEMMA TypingCode == ASSUME KeyInv, TypingInv, Code PROVE TypingInv'
<1>1. PICK code, c : code = Head(ring) /\ c = Echo(kb, code)
  OBVIOUS
<1>2. /\ ring # <<>> /\ ring' = Tail(ring) /\ kb' = Decoded(kb, code)
      /\ UNCHANGED <<held, sending, capsOn, expected>>
      /\ echoed' = IF c = NoChar THEN echoed ELSE Append(echoed, c)
  BY <1>1 DEF Code, keyboardVars, outputs
<1>3. PICK d, e : IsDecoder(d) /\ IsKeyboard(e) /\ Decodes(Flight, d, e, expected)
  BY DEF TypingInv
<1>4. /\ Flight \in Seq(Wire) /\ Flight # <<>> /\ Flight[1] = code /\ Flight' = Tail(Flight) /\ code \in Wire
  BY <1>1, <1>2, FlightType DEF KeyInv, CodesOK, Flight
<1>5. PICK g \in Stages : Takes(d, code, g, expected) /\ Decodes(Tail(Flight), g, e, expected)
  BY <1>3, <1>4, DecodesFirst
<1>6. /\ kb'.keyup <=> code = KeyUp \/ (code = Ext /\ d.keyup)
      /\ kb'.shift <=> IF code = "shift" THEN ~d.keyup ELSE d.shift
      /\ kb'.caps <=> IF code = "caps" /\ ~d.keyup THEN ~d.caps ELSE d.caps
      /\ c = CharOf(d, code)
  BY <1>1, <1>2, <1>3, <1>4, TypeDecoding DEF KeyInv, IsDecoder
<1>7. /\ echoed \in Seq(Chars) /\ expected \in Seq(Chars) /\ capsOn \in BOOLEAN
      /\ Len(echoed) <= Len(expected) /\ \A i \in 1 .. Len(echoed) : echoed[i] = expected[i]
      /\ d.n = Len(echoed)
  BY <1>3 DEF TypingInv, EchoedDue, IsDecoder
<1>8. CASE c = NoChar
  <2>1. IsDecoder(g)'
    BY <1>2, <1>5, <1>6, <1>7, <1>8 DEF IsDecoder, Takes
  <2>2. EchoedDue' /\ IsKeyboard(e)'
    BY <1>2, <1>3, <1>7, <1>8 DEF EchoedDue, IsKeyboard
  <2> QED
    BY <1>2, <1>4, <1>5, <2>1, <2>2 DEF TypingInv
<1>9. CASE c # NoChar
  <2>1. g.n = d.n + 1 /\ g.n <= Len(expected) /\ expected[g.n] = c
    BY <1>5, <1>6, <1>9 DEF Takes
  <2>2. c \in Chars
    <3>1. PICK m : m = Len(echoed) /\ m \in Nat
      BY <1>7
    <3>2. m + 1 \in 1 .. Len(expected) /\ expected[m + 1] = c
      BY <1>7, <2>1, <3>1
    <3> QED
      BY <1>7, <3>2
  <2>3. /\ echoed' \in Seq(Chars) /\ Len(echoed') = Len(echoed) + 1 /\ echoed'[Len(echoed) + 1] = c
        /\ \A i \in 1 .. Len(echoed) : echoed'[i] = echoed[i]
    BY <1>2, <1>7, <1>9, <2>2
  <2>4. IsDecoder(g)'
    BY <1>5, <1>6, <1>7, <2>1, <2>3 DEF IsDecoder, Takes
  <2>5. EchoedDue'
    <3>1. \A i \in 1 .. Len(echoed) + 1 : i = Len(echoed) + 1 \/ i \in 1 .. Len(echoed)
      BY <1>7
    <3> QED
      BY <1>2, <1>7, <2>1, <2>3, <3>1 DEF EchoedDue
  <2>6. IsKeyboard(e)'
    BY <1>2, <1>3 DEF IsKeyboard
  <2> QED
    BY <1>2, <1>4, <1>5, <2>4, <2>5, <2>6 DEF TypingInv
<1> QED
  BY <1>8, <1>9

LEMMA TypingOther ==
    ASSUME KeyInv, TypingInv, Send \/ VBlank \/ HandlerEnds \/ LightsSent \/ WriteOne \/ Written \/ Tested
                              \/ (\E code \in TestKeys : Test(code)) \/ UNCHANGED consoleVars
    PROVE  TypingInv'
<1>1. CASE Send
  <2>1. /\ sending # <<>> /\ ring' = Append(ring, Head(sending)) /\ sending' = Tail(sending)
        /\ UNCHANGED <<held, capsOn, expected, echoed, kb>>
    BY <1>1 DEF Send, outputs
  <2>2. ring \in Seq(Wire) /\ sending \in Seq(Wire)
    BY DEF KeyInv, CodesOK
  <2>3. ring' \o sending' = ring \o sending
    BY <2>1, <2>2
  <2> QED
    BY <2>1, <2>3, TypingKept DEF Flight
<1>2. CASE Tested
  <2>1. PICK i : i = keyidx(FALSE, main.code)
    OBVIOUS
  <2>2. kb' = [kb EXCEPT !.table[i].since = FALSE] /\ UNCHANGED <<held, capsOn, expected, echoed, sending, ring>>
    BY <1>2, <2>1 DEF Tested, keyboardVars, outputs
  <2>3. kb'.keyup = kb.keyup /\ kb'.shift = kb.shift /\ kb'.caps = kb.caps
    BY <2>2 DEF KeyInv, KeysOK
  <2> QED
    BY <2>2, <2>3, TypingKept DEF Flight
<1>3. CASE /\ VBlank \/ HandlerEnds \/ LightsSent \/ WriteOne \/ Written
              \/ (\E code \in TestKeys : Test(code)) \/ UNCHANGED consoleVars
  <2>1. /\ UNCHANGED <<held, capsOn, expected, echoed, ring, kb>>
        /\ sending' = sending \/ sending' = Append(sending, Ack)
    BY <1>3 DEF VBlank, HandlerEnds, LightsSent, WriteOne, Written, Test, consoleVars, keyboardVars, outputs
  <2>2. CASE sending' = sending
    BY <2>1, <2>2, TypingKept DEF Flight
  <2> QED
    BY <2>1, <2>2, TypingAck
<1> QED
  BY <1>1, <1>2, <1>3

\* Each character typed is echoed once, in the order of the keys and the case of
\* its moment, for any keys, prefixes, repeats and nested interrupts.
THEOREM EchoedInOrder == ConsoleSpec => []Typewritten
<1>1. ConsoleInit => KeyInv /\ TypingInv
  BY KeysInitially, TypingInitially
<1>2. KeyInv /\ TypingInv /\ [ConsoleNext]_consoleVars => (KeyInv /\ TypingInv)'
  BY KeyInvStep, TypingPress, TypingRelease, TypingCode, TypingOther DEF ConsoleNext, Works
<1>3. TypingInv => Typewritten
  <2> SUFFICES ASSUME TypingInv PROVE Typewritten
    OBVIOUS
  <2>1. /\ echoed \in Seq(Chars) /\ expected \in Seq(Chars)
        /\ Len(echoed) <= Len(expected) /\ \A i \in 1 .. Len(echoed) : echoed[i] = expected[i]
    BY DEF TypingInv, EchoedDue
  <2>2. IsPrefix(echoed, expected)
    BY <2>1 DEF IsPrefix
  <2>3. ASSUME Quiet PROVE echoed = expected
    <3>1. PICK d, e : IsDecoder(d) /\ IsKeyboard(e) /\ Decodes(Flight, d, e, expected)
      BY DEF TypingInv
    <3>2. Flight = <<>>
      BY <2>3 DEF Quiet, Flight
    <3>3. d = e
      BY <3>1, <3>2 DEF Decodes
    <3>4. Len(echoed) = Len(expected)
      BY <3>1, <3>3 DEF IsDecoder, IsKeyboard
    <3> QED
      BY <2>1, <3>4
  <2> QED
    BY <2>2, <2>3 DEF Typewritten
<1> QED
  BY <1>1, <1>2, <1>3, PTL DEF ConsoleSpec

=============================================================================
