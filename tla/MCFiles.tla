------------------------------- MODULE MCFiles -------------------------------
(* Two volumes: FAT32 with a partition table, and FAT16 without, where the  *)
(* root directory is no chain.  The chains go back and forth between the    *)
(* sectors of the FAT; the second file's entry is in the last sector of the *)
(* directory.                                                               *)
EXTENDS Files

MCChains == [root |-> <<2, 7>>, a |-> <<4, 9>>, b |-> <<6>>]
MCVolumes ==
    {[fat32 |-> TRUE, boot |-> 1, rootSectors |-> 0, chain |-> MCChains, where |-> [a |-> 0, b |-> 3]],
     [fat32 |-> FALSE, boot |-> 0, rootSectors |-> 2, chain |-> MCChains, where |-> [a |-> 0, b |-> 1]]}
MCUnanswered == [k \in Kinds |-> IF k = "hc" THEN {"CMD0", "CMD8"} ELSE {"CMD0", "CMD8", "CMD58"}]

\* Once the card is up only whether it reads right matters; what is left in
\* memory of files that are closed or astray is never looked at.
LiveState ==
    LET current == IF "slot" \in DOMAIN call THEN {call.slot} ELSE {}
        Seen(s) == LET f == ra[Files[s]]
                   IN  <<f.file, f.ptr, IF f.ptr % B = 0 \/ s \in astray THEN None ELSE f.buffer>>
        seenCall == IF current \subseteq astray /\ call.pc = "read" THEN [call EXCEPT !.got = <<>>] ELSE call
    IN  <<IF call.pc = "boot" THEN sdVars ELSE <<ReadsRightSector, card = "ready">>,
          volume, fat, sector_buffer, seenCall, open, pos, astray, allocated, FreeSlots,
          [s \in Live |-> Files[s]], [s \in (Live \ astray) \union current |-> Seen(s)]>>
=============================================================================
