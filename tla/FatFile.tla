------------------------------- MODULE FatFile -------------------------------
(***************************************************************************)
(* Firmware_Common/fat.c: the cursor of a file, the walk along its chain   *)
(* of clusters and the one sector of the FAT that is kept.  A sector's     *)
(* content is its own number: what a buffer holds is the number of the     *)
(* sector it was read from.  Operators return the set of outcomes: what    *)
(* the function returned, and the state it left.                           *)
(***************************************************************************)
EXTENDS SdCard, Integers, Sequences

CONSTANTS
    Names,         \* files of the root directory
    ClusterSize,   \* sectors per cluster
    LinksPerSector,
    FatSize,       \* sectors of the FAT
    Volumes        \* what may be on the card

None == -1
\* 0x0FFFFFFF or 0xFFFF, and the lowest mark that is also taken for an end.
LastMark == 107
LowMark == 100

Entries == Names \union {"root"}

\* boot: the boot sector, 0 if there are no partitions.  where: for each file
\* the sector of the root directory its entry is in, counted in the directory.
\* A cluster is part of one chain, and an empty file is not opened.
ASSUME FatAssumption ==
    /\ ClusterSize \in Nat \ {0, 1} /\ LinksPerSector \in Nat \ {0} /\ FatSize \in Nat \ {0}
    /\ FatSize * LinksPerSector <= LowMark
    /\ \A v \in Volumes :
         /\ v.fat32 \in BOOLEAN /\ v.boot \in Nat /\ v.rootSectors \in Nat
         /\ v.chain \in [Entries -> Seq(2 .. FatSize * LinksPerSector - 1)]
         /\ \A x \in Entries : v.chain[x] # <<>>
         /\ \A x, y \in Entries : \A i \in DOMAIN v.chain[x] : \A j \in DOMAIN v.chain[y] :
              v.chain[x][i] = v.chain[y][j] => x = y /\ i = j

VARIABLES
    volume,   \* the card's content
    fat       \* buffered_fat_index, and the sector fat_buffer was read from

fat_start == volume.boot + 1
root_directory_start == fat_start + FatSize
data_start == root_directory_start + volume.rootSectors
Lba(cluster, sector) == data_start + ClusterSize * (cluster - 2) + sector

\* The link on the card for each cluster, as the chains have it.
LinkOf(c) ==
    LET links == UNION {{x} \X DOMAIN volume.chain[x] : x \in Entries}
        at == CHOOSE p \in links : volume.chain[p[1]][p[2]] = c
    IN  IF c = 0 THEN LowMark
        ELSE IF \A p \in links : volume.chain[p[1]][p[2]] # c THEN 0
        ELSE IF at[2] = Len(volume.chain[at[1]]) THEN LastMark ELSE volume.chain[at[1]][at[2] + 1]

\* Mutant: only the usual mark counts.
IsEnd_exact(c) == c = LastMark
IsEnd(c) == c >= LowMark

\* sd_read_sector: success with what was delivered, or failure.
Reads(lba) ==
    {[ok |-> TRUE, data |-> d] : d \in Delivered(lba)} \union {[ok |-> FALSE, data |-> None]}

-----------------------------------------------------------------------------
SectorOf(c) == c \div LinksPerSector
\* fat_buffer's entry for a cluster, whatever sector it holds.
Buffered(buffer, c) ==
    LET sector == buffer - fat_start
    IN  IF sector \in 0 .. FatSize - 1 THEN LinkOf(sector * LinksPerSector + (c % LinksPerSector)) ELSE 0

\* Mutant: the index is remembered before the read that may fail.
Remembered_early(c, r) == [index |-> SectorOf(c), held |-> IF r.ok THEN r.data ELSE fat.held]
Remembered(c, r) == IF r.ok THEN [index |-> SectorOf(c), held |-> r.data] ELSE fat

\* Beyond the FAT nothing is readable.
Lookups(c) ==
    IF SectorOf(c) = fat.index THEN {[ok |-> TRUE, link |-> Buffered(fat.held, c), fat |-> fat]}
    ELSE {[ok |-> r.ok, link |-> Buffered(r.data, c), fat |-> Remembered(c, r)] :
            r \in Reads(fat_start + SectorOf(c))}

\* GetFATLink: a failure and the number 0 look alike.
GetFATLink(c) == {[l EXCEPT !.link = IF l.ok THEN @ ELSE 0] : l \in Lookups(c)}

Crossed(f) == (f.sector + 1) % ClusterSize = 0

\* A failure leaves the sector counted and the cluster of before.
FileNextSector(f) ==
    LET counted == [f EXCEPT !.sector = @ + 1]
    IN  IF ~Crossed(f) THEN {[ok |-> TRUE, file |-> counted, fat |-> fat]}
        ELSE {[ok |-> l.ok, fat |-> l.fat,
               file |-> IF l.ok THEN [counted EXCEPT !.cluster = l.link] ELSE counted] :
                l \in Lookups(f.cluster)}

FileRead(f) == Reads(Lba(f.cluster, f.sector % ClusterSize))

SameCluster(a, b) == a \div ClusterSize = b \div ClusterSize
\* FileSeek before its loop: backwards within the cluster, or from the start.
Rewound(f, offset) ==
    IF f.sector > offset
    THEN IF SameCluster(f.sector, offset) THEN [f EXCEPT !.sector = offset]
         ELSE [f EXCEPT !.cluster = f.start, !.sector = 0]
    ELSE f

\* One turn of its loop.  The mark of the last cluster, and no other, ends it.
SeekStep(f) ==
    {[ok |-> l.ok /\ l.link # LastMark, fat |-> l.fat,
      file |-> IF ~l.ok THEN f ELSE [f EXCEPT !.cluster = l.link,
                                        !.sector = IF l.link = LastMark THEN @ ELSE @ + ClusterSize]] :
       l \in Lookups(f.cluster)}
=============================================================================
