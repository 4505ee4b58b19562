-------------------------------- MODULE Files --------------------------------
(***************************************************************************)
(* Firmware_Common/rafile.c and the file calls of syscalls.c, over the FAT *)
(* file system and the card.  One program makes one call at a time; a call *)
(* takes a step for each sector it goes through.  A byte is the sector it  *)
(* comes from and its place there.                                         *)
(***************************************************************************)
EXTENDS FatFile

CONSTANTS
    Slots,       \* entries 1 .. MAX_FILES-1 of Files; descriptor fd is entry fd-2
    Blocks,      \* what malloc can give out for an RAFile
    B,           \* 512: bytes per sector
    ReadSizes,   \* sizes asked for
    Offsets,     \* offsets asked for
    ShortReads   \* the program reads less than a sector in mid-sector

ASSUME FilesAssumption ==
    /\ Slots \subseteq Nat /\ Blocks \subseteq Nat /\ B \in Nat \ {0}
    /\ ReadSizes \subseteq Nat \ {0} /\ Offsets \subseteq Nat /\ ShortReads \in BOOLEAN

VARIABLES
    Files,          \* [Slots -> Blocks \union {None}]
    ra,             \* what the blocks hold: [file, ptr, buffer]
    allocated,      \* blocks given out by malloc
    sector_buffer,  \* the sector it was read from
    call,           \* the call being carried out
    open,           \* history: the file each live descriptor stands for
    pos,            \* history: where in it the program is
    astray          \* history: descriptors that have met a failure; they are only closed

tableVars == <<Files, allocated, open>>
vars == <<sdVars, volume, fat, ra, sector_buffer, call, pos, astray, tableVars>>

Pc(pc) == [pc |-> pc]
Idle == Pc("idle")
NoFile == ""
Blank == [file |-> [start |-> 0, cluster |-> 0, sector |-> 0], ptr |-> 0, buffer |-> None]

Init ==
    /\ SdInit /\ volume \in Volumes /\ fat = [index |-> None, held |-> None]
    /\ Files = [s \in Slots |-> None] /\ ra = [b \in Blocks |-> Blank] /\ allocated = {}
    /\ sector_buffer = None /\ call = Pc("boot")
    /\ open = [s \in Slots |-> NoFile] /\ pos = [s \in Slots |-> 0] /\ astray = {}

\* _init_sd: the card, then the file system on it.
Boot ==
    /\ call.pc = "boot" /\ SpiInit
    /\ UNCHANGED <<volume, fat, ra, sector_buffer, call, pos, astray, tableVars>>

\* Without a partition table the first sector is the boot sector.
FindDrive ==
    /\ call.pc = "boot" /\ drv.pc \in {"done", "failed"}
    /\ \E r \in (IF sdcard_present THEN Reads(0) ELSE {[ok |-> FALSE, data |-> None]}) :
       \E s \in (IF r.ok /\ volume.boot # 0 THEN Reads(volume.boot) ELSE {r}) :
         /\ sector_buffer' = IF s.ok THEN s.data ELSE IF r.ok THEN r.data ELSE sector_buffer
         /\ call' = IF s.ok /\ s.data = volume.boot THEN Idle ELSE Pc("no filesystem")
    /\ UNCHANGED <<sdVars, volume, fat, ra, pos, astray, tableVars>>

-----------------------------------------------------------------------------
(* open                                                                    *)

Lowest(S) == CHOOSE x \in S : \A y \in S : x <= y
\* Mutant: the first entry is taken whatever it holds.
FreeSlots_any == Slots
FreeSlots == {s \in Slots : Files[s] = None}

\* With no entry or no memory left open returns -1 and nothing changes.
Open(name) ==
    /\ call = Idle /\ FreeSlots # {} /\ Blocks # allocated
    /\ LET s == Lowest(FreeSlots)
           b == Lowest(Blocks \ allocated)
       IN  /\ Files' = [Files EXCEPT ![s] = b]
           /\ allocated' = allocated \union {b}
           /\ call' = [pc |-> "open", slot |-> s, name |-> name,
                       cluster |-> IF volume.fat32 THEN volume.chain["root"][1] ELSE 0, sector |-> 0]
    /\ UNCHANGED <<sdVars, volume, fat, ra, sector_buffer, pos, astray, open>>

DirectoryLba == IF volume.fat32 THEN Lba(call.cluster, call.sector) ELSE root_directory_start + call.sector
DirectorySectors == IF volume.fat32 THEN ClusterSize ELSE volume.rootSectors
EntryLba(name) ==
    LET n == volume.where[name]
    IN  IF volume.fat32 THEN Lba(volume.chain["root"][(n \div ClusterSize) + 1], n % ClusterSize)
        ELSE root_directory_start + n

\* open gives the memory back but not the entry.
NotFound ==
    /\ call' = Idle
    /\ ra' = [ra EXCEPT ![Files[call.slot]] = Blank]
    /\ allocated' = allocated \ {Files[call.slot]}
    /\ UNCHANGED <<Files, open, pos, astray>>

Found ==
    LET s == call.slot
        start == volume.chain[call.name][1]
    IN  /\ call' = Idle
        /\ ra' = [ra EXCEPT ![Files[s]].file = [start |-> start, cluster |-> start, sector |-> 0],
                            ![Files[s]].ptr = 0]
        /\ open' = [open EXCEPT ![s] = call.name]
        /\ UNCHANGED <<Files, allocated, pos, astray>>

\* FileOpen looks at what the buffer holds, read or not.
OpenSector ==
    /\ call.pc = "open"
    /\ \E r \in Reads(DirectoryLba) : sector_buffer' = IF r.ok THEN r.data ELSE sector_buffer
    /\ \/ sector_buffer' = EntryLba(call.name) /\ Found
       \/ /\ sector_buffer' # EntryLba(call.name)
          /\ \/ /\ call.sector + 1 < DirectorySectors
                /\ call' = [call EXCEPT !.sector = @ + 1]
                /\ UNCHANGED <<ra, pos, astray, tableVars>>
             \/ /\ call.sector + 1 = DirectorySectors /\ volume.fat32
                /\ call' = [call EXCEPT !.pc = "link"]
                /\ UNCHANGED <<ra, pos, astray, tableVars>>
             \/ call.sector + 1 = DirectorySectors /\ ~volume.fat32 /\ NotFound
    /\ UNCHANGED <<sdVars, volume, fat>>

OpenLink(ok) ==
    /\ call.pc = "link"
    /\ \E l \in GetFATLink(call.cluster) :
         /\ l.ok = ok /\ fat' = l.fat
         /\ \/ IsEnd(l.link) /\ NotFound
            \/ /\ ~IsEnd(l.link)
               /\ call' = [call EXCEPT !.pc = "open", !.cluster = l.link, !.sector = 0]
               /\ UNCHANGED <<ra, pos, astray, tableVars>>
    /\ UNCHANGED <<sdVars, volume, sector_buffer>>

Live == {s \in Slots : open[s] # NoFile}

\* The entry keeps the address of the memory it gives back.
Close(s) ==
    /\ call = Idle /\ s \in Live
    /\ allocated' = allocated \ {Files[s]} /\ open' = [open EXCEPT ![s] = NoFile]
    /\ pos' = [pos EXCEPT ![s] = 0] /\ astray' = astray \ {s}
    /\ UNCHANGED <<sdVars, volume, fat, ra, sector_buffer, call, Files>>

-----------------------------------------------------------------------------
(* RARead                                                                  *)

Bytes(sector, first, count) == [i \in 1 .. count |-> <<sector, first + i - 1>>]
Extent(name) == Len(volume.chain[name]) * ClusterSize * B

\* How much of the buffer is used up, which may be less than nothing.
\* Mutant: the buffer is not looked at.
Drained_never(f, n) == 0
Drained(f, n) ==
    IF f.ptr % B = 0 THEN 0 ELSE (IF n > B THEN B ELSE n) - (f.ptr % B)

\* Nothing compares with the size of the file: the program has to.
Read(s, n) ==
    /\ call = Idle /\ s \in Live \ astray /\ pos[s] + n <= Extent(open[s])
    /\ LET f == ra[Files[s]]
       IN  /\ ShortReads \/ f.ptr % B = 0 \/ n >= B
           /\ ra' = [ra EXCEPT ![Files[s]].ptr = @ + Drained(f, n)]
           /\ call' = [pc |-> "read", slot |-> s, asked |-> n, left |-> n - Drained(f, n), ok |-> TRUE,
                       got |-> Bytes(f.buffer, f.ptr % B, Drained(f, n))]
    /\ UNCHANGED <<sdVars, volume, fat, sector_buffer, pos, astray, tableVars>>

\* A sector straight to the program, or, for less than a sector, through the
\* buffer.  What FileNextSector returns is not looked at.
ReadSector ==
    /\ call.pc = "read" /\ call.left > 0
    /\ LET b == Files[call.slot]
           f == ra[b]
           count == IF call.left >= B THEN B ELSE call.left
       IN  \E r \in FileRead(f.file), x \in FileNextSector(f.file) :
             LET buffer == IF call.left < B /\ r.ok THEN r.data ELSE f.buffer
             IN  /\ ra' = [ra EXCEPT ![b] = [file |-> x.file, ptr |-> f.ptr + count, buffer |-> buffer]]
                 /\ fat' = x.fat
                 /\ call' = [call EXCEPT !.left = @ - count, !.ok = @ /\ r.ok,
                                         !.got = @ \o Bytes(IF call.left < B THEN buffer ELSE r.data, 0, count)]
                 /\ astray' = astray \union (IF r.ok /\ x.ok THEN {} ELSE {call.slot})
    /\ UNCHANGED <<sdVars, volume, sector_buffer, pos, tableVars>>

ReadReturns ==
    /\ call.pc = "read" /\ call.left = 0
    /\ call' = Idle /\ pos' = [pos EXCEPT ![call.slot] = @ + call.asked]
    /\ UNCHANGED <<sdVars, volume, fat, ra, sector_buffer, astray, tableVars>>

-----------------------------------------------------------------------------
(* RASeek                                                                  *)

\* Nothing stops a walk that starts from the end of the chain.
Lost(f, ok) == ~ok \/ IsEnd(f.cluster)

\* A byte offset, rounded down to a sector, where FileSeek counts sectors.
Wanted(offset) == offset - (offset % B)
Lands(offset) == (Wanted(offset) * B) + (offset % B)

\* The program seeks within the file.
Seek(s, offset, current) ==
    /\ call = Idle /\ s \in Live \ astray
    /\ LET f == ra[Files[s]]
           to == IF current THEN offset + f.ptr ELSE offset
       IN  /\ to <= Extent(open[s])
           /\ ra' = [ra EXCEPT ![Files[s]].file = Rewound(f.file, Wanted(to))]
           /\ call' = [pc |-> "seek", slot |-> s, to |-> to]
    /\ UNCHANGED <<sdVars, volume, fat, sector_buffer, pos, astray, tableVars>>

\* lseek does not look at what RASeek returns.
SeekWalks ==
    /\ call.pc = "seek"
    /\ LET b == Files[call.slot]
       IN  /\ ~SameCluster(ra[b].file.sector, Wanted(call.to))
           /\ \E x \in SeekStep(ra[b].file) :
                /\ fat' = x.fat
                /\ call' = IF x.ok THEN call ELSE Idle
                /\ ra' = [ra EXCEPT ![b].file = x.file, ![b].ptr = IF x.ok THEN @ ELSE call.to]
                /\ astray' = astray \union (IF Lost(ra[b].file, x.ok) THEN {call.slot} ELSE {})
    /\ UNCHANGED <<sdVars, volume, sector_buffer, pos, tableVars>>

SeekLands ==
    /\ call.pc = "seek"
    /\ LET s == call.slot
           b == Files[s]
           f == [ra[b].file EXCEPT !.sector = Wanted(call.to)]
       IN  /\ SameCluster(ra[b].file.sector, Wanted(call.to))
           /\ IF call.to % B = 0
              THEN ra' = [ra EXCEPT ![b].file = f, ![b].ptr = call.to] /\ UNCHANGED <<fat, astray>>
              ELSE \E r \in FileRead(f), x \in FileNextSector(f) :
                     /\ ra' = [ra EXCEPT ![b] = [file |-> x.file, ptr |-> call.to,
                                                 buffer |-> IF r.ok THEN r.data ELSE @.buffer]]
                     /\ fat' = x.fat
                     /\ astray' = astray \union (IF Lost(f, r.ok /\ x.ok) THEN {s} ELSE {})
           /\ pos' = [pos EXCEPT ![s] = Lands(call.to)]
    /\ call' = Idle
    /\ UNCHANGED <<sdVars, volume, sector_buffer, tableVars>>

-----------------------------------------------------------------------------
Continue == Boot \/ FindDrive \/ OpenSector \/ OpenLink(TRUE) \/ OpenLink(FALSE)
            \/ ReadSector \/ ReadReturns \/ SeekWalks \/ SeekLands
Next ==
    \/ Continue
    \/ \E name \in Names : Open(name)
    \/ \E s \in Slots :
         \/ Close(s)
         \/ \E n \in ReadSizes : Read(s, n)
         \/ \E o \in Offsets, current \in BOOLEAN : Seek(s, o, current)

\* The card does not fail every time it is asked for a link.
Spec == Init /\ [][Next]_vars /\ WF_vars(Continue) /\ SF_vars(OpenLink(TRUE))

-----------------------------------------------------------------------------
TypeOK ==
    /\ SdTypeOK /\ volume \in Volumes
    /\ fat.index \in -1 .. LastMark
    /\ Files \in [Slots -> Blocks \union {None}] /\ allocated \subseteq Blocks
    /\ \A b \in Blocks : ra[b].file.cluster \in 0 .. LastMark /\ ra[b].ptr \in Nat
    /\ open \in [Slots -> Names \union {NoFile}] /\ astray \subseteq Slots
    /\ \A s \in Live : Files[s] \in allocated
    /\ call.pc \in {"boot", "no filesystem", "idle", "open", "link", "read", "seek"}

FileByte(name, at) ==
    LET sector == at \div B
    IN  <<Lba(volume.chain[name][(sector \div ClusterSize) + 1], sector % ClusterSize), at % B>>

\* A read that reports success has delivered the bytes of the file, from where
\* the calls before left it, whatever else was opened, closed and read between,
\* as long as the descriptor has not met a failure.
ReadsFile ==
    call.pc = "read" /\ call.left = 0 /\ call.ok /\ call.slot \notin astray =>
        call.got = [i \in 1 .. call.asked |-> FileByte(open[call.slot], pos[call.slot] + i - 1)]

\* The cursors of all open files are where the chains on the card have them,
\* though all share the one buffered sector of the FAT, and any read may fail.
CursorInChain ==
    \A s \in Live \ astray :
        LET f == ra[Files[s]].file
            chain == volume.chain[open[s]]
            n == (f.sector \div ClusterSize) + 1
        IN  /\ f.start = chain[1]
            /\ f.cluster = IF n <= Len(chain) THEN chain[n] ELSE LastMark

\* Every call returns: no walk along a directory goes round, although a link
\* that cannot be read is taken for cluster 0.
CallsReturn == call.pc \in {"open", "link", "read", "seek"} ~> call = Idle
=============================================================================
