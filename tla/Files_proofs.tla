----------------------------- MODULE Files_proofs -----------------------------
(***************************************************************************)
(* Theorems about the card driver and the files over it: the sector asked  *)
(* for is the one that is read, and, for a program that does not read less *)
(* than a sector in mid-sector, what the calls on files deliver.           *)
(***************************************************************************)
EXTENDS Files, TLAPS, SequenceTheorems, WellFoundedInduction

-----------------------------------------------------------------------------
(* The card: what each step of spi_init has established by then.  A high   *)
(* capacity card does not become ready before it is known to be one.       *)

Steps == {"reset", "cmd8", "init", "initV2", "cmd58", "cmd16", "failed", "done"}
NotTaken == kind = "hc" => card # "ready"
Agreed ==
    /\ drv.pc \in {"reset", "cmd8", "init", "initV2", "cmd16"} => NotTaken
    /\ drv.pc = "cmd16" => ~SDHCtype
    /\ drv.pc = "done" =>
         IF SDHCtype THEN kind = "hc" ELSE NotTaken /\ (kind # "hc" => blocklen = 512)

CardInv ==
    /\ kind \in Kinds /\ SDHCtype \in BOOLEAN
    /\ drv \in [pc : Steps, i : Int, n : Int]
    /\ kind = "hc" => blocklen = 512
    /\ Agreed

LEMMA CardInitially == Init => CardInv
  BY SdCardAssumption DEF Init, SdInit, CardInv, Agreed, NotTaken, Steps, At

\* Where is_sdhc may return.
LEMMA Answered ==
    ASSUME CardInv, CardInv!4, NEW hc \in BOOLEAN, Answer(hc), kind' = kind, blocklen' = blocklen,
           IF hc THEN kind = "hc" ELSE (kind = "hc" => card' # "ready")
    PROVE  CardInv'
  BY DEF CardInv, Answer, Agreed, NotTaken, At, Steps

LEMMA AnotherRound ==
    ASSUME CardInv, NextRound, kind' = kind, blocklen' = blocklen, kind = "hc" => card' # "ready"
    PROVE  CardInv'
<1>1. CASE drv.i = 2
  <2>1. Answer(FALSE)
    BY <1>1 DEF NextRound
  <2> QED
    BY <2>1, Answered DEF CardInv
<1>2. CASE drv.i # 2
  <2>1. V2Inits - 1 \in Int /\ drv.i - 1 \in Int
    BY SdCardAssumption DEF CardInv
  <2> QED
    BY <1>2, <2>1 DEF NextRound, CardInv, Agreed, NotTaken, At, Steps
<1> QED
  BY <1>1, <1>2

LEMMA CardStep == ASSUME CardInv, SpiInit PROVE CardInv'
<1>. USE DEF CardInv, Agreed, NotTaken, Steps, At
<1>1. CASE Reset
  BY <1>1, SdCardAssumption DEF Reset
<1>2. CASE Cmd8
  BY <1>2, SdCardAssumption DEF Cmd8
<1>3. CASE WaitInit
  <2>1. CASE Answer(FALSE)
    BY <1>3, <2>1, Answered DEF WaitInit
  <2>2. CASE card' = card /\ drv' = [drv EXCEPT !.n = drv.n - 1] /\ SDHCtype' = SDHCtype
    BY <1>3, <2>2 DEF WaitInit
  <2> QED
    BY <1>3, <2>1, <2>2 DEF WaitInit
<1>4. CASE WaitInitV2
  <2>1. CASE NextRound /\ card' = card
    BY <1>4, <2>1, AnotherRound DEF WaitInitV2
  <2>2. CASE ~(NextRound /\ card' = card)
    BY <1>4, <2>2 DEF WaitInitV2
  <2> QED
    BY <2>1, <2>2
<1>5. CASE Cmd58
  <2>1. CASE Answer(kind = "hc")
    BY <1>5, <2>1, Answered DEF Cmd58
  <2>2. CASE MayIgnore("CMD58") /\ NextRound
    <3>1. kind # "hc"
      BY <2>2, SdCardAssumption DEF MayIgnore
    <3> QED
      BY <1>5, <2>2, <3>1, AnotherRound DEF Cmd58
  <2> QED
    BY <1>5, <2>1, <2>2 DEF Cmd58
<1>6. CASE Cmd16
  BY <1>6 DEF Cmd16, Argument
<1> QED
  BY <1>1, <1>2, <1>3, <1>4, <1>5, <1>6 DEF SpiInit

LEMMA CardKept == ASSUME CardInv, UNCHANGED sdVars PROVE CardInv'
  BY DEF sdVars, CardInv, Agreed, NotTaken

\* Files only brings the card up; it never goes back to that.
LEMMA CardNext == ASSUME CardInv, [Next]_vars PROVE CardInv'
<1>1. CASE Boot
  BY <1>1, CardStep DEF Boot
<1>2. CASE UNCHANGED sdVars
  BY <1>2, CardKept
<1>3. Boot \/ UNCHANGED sdVars
  <2>1. CASE UNCHANGED vars
    BY <2>1 DEF vars
  <2>2. CASE Continue
    BY <2>2 DEF Continue, FindDrive, OpenSector, OpenLink, ReadSector, ReadReturns, SeekWalks, SeekLands
  <2>3. CASE \E name \in Names : Open(name)
    BY <2>3 DEF Open
  <2>4. CASE \E s \in Slots : \/ Close(s) \/ \E n \in ReadSizes : Read(s, n)
                              \/ \E o \in Offsets, current \in BOOLEAN : Seek(s, o, current)
    BY <2>4 DEF Close, Read, Seek
  <2> QED
    BY <2>1, <2>2, <2>3, <2>4 DEF Next
<1> QED
  BY <1>1, <1>2, <1>3

\* With the driver done, a read delivers the sector it was asked for.
LEMMA RightSector ==
    ASSUME CardInv, sdcard_present, NEW lba \in Nat
    PROVE  Delivered(lba) \subseteq {lba}
<1>1. CASE card = "ready"
  <2>1. CASE SDHCtype
    BY <2>1 DEF CardInv, Agreed, sdcard_present, Delivered, SectorAt, Argument
  <2>2. CASE ~SDHCtype
    <3>1. kind # "hc" /\ blocklen = 512
      BY <1>1, <2>2 DEF CardInv, Agreed, NotTaken, sdcard_present
    <3>2. (lba * 512) % 512 = 0 /\ (lba * 512) \div 512 = lba
      OBVIOUS
    <3> QED
      BY <2>2, <3>1, <3>2 DEF Delivered, SectorAt, Argument
  <2> QED
    BY <2>1, <2>2
<1>2. CASE card # "ready"
  BY <1>2 DEF Delivered
<1> QED
  BY <1>1, <1>2

\* For any kind of card, any commands left without an answer and any numbers of
\* tries, a card that spi_init has accepted delivers the sector asked for.
THEOREM SectorsRight == Spec => []ReadsRightSector
<1>1. Init => CardInv
  BY CardInitially
<1>2. CardInv /\ [Next]_vars => CardInv'
  BY CardNext
<1>3. CardInv => ReadsRightSector
  BY RightSector DEF ReadsRightSector
<1> QED
  BY <1>1, <1>2, <1>3, PTL DEF Spec

-----------------------------------------------------------------------------
(* Arithmetic of sectors in a cluster and bytes in a sector.               *)

LEMMA Division ==
    ASSUME NEW a \in Nat, NEW m \in Nat \ {0}
    PROVE  a \div m \in Nat /\ a % m \in 0 .. m - 1 /\ a = m * (a \div m) + (a % m)
<1>1. a \div m \in Nat /\ a % m \in 0 .. m - 1
  OBVIOUS
<1>2. a = m * (a \div m) + (a % m)
  OBVIOUS
<1> QED
  BY <1>1, <1>2

LEMMA Quotient ==
    ASSUME NEW m \in Nat \ {0}, NEW k \in Nat, NEW r \in 0 .. m - 1
    PROVE  (k * m + r) \div m = k /\ (k * m + r) % m = r
  OBVIOUS

LEMMA StepWithin ==
    ASSUME NEW a \in Nat, NEW m \in Nat \ {0}, (a + 1) % m # 0
    PROVE  (a + 1) \div m = a \div m
  OBVIOUS

LEMMA StepAcross ==
    ASSUME NEW a \in Nat, NEW m \in Nat \ {0}, (a + 1) % m = 0
    PROVE  (a + 1) \div m = (a \div m) + 1
  OBVIOUS

LEMMA StepCluster ==
    ASSUME NEW a \in Nat, NEW m \in Nat \ {0}
    PROVE  (a + m) \div m = (a \div m) + 1
  OBVIOUS

\* A sector before the end of a file of n clusters is in one of them.
LEMMA WithinChain ==
    ASSUME NEW sector \in Nat, NEW n \in Nat, NEW m \in Nat \ {0}, NEW b \in Nat \ {0},
           sector * b < (n * m) * b
    PROVE  (sector \div m) + 1 <= n
<1>1. sector < n * m
  OBVIOUS
<1>2. (sector \div m) * m <= sector
  OBVIOUS
<1>3. (sector \div m) \in Nat
  OBVIOUS
<1>4. SUFFICES ASSUME (sector \div m) >= n PROVE FALSE
  BY <1>3
<1>5. (sector \div m) * m >= n * m
  BY <1>3, <1>4
<1> QED
  BY <1>1, <1>2, <1>3, <1>5

-----------------------------------------------------------------------------
(* Reads, and the buffered sector of the FAT.                              *)

Volume == volume \in Volumes
Booted == CardInv /\ sdcard_present /\ Volume

LEMMA ReadOf ==
    ASSUME Booted, NEW lba \in Nat, NEW r \in Reads(lba)
    PROVE  r \in [ok : BOOLEAN, data : Int] /\ (r.ok => r.data = lba)
<1>1. PICK d : (r = [ok |-> TRUE, data |-> d] /\ d \in Delivered(lba)) \/ r = [ok |-> FALSE, data |-> None]
  BY DEF Reads
<1>2. CASE r = [ok |-> FALSE, data |-> None]
  BY <1>2 DEF None
<1>3. CASE r = [ok |-> TRUE, data |-> d] /\ d \in Delivered(lba)
  <2>1. d = lba
    BY <1>3, RightSector DEF Booted
  <2> QED
    BY <1>3, <2>1
<1> QED
  BY <1>1, <1>2, <1>3

\* A sector that is none, of a file astray, is still a number.
LEMMA ReadOfAny ==
    ASSUME CardInv, NEW lba \in Int, NEW r \in Reads(lba)
    PROVE  r \in [ok : BOOLEAN, data : Int]
<1>1. PICK d : (r = [ok |-> TRUE, data |-> d] /\ d \in Delivered(lba)) \/ r = [ok |-> FALSE, data |-> None]
  BY DEF Reads
<1>2. Argument(lba) \in Int
  BY DEF Argument
<1>3. SectorAt(Argument(lba)) \in Int
  BY <1>2 DEF SectorAt, Other
<1>4. d \in Delivered(lba) => d \in Int
  BY <1>3 DEF Delivered
<1>5. CASE r = [ok |-> FALSE, data |-> None]
  BY <1>5 DEF None
<1>6. CASE r = [ok |-> TRUE, data |-> d] /\ d \in Delivered(lba)
  BY <1>4, <1>6
<1> QED
  BY <1>1, <1>5, <1>6

Cluster == 2 .. FatSize * LinksPerSector - 1

LEMMA Clusters ==
    ASSUME Volume
    PROVE  /\ \A x \in Entries : volume.chain[x] \in Seq(Cluster) /\ Len(volume.chain[x]) \in Nat \ {0}
           /\ Cluster \subseteq Nat /\ \A c \in Cluster : c < LowMark
           /\ volume.boot \in Nat /\ volume.rootSectors \in Nat /\ volume.fat32 \in BOOLEAN
           /\ fat_start \in Nat /\ root_directory_start \in Nat /\ data_start \in Nat
<1>1. /\ volume.chain \in [Entries -> Seq(Cluster)] /\ \A x \in Entries : volume.chain[x] # <<>>
      /\ volume.boot \in Nat /\ volume.rootSectors \in Nat /\ volume.fat32 \in BOOLEAN
  BY FatAssumption DEF Volume, Cluster
<1>2. \A x \in Entries : volume.chain[x] \in Seq(Cluster) /\ Len(volume.chain[x]) \in Nat \ {0}
  BY <1>1
<1>3. FatSize \in Nat /\ LinksPerSector \in Nat /\ FatSize * LinksPerSector <= LowMark
  BY FatAssumption
<1>4. FatSize * LinksPerSector \in Nat
  BY <1>3
<1>5. Cluster \subseteq Nat /\ \A c \in Cluster : c < LowMark
  BY <1>3, <1>4 DEF Cluster, LowMark
<1>6. fat_start \in Nat /\ root_directory_start \in Nat /\ data_start \in Nat
  BY <1>1, <1>3 DEF fat_start, root_directory_start, data_start
<1> QED
  BY <1>1, <1>2, <1>5, <1>6

\* The link of a cluster is the next of its chain.
LEMMA NextOfChain ==
    ASSUME Volume, NEW x \in Entries, NEW n \in 1 .. Len(volume.chain[x])
    PROVE  LinkOf(volume.chain[x][n]) = IF n = Len(volume.chain[x]) THEN LastMark ELSE volume.chain[x][n + 1]
<1> DEFINE links == UNION {{y} \X DOMAIN volume.chain[y] : y \in Entries}
           c == volume.chain[x][n]
           at == CHOOSE p \in links : volume.chain[p[1]][p[2]] = c
<1>1. volume.chain[x] \in Seq(Cluster) /\ n \in DOMAIN volume.chain[x]
  BY Clusters
<1>2. c \in Cluster /\ c # 0
  <2>1. c \in Cluster
    BY <1>1
  <2>2. 0 \notin Cluster
    BY DEF Cluster
  <2> QED
    BY <2>1, <2>2
<1>3. <<x, n>> \in links
  BY <1>1
<1>4. at \in links /\ volume.chain[at[1]][at[2]] = c
  <2>1. \E p \in links : volume.chain[p[1]][p[2]] = c
    BY <1>3
  <2> HIDE DEF links, c
  <2> QED
    BY <2>1
<1>5. at[1] \in Entries /\ at[2] \in DOMAIN volume.chain[at[1]]
  <2> HIDE DEF at, c
  <2> QED
    BY <1>4
<1>6. at[1] = x /\ at[2] = n
  <2>1. \A y, z \in Entries : \A i \in DOMAIN volume.chain[y] : \A j \in DOMAIN volume.chain[z] :
          volume.chain[y][i] = volume.chain[z][j] => y = z /\ i = j
    BY FatAssumption DEF Volume
  <2> HIDE DEF at
  <2> QED
    BY <1>1, <1>4, <1>5, <2>1
<1>7. ~(\A p \in links : volume.chain[p[1]][p[2]] # c)
  BY <1>4
<1>8. LinkOf(c) = IF c = 0 THEN LowMark
                  ELSE IF \A p \in links : volume.chain[p[1]][p[2]] # c THEN 0
                  ELSE IF at[2] = Len(volume.chain[at[1]]) THEN LastMark ELSE volume.chain[at[1]][at[2] + 1]
  BY DEF LinkOf
<1> HIDE DEF links, c, at
<1>9. LinkOf(c) = IF n = Len(volume.chain[x]) THEN LastMark ELSE volume.chain[x][n + 1]
  BY <1>2, <1>6, <1>7, <1>8
<1> QED
  BY <1>9 DEF c

\* Whatever the number, its link is one.
LEMMA LinkIsNumber == ASSUME Volume, NEW c PROVE LinkOf(c) \in Nat
<1> DEFINE links == UNION {{y} \X DOMAIN volume.chain[y] : y \in Entries}
           at == CHOOSE p \in links : volume.chain[p[1]][p[2]] = c
<1>1. LinkOf(c) = IF c = 0 THEN LowMark
                  ELSE IF \A p \in links : volume.chain[p[1]][p[2]] # c THEN 0
                  ELSE IF at[2] = Len(volume.chain[at[1]]) THEN LastMark ELSE volume.chain[at[1]][at[2] + 1]
  BY DEF LinkOf
<1>2. CASE c = 0 \/ \A p \in links : volume.chain[p[1]][p[2]] # c
  <2> HIDE DEF links, at
  <2> QED
    BY <1>1, <1>2 DEF LowMark
<1>3. CASE c # 0 /\ ~(\A p \in links : volume.chain[p[1]][p[2]] # c)
  <2>1. at \in links
    <3> HIDE DEF links
    <3> QED
      BY <1>3
  <2>2. at[1] \in Entries /\ at[2] \in DOMAIN volume.chain[at[1]]
    <3> HIDE DEF at
    <3> QED
      BY <2>1
  <2>3. volume.chain[at[1]] \in Seq(Cluster) /\ Cluster \subseteq Nat
    BY <2>2, Clusters
  <2>4. at[2] # Len(volume.chain[at[1]]) => volume.chain[at[1]][at[2] + 1] \in Nat
    <3>1. at[2] # Len(volume.chain[at[1]]) => at[2] + 1 \in DOMAIN volume.chain[at[1]]
      <4> HIDE DEF at
      <4> QED
        BY <2>2, <2>3
    <3>2. at[2] # Len(volume.chain[at[1]]) => volume.chain[at[1]][at[2] + 1] \in Cluster
      <4> HIDE DEF at
      <4> QED
        BY <2>3, <3>1
    <3> HIDE DEF at
    <3> QED
      BY <2>3, <3>2
  <2>5. LinkOf(c) = IF at[2] = Len(volume.chain[at[1]]) THEN LastMark ELSE volume.chain[at[1]][at[2] + 1]
    <3> HIDE DEF links, at
    <3> QED
      BY <1>1, <1>3
  <2> HIDE DEF at
  <2> QED
    BY <2>4, <2>5 DEF LastMark
<1> QED
  BY <1>2, <1>3

Matches(buffered) ==
    /\ buffered \in [index : Int, held : Int]
    /\ buffered.index = None \/ (buffered.index \in Nat /\ buffered.held = fat_start + buffered.index)
FatInv == Matches(fat)

\* What a lookup returns, and the buffer it leaves.
LEMMA LookupOf ==
    ASSUME Booted, FatInv, NEW c \in Nat, NEW l \in Lookups(c)
    PROVE  /\ l \in [ok : BOOLEAN, link : Nat, fat : [index : Int, held : Int]] /\ Matches(l.fat)
           /\ l.ok => l.link = Buffered(fat_start + SectorOf(c), c)
<1>1. fat_start \in Nat
  BY Clusters DEF Booted
<1>2. SectorOf(c) \in Nat
  BY FatAssumption, Division DEF SectorOf
<1>3. \A buffer : Buffered(buffer, c) \in Nat
  BY LinkIsNumber DEF Booted, Buffered
<1>4. CASE SectorOf(c) = fat.index
  <2>1. l = [ok |-> TRUE, link |-> Buffered(fat.held, c), fat |-> fat]
    BY <1>4 DEF Lookups
  <2> QED
    BY <1>2, <1>3, <1>4, <2>1 DEF FatInv, Matches, None
<1>5. CASE SectorOf(c) # fat.index
  <2>1. PICK r \in Reads(fat_start + SectorOf(c)) :
          l = [ok |-> r.ok, link |-> Buffered(r.data, c), fat |-> Remembered(c, r)]
    BY <1>5 DEF Lookups
  <2>2. r \in [ok : BOOLEAN, data : Int] /\ (r.ok => r.data = fat_start + SectorOf(c))
    BY <1>1, <1>2, <2>1, ReadOf
  <2>3. Remembered(c, r) = IF r.ok THEN [index |-> SectorOf(c), held |-> r.data] ELSE fat
    BY DEF Remembered
  <2> QED
    BY <1>2, <1>3, <2>1, <2>2, <2>3 DEF FatInv, Matches
<1> QED
  BY <1>4, <1>5

\* In the right sector of the FAT is the link of the cluster.
LEMMA BufferedLink ==
    ASSUME Volume, NEW c \in Cluster
    PROVE  Buffered(fat_start + SectorOf(c), c) = LinkOf(c)
<1>1. LinksPerSector \in Nat \ {0} /\ FatSize \in Nat \ {0} /\ fat_start \in Nat /\ c \in Nat
  BY FatAssumption, Clusters
<1>2. /\ SectorOf(c) \in Nat /\ c % LinksPerSector \in 0 .. LinksPerSector - 1
      /\ c = LinksPerSector * SectorOf(c) + (c % LinksPerSector)
  BY <1>1, Division DEF SectorOf
<1>3. c < FatSize * LinksPerSector
  BY <1>1 DEF Cluster
<1>4. SectorOf(c) < FatSize
  <2>1. LinksPerSector * SectorOf(c) < FatSize * LinksPerSector
    BY <1>1, <1>2, <1>3
  <2> HIDE DEF SectorOf
  <2> QED
    BY <1>1, <1>2, <2>1
<1>5. (fat_start + SectorOf(c)) - fat_start = SectorOf(c)
  BY <1>1, <1>2
<1>6. SectorOf(c) * LinksPerSector + (c % LinksPerSector) = c
  BY <1>1, <1>2
<1> QED
  BY <1>1, <1>2, <1>4, <1>5, <1>6 DEF Buffered

-----------------------------------------------------------------------------
(* The cursor of a file on its chain.                                      *)

Cursor == [start : Int, cluster : Nat, sector : Nat]
Number(f) == (f.sector \div ClusterSize) + 1
OnChain(f, name) ==
    /\ f.start = volume.chain[name][1]
    /\ f.cluster = IF Number(f) <= Len(volume.chain[name]) THEN volume.chain[name][Number(f)] ELSE LastMark

\* A cursor within the chain is at a cluster; one at a cluster is within it.
LEMMA ClusterOf ==
    ASSUME Volume, NEW name \in Names, NEW f \in Cursor, OnChain(f, name)
    PROVE  /\ Number(f) \in Nat \ {0}
           /\ Number(f) <= Len(volume.chain[name]) <=> ~IsEnd(f.cluster)
           /\ Number(f) <= Len(volume.chain[name]) => f.cluster = volume.chain[name][Number(f)] /\ f.cluster \in Cluster
<1>1. Number(f) \in Nat \ {0}
  <2>1. f.sector \in Nat /\ ClusterSize \in Nat \ {0}
    BY FatAssumption DEF Cursor
  <2>2. f.sector \div ClusterSize \in Nat
    BY <2>1, Division
  <2> QED
    BY <2>2 DEF Number
<1>2. volume.chain[name] \in Seq(Cluster) /\ \A c \in Cluster : c \in Nat /\ c < LowMark
  BY Clusters DEF Entries
<1>3. CASE Number(f) <= Len(volume.chain[name])
  <2>1. f.cluster = volume.chain[name][Number(f)] /\ Number(f) \in 1 .. Len(volume.chain[name])
    BY <1>1, <1>2, <1>3 DEF OnChain
  <2>2. f.cluster \in Cluster
    BY <1>2, <2>1
  <2> QED
    BY <1>1, <1>2, <1>3, <2>1, <2>2 DEF IsEnd, LowMark
<1>4. CASE ~(Number(f) <= Len(volume.chain[name]))
  BY <1>1, <1>4 DEF OnChain, IsEnd, LowMark, LastMark
<1> QED
  BY <1>3, <1>4

\* A lookup for a cursor within its chain gives the next of the chain.
LEMMA LookupOnChain ==
    ASSUME Booted, FatInv, NEW name \in Names, NEW f \in Cursor, OnChain(f, name), ~IsEnd(f.cluster),
           NEW l \in Lookups(f.cluster), l.ok
    PROVE  l.link = IF Number(f) + 1 <= Len(volume.chain[name]) THEN volume.chain[name][Number(f) + 1] ELSE LastMark
<1>1. /\ Number(f) \in Nat \ {0} /\ Number(f) <= Len(volume.chain[name])
      /\ f.cluster = volume.chain[name][Number(f)] /\ f.cluster \in Cluster
  BY ClusterOf DEF Booted
<1>2. l.link = LinkOf(f.cluster)
  BY <1>1, LookupOf, BufferedLink DEF Booted, Cursor
<1>3. name \in Entries /\ Len(volume.chain[name]) \in Nat /\ Number(f) \in 1 .. Len(volume.chain[name])
  BY <1>1, Clusters DEF Booted, Entries
<1>4. LinkOf(volume.chain[name][Number(f)])
        = IF Number(f) = Len(volume.chain[name]) THEN LastMark ELSE volume.chain[name][Number(f) + 1]
  BY <1>3, NextOfChain DEF Booted
<1> QED
  BY <1>1, <1>2, <1>3, <1>4

LEMMA NextSector ==
    ASSUME Booted, FatInv, NEW f \in Cursor, NEW x \in FileNextSector(f)
    PROVE  /\ x.ok \in BOOLEAN /\ x.file \in Cursor /\ Matches(x.fat)
           /\ x.file.sector = f.sector + 1 /\ x.file.start = f.start
           /\ ~Crossed(f) => x.file.cluster = f.cluster
           /\ Crossed(f) => \E l \in Lookups(f.cluster) : l.ok = x.ok /\ (l.ok => x.file.cluster = l.link)
<1> DEFINE counted == [f EXCEPT !.sector = f.sector + 1]
<1>1. counted \in Cursor /\ counted.sector = f.sector + 1 /\ counted.start = f.start /\ counted.cluster = f.cluster
  BY DEF Cursor
<1>2. CASE ~Crossed(f)
  <2>1. x = [ok |-> TRUE, file |-> counted, fat |-> fat]
    BY <1>2 DEF FileNextSector
  <2> HIDE DEF counted
  <2> QED
    BY <1>1, <1>2, <2>1 DEF FatInv
<1>3. CASE Crossed(f)
  <2>1. PICK l \in Lookups(f.cluster) :
          x = [ok |-> l.ok, fat |-> l.fat,
               file |-> IF l.ok THEN [counted EXCEPT !.cluster = l.link] ELSE counted]
    BY <1>3 DEF FileNextSector
  <2>2. f.cluster \in Nat
    BY DEF Cursor
  <2>3. l \in [ok : BOOLEAN, link : Nat, fat : [index : Int, held : Int]] /\ Matches(l.fat)
    BY <2>2, LookupOf
  <2>4. /\ [counted EXCEPT !.cluster = l.link] \in Cursor
        /\ [counted EXCEPT !.cluster = l.link].sector = f.sector + 1
        /\ [counted EXCEPT !.cluster = l.link].start = f.start
        /\ [counted EXCEPT !.cluster = l.link].cluster = l.link
    <3> HIDE DEF counted
    <3> QED
      BY <1>1, <2>3 DEF Cursor
  <2> HIDE DEF counted
  <2> QED
    BY <1>1, <1>3, <2>1, <2>3, <2>4
<1> QED
  BY <1>2, <1>3

LEMMA NextSectorOnChain ==
    ASSUME Booted, FatInv, NEW name \in Names, NEW f \in Cursor, OnChain(f, name), ~IsEnd(f.cluster),
           NEW x \in FileNextSector(f), x.ok
    PROVE  OnChain(x.file, name)
<1>1. /\ x.file \in Cursor /\ x.file.sector = f.sector + 1 /\ x.file.start = f.start /\ f.sector \in Nat
      /\ ClusterSize \in Nat \ {0}
  BY NextSector, FatAssumption DEF Cursor
<1>2. CASE ~Crossed(f)
  <2>1. Number(x.file) = Number(f)
    BY <1>1, <1>2, StepWithin DEF Crossed, Number
  <2>2. x.file.cluster = f.cluster
    BY <1>2, NextSector
  <2> QED
    BY <1>1, <2>1, <2>2 DEF OnChain
<1>3. CASE Crossed(f)
  <2>1. Number(x.file) = Number(f) + 1
    BY <1>1, <1>3, StepAcross DEF Crossed, Number
  <2>2. PICK l \in Lookups(f.cluster) : l.ok /\ x.file.cluster = l.link
    BY <1>3, NextSector
  <2> QED
    BY <1>1, <2>1, <2>2, LookupOnChain DEF OnChain
<1> QED
  BY <1>2, <1>3

LEMMA RewoundOnChain ==
    ASSUME Volume, NEW f \in Cursor, NEW offset \in Nat, f.start \in Nat
    PROVE  /\ Rewound(f, offset) \in Cursor
           /\ \A name \in Names : OnChain(f, name) => OnChain(Rewound(f, offset), name)
<1>1. CASE f.sector > offset /\ SameCluster(f.sector, offset)
  <2>1. Rewound(f, offset) = [f EXCEPT !.sector = offset]
    BY <1>1 DEF Rewound
  <2>2. Number([f EXCEPT !.sector = offset]) = Number(f)
    BY <1>1 DEF SameCluster, Number, Cursor
  <2> QED
    BY <2>1, <2>2 DEF OnChain, Cursor
<1>2. CASE f.sector > offset /\ ~SameCluster(f.sector, offset)
  <2> DEFINE g == [f EXCEPT !.cluster = f.start, !.sector = 0]
  <2>1. Rewound(f, offset) = g /\ g \in Cursor /\ g.cluster = f.start /\ g.start = f.start /\ g.sector = 0
    BY <1>2 DEF Rewound, Cursor
  <2>2. Number(g) = 1
    BY <2>1, FatAssumption DEF Number
  <2>3. \A name \in Names : Len(volume.chain[name]) \in Nat \ {0}
    BY Clusters DEF Entries
  <2> HIDE DEF g
  <2> QED
    BY <2>1, <2>2, <2>3 DEF OnChain
<1>3. CASE ~(f.sector > offset)
  BY <1>3 DEF Rewound
<1> QED
  BY <1>1, <1>2, <1>3

MovedTo(f, cluster, sector) == [f EXCEPT !.cluster = cluster, !.sector = sector]
LEMMA Moved ==
    ASSUME NEW f \in Cursor, NEW cluster \in Nat, NEW sector \in Nat
    PROVE  /\ MovedTo(f, cluster, sector) \in Cursor
           /\ MovedTo(f, cluster, sector).start = f.start
           /\ MovedTo(f, cluster, sector).cluster = cluster
           /\ MovedTo(f, cluster, sector).sector = sector
  BY DEF Cursor, MovedTo

LEMMA SeekStepOnChain ==
    ASSUME Booted, FatInv, NEW f \in Cursor, NEW x \in SeekStep(f)
    PROVE  /\ x.ok \in BOOLEAN /\ x.file \in Cursor /\ Matches(x.fat) /\ x.file.start = f.start
           /\ \A name \in Names :
                OnChain(f, name) /\ ~IsEnd(f.cluster) /\ x.ok => OnChain(x.file, name)
<1>1. PICK l \in Lookups(f.cluster) :
        x = [ok |-> l.ok /\ l.link # LastMark, fat |-> l.fat,
             file |-> IF ~l.ok THEN f
                      ELSE [f EXCEPT !.cluster = l.link,
                                     !.sector = IF l.link = LastMark THEN f.sector ELSE f.sector + ClusterSize]]
  BY DEF SeekStep
<1>2. /\ l \in [ok : BOOLEAN, link : Nat, fat : [index : Int, held : Int]] /\ Matches(l.fat)
      /\ f.sector \in Nat /\ ClusterSize \in Nat \ {0}
  BY LookupOf, FatAssumption DEF Cursor
<1> DEFINE g == [f EXCEPT !.cluster = l.link,
                          !.sector = IF l.link = LastMark THEN f.sector ELSE f.sector + ClusterSize]
<1>3. /\ g \in Cursor /\ g.cluster = l.link /\ g.start = f.start
      /\ g.sector = IF l.link = LastMark THEN f.sector ELSE f.sector + ClusterSize
  <2>1. PICK link, sector : link = l.link /\ sector = IF link = LastMark THEN f.sector ELSE f.sector + ClusterSize
    OBVIOUS
  <2>2. g = MovedTo(f, link, sector)
    BY <2>1 DEF MovedTo
  <2>3. link \in Nat /\ sector \in Nat
    BY <1>2, <2>1
  <2> HIDE DEF g
  <2>4. g \in Cursor /\ g.start = f.start /\ g.cluster = link /\ g.sector = sector
    BY <2>2, <2>3, Moved
  <2> QED
    BY <2>1, <2>4
<1>4. x.ok = (l.ok /\ l.link # LastMark) /\ x.fat = l.fat /\ x.file = IF ~l.ok THEN f ELSE g
  BY <1>1
<1> HIDE DEF g
<1>5. ASSUME NEW name \in Names, OnChain(f, name), ~IsEnd(f.cluster), x.ok
      PROVE  OnChain(x.file, name)
  <2>1. Number(g) = Number(f) + 1
    BY <1>2, <1>3, <1>4, <1>5, StepCluster DEF Number
  <2>2. l.link = IF Number(f) + 1 <= Len(volume.chain[name]) THEN volume.chain[name][Number(f) + 1] ELSE LastMark
    BY <1>4, <1>5, LookupOnChain
  <2> QED
    BY <1>3, <1>4, <1>5, <2>1, <2>2 DEF OnChain
<1> QED
  BY <1>2, <1>3, <1>4, <1>5

-----------------------------------------------------------------------------
(* Arithmetic of bytes and sectors.                                        *)

LEMMA SameSector ==
    ASSUME NEW p \in Nat, NEW m \in Nat \ {0}, NEW k \in Nat, (p % m) + k < m
    PROVE  (p + k) \div m = p \div m /\ (p + k) % m = (p % m) + k
<1>1. p \div m \in Nat /\ (p % m) \in 0 .. m - 1 /\ p = m * (p \div m) + (p % m)
  BY Division
<1> DEFINE q == p \div m
           r == (p % m) + k
<1>2. q \in Nat /\ r \in 0 .. m - 1 /\ p + k = q * m + r
  BY <1>1
<1> HIDE DEF q, r
<1>3. (q * m + r) \div m = q /\ (q * m + r) % m = r
  BY <1>2, Quotient
<1>4. (p + k) \div m = q /\ (p + k) % m = r
  BY <1>2, <1>3
<1> QED
  BY <1>4 DEF q, r

\* The start of the next sector.
LEMMA NextStart ==
    ASSUME NEW p \in Nat, NEW m \in Nat \ {0}
    PROVE  /\ p + m - (p % m) \in Nat /\ (p + m - (p % m)) % m = 0
           /\ p + m - (p % m) = ((p \div m) + 1) * m
<1>1. p \div m \in Nat /\ (p % m) \in 0 .. m - 1 /\ p = m * (p \div m) + (p % m)
  BY Division
<1>2. p + m - (p % m) = ((p \div m) + 1) * m
  BY <1>1
<1> DEFINE q == (p \div m) + 1
<1>3. q \in Nat /\ 0 \in 0 .. m - 1
  BY <1>1
<1> HIDE DEF q
<1>4. (q * m + 0) % m = 0
  BY <1>3, Quotient
<1>5. q * m + 0 = q * m
  BY <1>3
<1>6. p + m - (p % m) = q * m
  BY <1>2 DEF q
<1> QED
  BY <1>1, <1>2, <1>4, <1>5, <1>6

LEMMA Factor ==
    ASSUME NEW a \in Int, NEW b \in Int, NEW m \in Nat \ {0}, a * m = b * m
    PROVE  a = b
  OBVIOUS

\* At the start of a sector its number is the quotient.
LEMMA AtStart ==
    ASSUME NEW p \in Nat, NEW m \in Nat \ {0}, p % m = 0
    PROVE  p = (p \div m) * m /\ p \div m \in Nat
<1>1. p \div m \in Nat /\ p = m * (p \div m) + (p % m)
  BY Division
<1> QED
  BY <1>1

-----------------------------------------------------------------------------
(* The inductive invariant.  The table: no two descriptors share memory,   *)
(* though the entries of closed ones keep addresses.                       *)

Owners == Live \union (IF call.pc \in {"open", "link"} THEN {call.slot} ELSE {})
Memory == [Blocks -> [file : Cursor, ptr : Nat, buffer : Int]]
Table ==
    /\ Files \in [Slots -> Blocks \union {None}] /\ allocated \subseteq Blocks /\ ra \in Memory
    /\ open \in [Slots -> Names \union {NoFile}] /\ pos \in [Slots -> Nat] /\ astray \subseteq Live
    /\ \A s \in Slots \ Live : pos[s] = 0
    /\ \A s \in Owners : Files[s] \in allocated
    /\ \A s, t \in Owners : Files[s] = Files[t] => s = t

Standing == [pc : {"boot", "no filesystem", "idle"}]
Opening == [pc : {"open", "link"}, slot : Slots, name : Names, cluster : Nat, sector : Nat]
Reading == [pc : {"read"}, slot : Slots, asked : Nat, left : Nat, ok : BOOLEAN, got : Seq(Int \X Int)]
Seeking == [pc : {"seek"}, slot : Slots, to : Nat]
Calls ==
    /\ call \in Standing \union Opening \union Reading \union Seeking
    /\ call.pc \in {"open", "link"} => call.slot \notin Live
    /\ call.pc \in {"read", "seek"} => call.slot \in Live
    /\ call.pc \notin {"boot", "no filesystem"} => sdcard_present

\* How far a read has come in a file, and what RAFile then holds: between
\* sectors the cursor is at the sector to come; within one it is at the next,
\* and the buffer holds this one.
Reached(s) == IF call.pc = "read" /\ call.slot = s THEN pos[s] + call.asked - call.left ELSE pos[s]
FileSector(name, k) == Lba(volume.chain[name][(k \div ClusterSize) + 1], k % ClusterSize)
InPlace(f, name, p) ==
    /\ f.ptr % B = p % B
    /\ IF p % B = 0 THEN f.file.sector * B = p
       ELSE f.file.sector * B = p + B - (p % B) /\ f.buffer = FileSector(name, f.file.sector - 1)

Sought(s) == call.pc = "seek" /\ call.slot = s
Placed(s) ==
    /\ OnChain(ra[Files[s]].file, open[s])
    /\ Sought(s) \/ InPlace(ra[Files[s]], open[s], Reached(s))

ReadInStep ==
    LET s == call.slot
    IN  call.pc = "read" /\ s \notin astray =>
          /\ call.left <= call.asked /\ pos[s] + call.asked <= Extent(open[s])
          /\ call.left > 0 => Reached(s) % B = 0
          /\ Len(call.got) = call.asked - call.left
          /\ \A i \in 1 .. Len(call.got) : call.got[i] = FileByte(open[s], pos[s] + i - 1)

FileInv == Volume /\ FatInv /\ Table /\ Calls /\ (\A s \in Live \ astray : Placed(s)) /\ ReadInStep

-----------------------------------------------------------------------------
(* What follows from it at once.                                           *)

LEMMA CallIs ==
    ASSUME Calls
    PROVE  /\ call.pc \in {"boot", "no filesystem", "idle"} => call \in Standing
           /\ call.pc \in {"open", "link"} => call \in Opening
           /\ call.pc = "read" => call \in Reading
           /\ call.pc = "seek" => call \in Seeking
           /\ call.pc \in {"boot", "no filesystem", "idle", "open", "link", "read", "seek"}
<1>1. CASE call \in Standing
  BY <1>1 DEF Standing
<1>2. CASE call \in Opening
  BY <1>2 DEF Opening
<1>3. CASE call \in Reading
  BY <1>3 DEF Reading
<1>4. CASE call \in Seeking
  BY <1>4 DEF Seeking
<1> QED
  BY <1>1, <1>2, <1>3, <1>4 DEF Calls

LEMMA Up ==
    ASSUME FileInv, CardInv, call.pc \notin {"boot", "no filesystem"}
    PROVE  Booted /\ FatInv
  BY DEF FileInv, Calls, Booted

\* What a live descriptor stands for.
LEMMA LiveIs ==
    ASSUME FileInv, NEW s \in Live
    PROVE  /\ s \in Slots /\ Files[s] \in Blocks /\ Files[s] \in allocated /\ open[s] \in Names
           /\ ra[Files[s]] \in [file : Cursor, ptr : Nat, buffer : Int] /\ pos[s] \in Nat
           /\ \A t \in Owners : t # s => Files[t] # Files[s]
<1>1. s \in Slots /\ s \in Owners /\ open[s] \in Names
  BY DEF FileInv, Table, Live, Owners
<1> QED
  BY <1>1 DEF FileInv, Table, Memory

LEMMA Unmoved ==
    ASSUME NEW t \in Slots, Placed(t), volume' = volume, open'[t] = open[t], pos'[t] = pos[t],
           (ra[Files[t]])' = ra[Files[t]],
           ~(call.pc \in {"read", "seek"} /\ call.slot = t), ~(call'.pc \in {"read", "seek"} /\ call'.slot = t)
    PROVE  Placed(t)'
<1>1. OnChain(ra[Files[t]].file, open[t])'
  BY DEF Placed, OnChain, Number
<1>2. Reached(t)' = Reached(t) /\ ~Sought(t)
  BY DEF Reached, Sought
<1>3. InPlace(ra[Files[t]], open[t], Reached(t))'
  BY <1>2 DEF Placed, InPlace, FileSector, Lba, data_start, root_directory_start, fat_start
<1> QED
  BY <1>1, <1>3 DEF Placed

LEMMA LowestOf ==
    ASSUME NEW S, S \subseteq Nat, S # {}
    PROVE  Lowest(S) \in S
<1>1. \E x \in S : \A y \in S : ~(<<y, x>> \in OpToRel(<, Nat))
  BY WFMin, NatLessThanWellFounded
<1>2. PICK x \in S : \A y \in S : ~(<<y, x>> \in OpToRel(<, Nat))
  BY <1>1
<1>3. \A y \in S : ~(y < x)
  BY <1>2 DEF OpToRel
<1>4. \A y \in S : x <= y
  BY <1>3
<1> QED
  BY <1>4 DEF Lowest

-----------------------------------------------------------------------------
(* Opening and closing.                                                    *)

LEMMA FilesInitially == Init => FileInv
<1> SUFFICES ASSUME Init PROVE FileInv
  OBVIOUS
<1>1. Live = {} /\ Owners = {}
  BY DEF Init, Live, Owners, Pc, NoFile
<1>2. Volume /\ FatInv
  BY DEF Init, Volume, FatInv, Matches, None
<1>3. Blank \in [file : Cursor, ptr : Nat, buffer : Int]
  BY DEF Blank, Cursor, None
<1>4. Table
  BY <1>1, <1>3 DEF Init, Table, Memory, None, NoFile
<1>5. Calls
  BY DEF Init, Calls, Pc, Standing
<1>6. ReadInStep
  BY DEF Init, ReadInStep, Pc
<1> QED
  BY <1>1, <1>2, <1>4, <1>5, <1>6 DEF FileInv

\* Steps that leave the table, the files and the FAT's buffer as they are, and
\* are no part of a read or a seek.
LEMMA Aside ==
    ASSUME FileInv, UNCHANGED <<volume, fat, ra, pos, astray, tableVars>>, Calls',
           call.pc \notin {"open", "link", "read", "seek"}, call'.pc \notin {"open", "link", "read", "seek"}
    PROVE  FileInv'
<1>1. Live' = Live /\ Owners' = Owners
  BY DEF Live, Owners, tableVars
<1>2. Volume' /\ FatInv' /\ Table'
  BY <1>1 DEF FileInv, Volume, FatInv, Matches, fat_start, Table, tableVars
<1>3. ReadInStep'
  BY DEF ReadInStep
<1>4. ASSUME NEW t \in Live \ astray PROVE Placed(t)'
  BY <1>4, Unmoved DEF FileInv, Live, tableVars
<1> QED
  BY <1>1, <1>2, <1>3, <1>4 DEF FileInv

LEMMA BootStep == ASSUME FileInv, Boot PROVE FileInv'
<1>1. Calls'
  BY CallIs DEF FileInv, Boot, Calls, Live, Standing, tableVars
<1> QED
  BY <1>1, Aside DEF Boot

LEMMA FindDriveStep == ASSUME FileInv, FindDrive PROVE FileInv'
<1>1. call' = Idle => sdcard_present
  <2>1. PICK r \in (IF sdcard_present THEN Reads(0) ELSE {[ok |-> FALSE, data |-> None]}) :
        \E s \in (IF r.ok /\ volume.boot # 0 THEN Reads(volume.boot) ELSE {r}) :
          call' = IF s.ok /\ s.data = volume.boot THEN Idle ELSE Pc("no filesystem")
    BY DEF FindDrive
  <2>2. PICK s \in (IF r.ok /\ volume.boot # 0 THEN Reads(volume.boot) ELSE {r}) :
          call' = IF s.ok /\ s.data = volume.boot THEN Idle ELSE Pc("no filesystem")
    BY <2>1
  <2>3. Idle.pc = "idle" /\ Pc("no filesystem").pc = "no filesystem"
    BY DEF Idle, Pc
  <2>4. call' = Idle => s.ok
    BY <2>2, <2>3
  <2>5. s.ok => r.ok
    BY <2>2
  <2>6. r.ok => sdcard_present
    <3>1. ASSUME ~sdcard_present PROVE ~r.ok
      <4>1. r = [ok |-> FALSE, data |-> None]
        BY <2>1, <3>1
      <4> QED
        BY <4>1
    <3> QED
      BY <3>1
  <2> QED
    BY <2>4, <2>5, <2>6
<1>2. call' = Idle \/ call' = Pc("no filesystem")
  BY DEF FindDrive
<1>3. sdcard_present' = sdcard_present
  BY DEF FindDrive, sdVars, sdcard_present
<1>4. Idle \in Standing /\ Idle.pc = "idle"
  BY DEF Idle, Pc, Standing
<1>5. Pc("no filesystem") \in Standing /\ Pc("no filesystem").pc = "no filesystem"
  BY DEF Pc, Standing
<1>6. Calls' /\ call'.pc \in {"idle", "no filesystem"}
  BY <1>1, <1>2, <1>3, <1>4, <1>5 DEF Calls
<1> QED
  BY <1>6, Aside DEF FindDrive

LEMMA OpenStep == ASSUME FileInv, NEW name \in Names, Open(name) PROVE FileInv'
<1> DEFINE s == Lowest(FreeSlots)
           b == Lowest(Blocks \ allocated)
           cluster == IF volume.fat32 THEN volume.chain["root"][1] ELSE 0
<1>1. s \in FreeSlots /\ b \in Blocks \ allocated
  <2>1. FreeSlots \subseteq Nat /\ Blocks \ allocated \subseteq Nat
    BY FilesAssumption DEF FreeSlots
  <2>2. FreeSlots # {} /\ Blocks \ allocated # {}
    BY DEF Open, FileInv, Table
  <2> QED
    BY <2>1, <2>2, LowestOf
<1>2. cluster \in Nat
  <2>1. "root" \in Entries
    BY DEF Entries
  <2>2. volume.chain["root"] \in Seq(Cluster) /\ Len(volume.chain["root"]) \in Nat \ {0} /\ Cluster \subseteq Nat
    BY <2>1, Clusters DEF FileInv
  <2>3. volume.chain["root"][1] \in Cluster
    BY <2>2
  <2> QED
    BY <2>2, <2>3
<1>3. /\ Files' = [Files EXCEPT ![s] = b] /\ allocated' = allocated \union {b}
      /\ call' = [pc |-> "open", slot |-> s, name |-> name, cluster |-> cluster, sector |-> 0]
      /\ UNCHANGED <<sdVars, volume, fat, ra, pos, astray, open>> /\ call.pc = "idle"
  BY DEF Open, Idle, Pc
<1> HIDE DEF s, b, cluster
<1>4. s \in Slots /\ Files[s] = None /\ s \notin Live
  <2>1. s \in Slots /\ Files[s] = None
    BY <1>1 DEF FreeSlots
  <2>2. None \notin Nat /\ allocated \subseteq Nat
    BY FilesAssumption DEF FileInv, Table, None
  <2> QED
    BY <2>1, <2>2, LiveIs
<1>5. Live' = Live /\ Owners = Live /\ Owners' = Live \union {s}
  BY <1>3 DEF Live, Owners
<1>6. call' \in Opening /\ call'.pc = "open" /\ call'.slot = s
  BY <1>2, <1>3, <1>4 DEF Opening
<1>7. Calls'
  BY <1>3, <1>4, <1>5, <1>6 DEF FileInv, Calls, sdVars, sdcard_present
<1>8. Table'
  <2>1. /\ Files' \in [Slots -> Blocks \union {None}] /\ allocated' \subseteq Blocks
        /\ Files'[s] = b /\ \A t \in Slots : t # s => Files'[t] = Files[t]
    BY <1>1, <1>3, <1>4 DEF FileInv, Table
  <2>2. \A t \in Live : t \in Slots /\ t # s /\ Files[t] \in allocated
    BY <1>4, LiveIs
  <2>3. \A t \in Owners' : Files'[t] \in allocated'
    BY <1>3, <1>5, <2>1, <2>2
  <2>4. \A t \in Owners', u \in Owners' : Files'[t] = Files'[u] => t = u
    BY <1>1, <1>5, <2>1, <2>2 DEF FileInv, Table
  <2> QED
    BY <1>3, <1>5, <2>1, <2>3, <2>4 DEF FileInv, Table
<1>9. ASSUME NEW t \in Live \ astray PROVE Placed(t)'
  <2>1. t \in Slots /\ Files'[t] = Files[t]
    BY <1>3, <1>4 DEF FileInv, Table, Live
  <2> QED
    BY <1>3, <1>6, <2>1, Unmoved DEF FileInv
<1>10. ReadInStep'
  BY <1>6 DEF ReadInStep
<1> QED
  BY <1>3, <1>5, <1>7, <1>8, <1>9, <1>10 DEF FileInv, Volume, FatInv, Matches, fat_start

\* While a file is opened its slot is no live one, and its memory its own.
LEMMA OpeningIs ==
    ASSUME FileInv, call.pc \in {"open", "link"}
    PROVE  /\ call \in Opening /\ call.slot \in Slots /\ call.slot \notin Live
           /\ Owners = Live \union {call.slot} /\ Files[call.slot] \in allocated /\ Files[call.slot] \in Blocks
           /\ \A t \in Live : t \in Slots /\ Files[t] \in allocated /\ Files[t] # Files[call.slot]
<1>1. call \in Opening /\ call.slot \in Slots /\ call.slot \notin Live /\ Owners = Live \union {call.slot}
  BY CallIs DEF FileInv, Calls, Opening, Owners
<1> QED
  BY <1>1, LiveIs DEF FileInv, Table

LEMMA NotFoundStep ==
    ASSUME FileInv, call.pc \in {"open", "link"}, NotFound, UNCHANGED <<sdVars, volume>>, FatInv'
    PROVE  FileInv'
<1> DEFINE b == Files[call.slot]
<1>1. /\ b \in Blocks /\ Owners = Live \union {call.slot}
      /\ \A t \in Live : t \in Slots /\ Files[t] \in allocated /\ Files[t] # b
  BY OpeningIs
<1>2. /\ call'.pc = "idle" /\ call' \in Standing /\ ra' = [ra EXCEPT ![b] = Blank]
      /\ allocated' = allocated \ {b} /\ UNCHANGED <<Files, open, pos, astray>>
  BY DEF NotFound, Idle, Pc, Standing
<1>3. Live' = Live /\ Owners' = Live
  BY <1>2 DEF Live, Owners
<1>4. Blank \in [file : Cursor, ptr : Nat, buffer : Int]
  BY DEF Blank, Cursor, None
<1>5. ra' \in Memory /\ \A t \in Live : ra'[Files[t]] = ra[Files[t]]
  <2>1. ra \in Memory /\ Files \in [Slots -> Blocks \union {None}] /\ allocated \subseteq Blocks
    BY DEF FileInv, Table
  <2> HIDE DEF b
  <2> QED
    BY <1>1, <1>2, <1>4, <2>1 DEF Memory
<1>6. Table'
  <2> HIDE DEF b
  <2> QED
    BY <1>1, <1>2, <1>3, <1>5 DEF FileInv, Table
<1>7. Calls'
  BY <1>2, CallIs DEF FileInv, Calls, sdVars, sdcard_present
<1>8. ASSUME NEW t \in Live \ astray PROVE Placed(t)'
  <2>1. Placed(t) /\ t \in Slots /\ (ra[Files[t]])' = ra[Files[t]]
    BY <1>1, <1>2, <1>5 DEF FileInv
  <2> QED
    BY <1>2, <2>1, Unmoved
<1>9. ReadInStep'
  BY <1>2 DEF ReadInStep
<1> QED
  BY <1>2, <1>3, <1>6, <1>7, <1>8, <1>9 DEF FileInv, Volume

LEMMA FoundStep ==
    ASSUME FileInv, call.pc \in {"open", "link"}, Found, UNCHANGED <<sdVars, volume, fat>>
    PROVE  FileInv'
<1> DEFINE s == call.slot
           name == call.name
           b == Files[s]
           start == volume.chain[name][1]
           f == [start |-> start, cluster |-> start, sector |-> 0]
<1>1. /\ s \in Slots /\ s \notin Live /\ b \in Blocks /\ b \in allocated /\ Owners = Live \union {s} /\ name \in Names
      /\ \A t \in Live : t \in Slots /\ Files[t] \in allocated /\ Files[t] # b
  BY OpeningIs DEF Opening
<1>2. /\ call'.pc = "idle" /\ call' \in Standing
      /\ ra' = [ra EXCEPT ![b].file = f, ![b].ptr = 0]
      /\ open' = [open EXCEPT ![s] = name] /\ UNCHANGED <<Files, allocated, pos, astray>>
  BY DEF Found, Idle, Pc, Standing
<1>3. volume.chain[name] \in Seq(Cluster) /\ Len(volume.chain[name]) \in Nat \ {0} /\ Cluster \subseteq Nat
  BY <1>1, Clusters DEF FileInv, Entries
<1>4. start \in Nat /\ f \in Cursor
  <2>1. start \in Cluster
    BY <1>3
  <2>2. start \in Nat
    BY <1>3, <2>1
  <2> QED
    BY <2>2 DEF Cursor
<1> HIDE DEF s, name, b, f
<1>5. /\ ra' \in Memory /\ ra'[b].file = f /\ ra'[b].ptr = 0
      /\ \A t \in Live : ra'[Files[t]] = ra[Files[t]]
  <2>1. ra \in Memory /\ Files \in [Slots -> Blocks \union {None}] /\ allocated \subseteq Blocks
    BY DEF FileInv, Table
  <2> QED
    BY <1>1, <1>2, <1>4, <2>1 DEF Memory
<1>6. /\ open' \in [Slots -> Names \union {NoFile}] /\ Live \subseteq Live' /\ Live' \subseteq Live \union {s}
      /\ Owners' = Live'
  <2>1. open \in [Slots -> Names \union {NoFile}]
    BY DEF FileInv, Table
  <2>2. /\ open' \in [Slots -> Names \union {NoFile}]
        /\ \A t \in Slots : open'[t] = IF t = s THEN name ELSE open[t]
    BY <1>1, <1>2, <2>1
  <2> QED
    BY <1>1, <1>2, <2>2 DEF Live, Owners
<1>7. Table'
  <2>1. \A t \in Live' : Files[t] \in allocated
    BY <1>1, <1>6 DEF b
  <2>2. \A t, u \in Live' : Files[t] = Files[u] => t = u
    BY <1>1, <1>6 DEF FileInv, Table
  <2> QED
    BY <1>2, <1>5, <1>6, <2>1, <2>2 DEF FileInv, Table
<1>8. Calls'
  BY <1>2, CallIs DEF FileInv, Calls, sdVars, sdcard_present
<1>9. ASSUME NEW t \in (Live \ astray)' PROVE Placed(t)'
  <2>1. CASE t \in Live
    <3>1. t \in Slots /\ t # s /\ (ra[Files[t]])' = ra[Files[t]] /\ open'[t] = open[t] /\ Placed(t)
      BY <1>1, <1>2, <1>5, <1>9, <2>1 DEF FileInv, Table
    <3> QED
      BY <1>2, <3>1, Unmoved DEF b, s
  <2>2. CASE t \notin Live
    <3>1. t = s /\ pos'[s] = 0 /\ open'[s] = name /\ Files'[s] = b
      BY <1>1, <1>2, <1>6, <1>9, <2>2 DEF FileInv, Table, b
    <3>2. f.start = start /\ f.cluster = start /\ f.sector = 0
      BY DEF f
    <3>3. /\ ra'[Files'[t]].file.start = start /\ ra'[Files'[t]].file.cluster = start
          /\ ra'[Files'[t]].file.sector = 0 /\ ra'[Files'[t]].ptr = 0
          /\ open'[t] = name /\ pos'[t] = 0 /\ volume'.chain[name][1] = start
      BY <1>5, <3>1, <3>2 DEF start
    <3>4. (0 \div ClusterSize) + 1 = 1 /\ 0 % B = 0 /\ 0 * B = 0 /\ 1 <= Len(volume'.chain[name])
      BY <1>3, FatAssumption, FilesAssumption
    <3>5. OnChain(ra[Files[t]].file, open[t])'
      BY <3>3, <3>4 DEF OnChain, Number
    <3>6. InPlace(ra[Files[t]], open[t], Reached(t))'
      BY <1>2, <3>3, <3>4 DEF InPlace, Reached
    <3> QED
      BY <3>5, <3>6 DEF Placed
  <2> QED
    BY <2>1, <2>2
<1>10. ReadInStep'
  BY <1>2 DEF ReadInStep
<1> QED
  BY <1>2, <1>7, <1>8, <1>9, <1>10 DEF FileInv, Volume, FatInv, Matches, fat_start

LEMMA StillOpening ==
    ASSUME FileInv, call.pc \in {"open", "link"}, call' \in Opening, call'.slot = call.slot, FatInv',
           UNCHANGED <<sdVars, volume, ra, pos, astray, tableVars>>
    PROVE  FileInv'
<1>1. call'.pc \in {"open", "link"}
  BY DEF Opening
<1>2. Live' = Live /\ Owners' = Owners
  BY <1>1 DEF Live, Owners, tableVars
<1>3. Table'
  BY <1>2 DEF FileInv, Table, tableVars
<1>4. Calls'
  BY <1>1, <1>2 DEF FileInv, Calls, sdVars, sdcard_present, Opening
<1>5. ASSUME NEW t \in Live \ astray PROVE Placed(t)'
  BY <1>1, <1>5, Unmoved DEF FileInv, Live, tableVars
<1>6. ReadInStep'
  BY <1>1 DEF ReadInStep
<1> QED
  BY <1>2, <1>3, <1>4, <1>5, <1>6 DEF FileInv, Volume

LEMMA OpenSectorStep == ASSUME FileInv, OpenSector PROVE FileInv'
<1>1. call.pc = "open" /\ UNCHANGED <<sdVars, volume, fat>>
  BY DEF OpenSector
<1>2. FatInv'
  BY <1>1 DEF FileInv, FatInv, Matches, fat_start
<1>3. CASE Found
  BY <1>1, <1>3, FoundStep
<1>4. CASE NotFound
  BY <1>1, <1>2, <1>4, NotFoundStep
<1>5. call \in Opening
  BY <1>1, OpeningIs
<1>6. CASE call' = [call EXCEPT !.sector = @ + 1] /\ UNCHANGED <<ra, pos, astray, tableVars>>
  <2>1. call' \in Opening /\ call'.slot = call.slot
    BY <1>5, <1>6 DEF Opening
  <2> QED
    BY <1>1, <1>2, <1>6, <2>1, StillOpening
<1>7. CASE call' = [call EXCEPT !.pc = "link"] /\ UNCHANGED <<ra, pos, astray, tableVars>>
  <2>1. call' \in Opening /\ call'.slot = call.slot
    BY <1>5, <1>7 DEF Opening
  <2> QED
    BY <1>1, <1>2, <1>7, <2>1, StillOpening
<1> QED
  BY <1>3, <1>4, <1>6, <1>7 DEF OpenSector

LEMMA OpenLinkStep == ASSUME FileInv, CardInv, NEW ok \in BOOLEAN, OpenLink(ok) PROVE FileInv'
<1>1. call.pc = "link" /\ UNCHANGED <<sdVars, volume>>
  BY DEF OpenLink
<1>2. call \in Opening /\ call.cluster \in Nat
  BY <1>1, OpeningIs DEF Opening
<1>3. PICK l \in GetFATLink(call.cluster) :
        /\ fat' = l.fat
        /\ \/ IsEnd(l.link) /\ NotFound
           \/ /\ ~IsEnd(l.link)
              /\ call' = [call EXCEPT !.pc = "open", !.cluster = l.link, !.sector = 0]
              /\ UNCHANGED <<ra, pos, astray, tableVars>>
  BY DEF OpenLink
<1>4. Matches(l.fat) /\ l.link \in Nat
  <2>1. PICK m \in Lookups(call.cluster) : l = [m EXCEPT !.link = IF m.ok THEN m.link ELSE 0]
    BY DEF GetFATLink
  <2>2. m \in [ok : BOOLEAN, link : Nat, fat : [index : Int, held : Int]] /\ Matches(m.fat)
    BY <1>1, <1>2, Up, LookupOf
  <2> QED
    BY <2>1, <2>2
<1>5. FatInv'
  BY <1>1, <1>3, <1>4 DEF FatInv, Matches, fat_start
<1>6. CASE NotFound
  BY <1>1, <1>5, <1>6, NotFoundStep
<1>7. CASE /\ call' = [call EXCEPT !.pc = "open", !.cluster = l.link, !.sector = 0]
           /\ UNCHANGED <<ra, pos, astray, tableVars>>
  <2>1. call' \in Opening /\ call'.slot = call.slot
    BY <1>2, <1>4, <1>7 DEF Opening
  <2> QED
    BY <1>1, <1>5, <1>7, <2>1, StillOpening
<1> QED
  BY <1>3, <1>6, <1>7

LEMMA CloseStep == ASSUME FileInv, NEW s \in Slots, Close(s) PROVE FileInv'
<1>1. /\ call.pc = "idle" /\ s \in Live
      /\ allocated' = allocated \ {Files[s]} /\ open' = [open EXCEPT ![s] = NoFile]
      /\ pos' = [pos EXCEPT ![s] = 0] /\ astray' = astray \ {s}
      /\ UNCHANGED <<sdVars, volume, fat, ra, call, Files>>
  BY DEF Close, Idle, Pc
<1>2. /\ open' \in [Slots -> Names \union {NoFile}] /\ pos' \in [Slots -> Nat] /\ pos'[s] = 0
      /\ \A t \in Slots : t # s => open'[t] = open[t] /\ pos'[t] = pos[t]
      /\ open'[s] = NoFile
  BY <1>1 DEF FileInv, Table
<1>3. Live' = Live \ {s} /\ Owners = Live /\ Owners' = Live'
  BY <1>1, <1>2 DEF Live, Owners
<1>4. \A t \in Live' : t \in Slots /\ Files[t] \in allocated /\ Files[t] # Files[s]
  BY <1>1, <1>3, LiveIs
<1>5. Table'
  BY <1>1, <1>2, <1>3, <1>4 DEF FileInv, Table
<1>6. Calls'
  BY <1>1, CallIs DEF FileInv, Calls, sdVars, sdcard_present
<1>7. ASSUME NEW t \in (Live \ astray)' PROVE Placed(t)'
  <2>1. Placed(t) /\ t \in Slots /\ t # s
    BY <1>1, <1>3, <1>4, <1>7 DEF FileInv
  <2> QED
    BY <1>1, <1>2, <2>1, Unmoved
<1>8. ReadInStep'
  BY <1>1 DEF ReadInStep
<1> QED
  BY <1>1, <1>5, <1>6, <1>7, <1>8 DEF FileInv, Volume, FatInv, Matches, fat_start

-----------------------------------------------------------------------------
(* Reading and seeking: steps that change one file.                        *)

LEMMA OneFile ==
    ASSUME FileInv, NEW s \in Live, call.pc \in {"idle", "read", "seek"}, call.pc # "idle" => call.slot = s,
           call' \in Standing \union Reading \union Seeking, call'.pc \in {"idle", "read", "seek"},
           call'.pc # "idle" => call'.slot = s,
           NEW r \in [file : Cursor, ptr : Nat, buffer : Int], ra' = [ra EXCEPT ![Files[s]] = r],
           pos' \in [Slots -> Nat], \A t \in Slots \ {s} : pos'[t] = pos[t],
           astray \subseteq astray', astray' \subseteq astray \union {s},
           FatInv', UNCHANGED <<sdVars, volume, tableVars>>,
           s \notin astray' => Placed(s)', ReadInStep'
    PROVE  FileInv'
<1>1. UNCHANGED <<Files, open, allocated>> /\ Live' = Live /\ Owners = Live /\ Owners' = Live
  BY DEF Live, Owners, tableVars
<1>2. /\ Files[s] \in Blocks /\ ra \in Memory
      /\ \A t \in Live : t \in Slots /\ Files[t] \in Blocks /\ (t # s => Files[t] # Files[s])
  BY <1>1, LiveIs DEF FileInv, Table
<1>3. ra' \in Memory /\ \A t \in Live \ {s} : ra'[Files[t]] = ra[Files[t]]
  BY <1>2 DEF Memory
<1>4. Table'
  BY <1>1, <1>2, <1>3 DEF FileInv, Table
<1>5. Calls'
  BY <1>1 DEF FileInv, Calls, sdVars, sdcard_present
<1>6. ASSUME NEW t \in (Live \ astray)', t # s PROVE Placed(t)'
  <2>1. Placed(t) /\ t \in Slots \ {s} /\ (ra[Files[t]])' = ra[Files[t]]
    BY <1>1, <1>2, <1>3, <1>6 DEF FileInv
  <2> QED
    BY <1>1, <1>6, <2>1, Unmoved
<1> QED
  BY <1>1, <1>4, <1>5, <1>6 DEF FileInv, Volume

LEMMA ByteOf ==
    ASSUME NEW name, NEW p \in Nat, NEW k \in Nat, (p % B) + k < B
    PROVE  FileByte(name, p + k) = <<FileSector(name, p \div B), (p % B) + k>>
<1>1. (p + k) \div B = p \div B /\ (p + k) % B = (p % B) + k
  BY FilesAssumption, SameSector
<1> QED
  BY <1>1 DEF FileByte, FileSector

LEMMA BytesOf ==
    ASSUME NEW sector \in Int, NEW first \in Nat, NEW count \in Nat
    PROVE  /\ Bytes(sector, first, count) \in Seq(Int \X Int) /\ Len(Bytes(sector, first, count)) = count
           /\ \A i \in 1 .. count : Bytes(sector, first, count)[i] = <<sector, first + i - 1>>
  BY DEF Bytes

\* What a read begins with.
LEMMA DrainedIs ==
    ASSUME NEW f \in [file : Cursor, ptr : Nat, buffer : Int], NEW p \in Nat, NEW n \in Nat, NEW name,
           InPlace(f, name, p), p % B = 0 \/ n >= B
    PROVE  LET d == Drained(f, n)
           IN  /\ d \in 0 .. n /\ f.ptr + d \in Nat /\ (f.ptr + d) % B = 0
               /\ (p + d) % B = 0 /\ f.file.sector * B = p + d
               /\ \A i \in 1 .. d : FileByte(name, p + i - 1) = <<f.buffer, (f.ptr % B) + i - 1>>
<1> DEFINE d == Drained(f, n)
<1>1. B \in Nat \ {0} /\ f.ptr \in Nat /\ f.file.sector \in Nat /\ f.ptr % B = p % B
  BY FilesAssumption DEF Cursor, InPlace
<1>2. CASE p % B = 0
  <2>1. d = 0
    BY <1>1, <1>2 DEF Drained
  <2> QED
    BY <1>1, <1>2, <2>1 DEF InPlace
<1>3. CASE p % B # 0
  <2>1. p % B \in 0 .. B - 1 /\ n >= B
    BY <1>1, <1>3, Division
  <2>2. d = B - (p % B)
    BY <1>1, <1>3, <2>1 DEF Drained
  <2>3. p + d = p + B - (p % B) /\ f.ptr + d = f.ptr + B - (f.ptr % B) /\ d \in 0 .. n
    BY <1>1, <2>1, <2>2
  <2>4. (p + d) % B = 0 /\ (f.ptr + d) % B = 0 /\ f.ptr + d \in Nat /\ p + d = ((p \div B) + 1) * B
    <3>1. p + B - (p % B) \in Nat /\ (p + B - (p % B)) % B = 0 /\ p + B - (p % B) = ((p \div B) + 1) * B
      BY <1>1, NextStart
    <3>2. f.ptr + B - (f.ptr % B) \in Nat /\ (f.ptr + B - (f.ptr % B)) % B = 0
      BY <1>1, NextStart
    <3> HIDE DEF d
    <3> QED
      BY <2>3, <3>1, <3>2
  <2>5. f.file.sector * B = p + d /\ f.buffer = FileSector(name, f.file.sector - 1)
    BY <1>3, <2>3 DEF InPlace
  <2>6. f.file.sector = (p \div B) + 1 /\ p \div B \in Nat
    <3>1. p \div B \in Nat
      BY <1>1, Division
    <3>2. f.file.sector * B = ((p \div B) + 1) * B
      BY <2>4, <2>5
    <3> DEFINE q == (p \div B) + 1
    <3>3. q \in Int /\ f.file.sector \in Int /\ f.file.sector * B = q * B
      BY <1>1, <3>1, <3>2
    <3> HIDE DEF q
    <3>4. f.file.sector = q
      BY <1>1, <3>3, Factor
    <3> QED
      BY <3>1, <3>4 DEF q
  <2>7. ASSUME NEW i \in 1 .. d
        PROVE  FileByte(name, p + i - 1) = <<f.buffer, (f.ptr % B) + i - 1>>
    <3> DEFINE k == i - 1
    <3>1. k \in Nat /\ (p % B) + k < B /\ p + k = p + i - 1 /\ (p % B) + k = (p % B) + i - 1
      <4>1. \A q \in 0 .. B - 1 : q + k < B <=> i <= B - q
        BY <1>1
      <4>2. i \in 1 .. B - (p % B)
        BY <2>2
      <4>3. k \in Nat /\ p + k = p + i - 1 /\ (p % B) + k = (p % B) + i - 1
        BY <1>1, <2>1, <4>2
      <4>4. (p % B) + k < B
        BY <2>1, <4>1, <4>2
      <4> QED
        BY <4>3, <4>4
    <3> HIDE DEF k
    <3>2. FileByte(name, p + k) = <<FileSector(name, p \div B), (p % B) + k>>
      BY <3>1, ByteOf
    <3>3. f.file.sector - 1 = p \div B
      BY <2>6
    <3> QED
      BY <1>1, <2>5, <3>1, <3>2, <3>3
  <2> QED
    BY <2>3, <2>4, <2>5, <2>7
<1> QED
  BY <1>2, <1>3

LEMMA ReadStep ==
    ASSUME ~ShortReads, FileInv, NEW s \in Slots, NEW n \in ReadSizes, Read(s, n)
    PROVE  FileInv'
<1>1. PICK b, f, name, p, d : b = Files[s] /\ f = ra[b] /\ name = open[s] /\ p = pos[s] /\ d = Drained(f, n)
  OBVIOUS
<1>2. /\ call.pc = "idle" /\ s \in Live \ astray /\ p + n <= Extent(name) /\ (f.ptr % B = 0 \/ n >= B)
      /\ ra' = [ra EXCEPT ![b].ptr = f.ptr + d]
      /\ call' = [pc |-> "read", slot |-> s, asked |-> n, left |-> n - d, ok |-> TRUE,
                  got |-> Bytes(f.buffer, f.ptr % B, d)]
      /\ UNCHANGED <<sdVars, volume, fat, pos, astray, tableVars>>
  BY <1>1 DEF Read, Idle, Pc
<1>3. /\ f \in [file : Cursor, ptr : Nat, buffer : Int] /\ p \in Nat /\ n \in Nat /\ b \in Blocks
      /\ B \in Nat \ {0} /\ ra \in Memory
  BY <1>1, <1>2, LiveIs, FilesAssumption DEF FileInv, Table
<1>4. Placed(s)
  BY <1>2 DEF FileInv
<1>5. OnChain(f.file, name) /\ InPlace(f, name, p)
  BY <1>1, <1>2, <1>4 DEF Placed, Sought, Reached
<1>6. f.ptr % B = p % B
  BY <1>5 DEF InPlace
<1>7. /\ d \in 0 .. n /\ f.ptr + d \in Nat /\ (f.ptr + d) % B = 0
      /\ (p + d) % B = 0 /\ f.file.sector * B = p + d
      /\ \A i \in 1 .. d : FileByte(name, p + i - 1) = <<f.buffer, (f.ptr % B) + i - 1>>
  BY <1>1, <1>2, <1>3, <1>5, <1>6, DrainedIs
<1>8. f.ptr % B \in Nat /\ f.buffer \in Int /\ d \in Nat
  <2>1. f.ptr \in Nat /\ f.buffer \in Int /\ d \in Nat
    BY <1>3, <1>7
  <2>2. f.ptr % B \in Nat
    BY <1>3, <2>1, Division
  <2> QED
    BY <2>1, <2>2
<1> DEFINE got == Bytes(f.buffer, f.ptr % B, d)
<1>9. /\ got \in Seq(Int \X Int) /\ Len(got) = d
      /\ \A i \in 1 .. d : got[i] = <<f.buffer, (f.ptr % B) + i - 1>>
  BY <1>8, BytesOf
<1> HIDE DEF got
<1>10. /\ call' \in Reading /\ call'.pc = "read" /\ call'.slot = s /\ call'.asked = n /\ call'.left = n - d
       /\ call'.got = got
  <2>1. n - d \in Nat
    BY <1>3, <1>7
  <2>2. call' = [pc |-> "read", slot |-> s, asked |-> n, left |-> n - d, ok |-> TRUE, got |-> got]
    BY <1>2 DEF got
  <2> QED
    BY <1>3, <1>9, <2>1, <2>2 DEF Reading
<1> DEFINE r == [f EXCEPT !.ptr = f.ptr + d]
<1>11. r \in [file : Cursor, ptr : Nat, buffer : Int] /\ r.file = f.file /\ r.ptr = f.ptr + d
  BY <1>3, <1>7
<1>12. ra' = [ra EXCEPT ![b] = r] /\ ra'[b] = r
  BY <1>1, <1>2, <1>3 DEF Memory
<1> HIDE DEF r
<1>13. p + n - (n - d) = p + d
  BY <1>3, <1>7
<1>14. Placed(s)'
  <2>1. ra'[Files'[s]] = r /\ open'[s] = name /\ pos'[s] = p
    BY <1>1, <1>2, <1>12 DEF tableVars
  <2>2. OnChain(ra[Files[s]].file, open[s])'
    BY <1>2, <1>5, <1>11, <2>1 DEF OnChain, Number
  <2>3. InPlace(ra[Files[s]], open[s], Reached(s))'
    BY <1>7, <1>10, <1>11, <1>13, <2>1 DEF InPlace, Reached
  <2> QED
    BY <2>2, <2>3 DEF Placed
<1>15. ReadInStep'
  <2>1. /\ open'[s] = name /\ pos'[s] = p /\ volume' = volume
        /\ n - d <= n /\ n - (n - d) = d /\ Reached(s)' = p + d
    BY <1>1, <1>2, <1>3, <1>7, <1>10, <1>13 DEF tableVars, Reached
  <2>2. \A i \in 1 .. d : got[i] = FileByte(name, p + i - 1)'
    BY <1>7, <1>9, <2>1 DEF FileByte, Lba, data_start, root_directory_start, fat_start
  <2>3. Extent(name)' = Extent(name)
    BY <2>1 DEF Extent
  <2> QED
    BY <1>2, <1>7, <1>9, <1>10, <2>1, <2>2, <2>3 DEF ReadInStep
<1> QED
  BY <1>1, <1>2, <1>3, <1>10, <1>11, <1>12, <1>14, <1>15, OneFile DEF FileInv, Table, FatInv, Matches, fat_start

\* The sector of a file that its cursor is at.
LEMMA CursorSector ==
    ASSUME Booted, NEW name \in Names, NEW f \in Cursor, OnChain(f, name), ~IsEnd(f.cluster)
    PROVE  /\ Lba(f.cluster, f.sector % ClusterSize) = FileSector(name, f.sector)
           /\ \A r \in FileRead(f) : r \in [ok : BOOLEAN, data : Int] /\ (r.ok => r.data = FileSector(name, f.sector))
<1> DEFINE lba == Lba(f.cluster, f.sector % ClusterSize)
<1>1. f.cluster = volume.chain[name][Number(f)] /\ f.cluster \in Cluster
  BY ClusterOf DEF Booted
<1>2. lba = FileSector(name, f.sector)
  BY <1>1 DEF FileSector, Number
<1>3. lba \in Nat
  <2>1. f.cluster \in Nat /\ f.cluster >= 2
    BY <1>1, Clusters DEF Booted, Cluster
  <2>2. data_start \in Nat /\ ClusterSize \in Nat \ {0} /\ f.sector \in Nat
    BY Clusters, FatAssumption DEF Booted, Cursor
  <2>3. f.sector % ClusterSize \in Nat
    BY <2>2, Division
  <2>4. ClusterSize * (f.cluster - 2) \in Nat
    BY <2>1, <2>2
  <2> QED
    BY <2>2, <2>3, <2>4 DEF Lba
<1> HIDE DEF lba
<1>4. \A r \in Reads(lba) : r \in [ok : BOOLEAN, data : Int] /\ (r.ok => r.data = lba)
  BY <1>3, ReadOf
<1> QED
  BY <1>2, <1>4 DEF FileRead, lba

\* Whatever the cursor, even of a file astray, something of the right kind is
\* read.
LEMMA FileReadIs ==
    ASSUME Booted, NEW f \in Cursor, NEW r \in FileRead(f)
    PROVE  r \in [ok : BOOLEAN, data : Int]
<1>1. data_start \in Nat /\ ClusterSize \in Nat \ {0} /\ f.sector \in Nat /\ f.cluster \in Nat
  BY Clusters, FatAssumption DEF Booted, Cursor
<1>2. f.sector % ClusterSize \in Nat
  BY <1>1, Division
<1>3. Lba(f.cluster, f.sector % ClusterSize) \in Int
  BY <1>1, <1>2 DEF Lba
<1> QED
  BY <1>3, ReadOfAny DEF Booted, FileRead

\* Before the end of the file the cursor is at a cluster.
LEMMA BeforeEnd ==
    ASSUME Volume, NEW name \in Names, NEW f \in Cursor, OnChain(f, name), f.sector * B < Extent(name)
    PROVE  ~IsEnd(f.cluster)
<1>1. f.sector \in Nat /\ ClusterSize \in Nat \ {0} /\ B \in Nat \ {0} /\ Len(volume.chain[name]) \in Nat
  BY FatAssumption, FilesAssumption, Clusters DEF Cursor, Entries
<1>2. f.sector * B < (Len(volume.chain[name]) * ClusterSize) * B
  BY DEF Extent
<1>3. Number(f) <= Len(volume.chain[name])
  BY <1>1, <1>2, WithinChain DEF Number
<1> QED
  BY <1>3, ClusterOf

\* The place in a file after count bytes of the sector at p.
LEMMA AfterSector ==
    ASSUME NEW p \in Nat, p % B = 0, NEW sector \in Nat, sector * B = p, NEW ptr \in Nat, ptr % B = p % B,
           NEW count \in 1 .. B
    PROVE  /\ p \div B = sector /\ (ptr + count) % B = (p + count) % B
           /\ IF count = B THEN (p + count) % B = 0 /\ (sector + 1) * B = p + count
              ELSE (p + count) % B # 0 /\ (sector + 1) * B = p + count + B - ((p + count) % B)
<1>1. B \in Nat \ {0} /\ count \in Nat
  BY FilesAssumption
<1>2. p \div B = sector
  <2>1. p = (p \div B) * B /\ p \div B \in Nat
    BY <1>1, AtStart
  <2> DEFINE q == p \div B
  <2>2. q \in Int /\ sector \in Int /\ q * B = sector * B
    BY <2>1
  <2> HIDE DEF q
  <2>3. q = sector
    BY <1>1, <2>2, Factor
  <2> QED
    BY <2>3 DEF q
<1>3. (sector + 1) * B = p + B
  BY <1>1
<1>4. CASE count = B
  <2>1. (p + B - (p % B)) % B = 0
    BY <1>1, NextStart
  <2>2. (ptr + B - (ptr % B)) % B = 0
    BY <1>1, NextStart
  <2>3. p + B - (p % B) = p + count /\ ptr + B - (ptr % B) = ptr + count
    BY <1>1, <1>4
  <2> QED
    BY <1>2, <1>3, <1>4, <2>1, <2>2, <2>3
<1>5. CASE count # B
  <2>1. (p % B) + count < B /\ (ptr % B) + count < B
    BY <1>1, <1>5
  <2>2. (p + count) % B = (p % B) + count
    BY <1>1, <2>1, SameSector
  <2>3. (ptr + count) % B = (ptr % B) + count
    BY <1>1, <2>1, SameSector
  <2>4. (p + count) % B = count /\ (ptr + count) % B = count
    BY <1>1, <2>2, <2>3
  <2> QED
    BY <1>1, <1>2, <1>3, <1>5, <2>4
<1> QED
  BY <1>4, <1>5

LEMMA ReadSectorStep == ASSUME FileInv, CardInv, ReadSector PROVE FileInv'
<1>1. PICK s, b, f, name, p, count :
        /\ s = call.slot /\ b = Files[s] /\ f = ra[b] /\ name = open[s]
        /\ p = pos[s] + call.asked - call.left /\ count = IF call.left >= B THEN B ELSE call.left
  OBVIOUS
<1>2. call.pc = "read" /\ call.left > 0
  BY DEF ReadSector
<1>3. /\ call \in Reading /\ call.left \in Nat /\ call.asked \in Nat /\ call.ok \in BOOLEAN
      /\ call.got \in Seq(Int \X Int) /\ s \in Slots /\ s \in Live
  BY <1>1, <1>2, CallIs DEF FileInv, Calls, Reading
<1>4. /\ f \in [file : Cursor, ptr : Nat, buffer : Int] /\ f.file \in Cursor /\ b \in Blocks /\ ra \in Memory
      /\ pos[s] \in Nat /\ name \in Names
  BY <1>1, <1>3, LiveIs DEF FileInv, Table
<1>5. count \in 1 .. B /\ count <= call.left /\ B \in Nat \ {0}
  BY <1>1, <1>2, <1>3, FilesAssumption
<1>6. Booted /\ FatInv
  BY <1>2, Up
<1>7. PICK r, x, buffer :
        /\ r \in FileRead(f.file) /\ x \in FileNextSector(f.file)
        /\ buffer = IF call.left < B /\ r.ok THEN r.data ELSE f.buffer
        /\ ra' = [ra EXCEPT ![b] = [file |-> x.file, ptr |-> f.ptr + count, buffer |-> buffer]]
        /\ fat' = x.fat
        /\ call' = [call EXCEPT !.left = call.left - count, !.ok = call.ok /\ r.ok,
                                !.got = call.got \o Bytes(IF call.left < B THEN buffer ELSE r.data, 0, count)]
        /\ astray' = astray \union (IF r.ok /\ x.ok THEN {} ELSE {s})
        /\ UNCHANGED <<sdVars, volume, pos, tableVars>>
  <2>1. PICK r \in FileRead(f.file), x \in FileNextSector(f.file) :
          /\ ra' = [ra EXCEPT ![b] = [file |-> x.file, ptr |-> f.ptr + count,
                                     buffer |-> IF call.left < B /\ r.ok THEN r.data ELSE f.buffer]]
          /\ fat' = x.fat
          /\ call' = [call EXCEPT !.left = @ - count, !.ok = @ /\ r.ok,
                        !.got = @ \o Bytes(IF call.left < B
                                           THEN (IF call.left < B /\ r.ok THEN r.data ELSE f.buffer)
                                           ELSE r.data, 0, count)]
          /\ astray' = astray \union (IF r.ok /\ x.ok THEN {} ELSE {s})
    BY <1>1, ZenonT(60) DEF ReadSector
  <2>2. UNCHANGED <<sdVars, volume, pos, tableVars>>
    BY DEF ReadSector
  <2> QED
    BY <2>1, <2>2, Zenon
<1>8. /\ r \in [ok : BOOLEAN, data : Int] /\ x.ok \in BOOLEAN /\ x.file \in Cursor /\ Matches(x.fat)
      /\ x.file.sector = f.file.sector + 1 /\ x.file.start = f.file.start
  BY <1>4, <1>6, <1>7, FileReadIs, NextSector
<1>9. buffer \in Int /\ (IF call.left < B THEN buffer ELSE r.data) \in Int
  BY <1>4, <1>7, <1>8
<1> DEFINE data == IF call.left < B THEN buffer ELSE r.data
           new == [file |-> x.file, ptr |-> f.ptr + count, buffer |-> buffer]
           more == Bytes(data, 0, count)
           got == call.got \o more
<1>10. /\ more \in Seq(Int \X Int) /\ Len(more) = count /\ \A i \in 1 .. count : more[i] = <<data, i - 1>>
  <2>1. data \in Int /\ 0 \in Nat /\ count \in Nat
    BY <1>5, <1>9
  <2> HIDE DEF data
  <2>2. /\ more \in Seq(Int \X Int) /\ Len(more) = count
        /\ \A i \in 1 .. count : more[i] = <<data, 0 + i - 1>>
    BY <2>1, BytesOf
  <2>3. \A i \in 1 .. count : 0 + i - 1 = i - 1
    OBVIOUS
  <2> HIDE DEF more
  <2> QED
    BY <2>2, <2>3
<1>11. new \in [file : Cursor, ptr : Nat, buffer : Int] /\ ra' = [ra EXCEPT ![b] = new] /\ ra'[b] = new
  BY <1>4, <1>5, <1>7, <1>8, <1>9 DEF Memory
<1>12. /\ got \in Seq(Int \X Int) /\ Len(got) = Len(call.got) + count
       /\ \A i \in 1 .. Len(got) :
            got[i] = IF i <= Len(call.got) THEN call.got[i] ELSE more[i - Len(call.got)]
  <2> HIDE DEF more
  <2>1. /\ got \in Seq(Int \X Int) /\ Len(got) = Len(call.got) + Len(more)
        /\ \A i \in 1 .. Len(call.got) + Len(more) :
             got[i] = IF i <= Len(call.got) THEN call.got[i] ELSE more[i - Len(call.got)]
    BY <1>3, <1>10, ConcatProperties, Zenon
  <2> HIDE DEF got
  <2> QED
    BY <1>10, <2>1
<1>13. /\ call' \in Reading /\ call'.pc = "read" /\ call'.slot = s /\ call'.asked = call.asked
       /\ call'.left = call.left - count /\ call'.got = got
  <2>1. call' = [call EXCEPT !.left = call.left - count, !.ok = call.ok /\ r.ok, !.got = got]
    BY <1>7
  <2>2. call.left - count \in Nat /\ (call.ok /\ r.ok) \in BOOLEAN
    BY <1>3, <1>5, <1>8
  <2> HIDE DEF got
  <2> QED
    BY <1>1, <1>3, <1>12, <2>1, <2>2 DEF Reading
<1>14. FatInv'
  BY <1>7, <1>8 DEF FatInv, Matches, fat_start
<1>15. ASSUME s \notin astray'
       PROVE  /\ Placed(s)'
              /\ call'.left <= call'.asked /\ (pos[s] + call.asked <= Extent(open[s]))'
              /\ call'.left > 0 => Reached(s)' % B = 0
              /\ Len(got) = call.asked - call'.left
              /\ \A i \in 1 .. Len(got) : got[i] = FileByte(name, pos[s] + i - 1)
  <2>1. s \notin astray /\ r.ok /\ x.ok
    BY <1>7, <1>8, <1>15
  <2>2. /\ call.left <= call.asked /\ pos[s] + call.asked <= Extent(name) /\ p % B = 0
        /\ Len(call.got) = call.asked - call.left
        /\ \A i \in 1 .. Len(call.got) : call.got[i] = FileByte(name, pos[s] + i - 1)
    BY <1>1, <1>2, <1>3, <2>1 DEF FileInv, ReadInStep, Reached
  <2>3. OnChain(f.file, name) /\ InPlace(f, name, p)
    BY <1>1, <1>2, <1>3, <2>1 DEF FileInv, Placed, Sought, Reached
  <2>4. p \in Nat /\ f.file.sector * B = p /\ f.ptr % B = p % B /\ f.ptr \in Nat /\ f.file.sector \in Nat
    <3>1. p \in Nat
      BY <1>1, <1>3, <1>4, <2>2
    <3>2. f.ptr \in Nat /\ f.file.sector \in Nat
      BY <1>4 DEF Cursor
    <3> QED
      BY <2>2, <2>3, <3>1, <3>2 DEF InPlace
  <2>5. ~IsEnd(f.file.cluster)
    <3>1. Extent(name) \in Int
      BY <1>4, <1>6, Clusters, FatAssumption, FilesAssumption DEF Extent, Entries, Booted
    <3>2. p < Extent(name)
      BY <1>1, <1>2, <1>3, <1>4, <2>2, <3>1
    <3> QED
      BY <1>4, <1>6, <2>3, <2>4, <3>2, BeforeEnd DEF Booted
  <2>6. OnChain(x.file, name)
    BY <1>4, <1>6, <1>7, <2>1, <2>3, <2>5, NextSectorOnChain
  <2>7. r.data = FileSector(name, f.file.sector)
    BY <1>4, <1>6, <1>7, <2>1, <2>3, <2>5, CursorSector
  <2>8. /\ p \div B = f.file.sector /\ (f.ptr + count) % B = (p + count) % B
        /\ IF count = B THEN (p + count) % B = 0 /\ (f.file.sector + 1) * B = p + count
           ELSE (p + count) % B # 0 /\ (f.file.sector + 1) * B = p + count + B - ((p + count) % B)
    <3>1. /\ p \in Nat /\ p % B = 0 /\ f.file.sector \in Nat /\ f.file.sector * B = p
          /\ f.ptr \in Nat /\ f.ptr % B = p % B /\ count \in 1 .. B
      BY <1>5, <2>2, <2>4
    <3> QED
      BY <3>1, AfterSector
  <2>9. data = FileSector(name, f.file.sector) /\ (count # B => buffer = data)
    <3>1. call.left >= B => count = B
      BY <1>1
    <3>2. call.left >= B \/ call.left < B
      BY <1>3, <1>5
    <3>3. call.left < B => buffer = r.data
      BY <1>7, <2>1
    <3> QED
      BY <2>7, <3>1, <3>2, <3>3
  <2>10. Reached(s)' = p + count /\ open'[s] = name /\ Files'[s] = b /\ volume' = volume /\ pos'[s] = pos[s]
    <3>1. open' = open /\ Files' = Files /\ volume' = volume /\ pos' = pos
      BY <1>7 DEF tableVars
    <3>2. pos[s] + call.asked - (call.left - count) = p + count
      <4>1. p = pos[s] + call.asked - call.left
        BY <1>1
      <4>2. pos[s] \in Nat /\ call.asked \in Nat /\ call.left \in Nat /\ count \in Nat
        BY <1>3, <1>4, <1>5
      <4> QED
        BY <4>1, <4>2
    <3> QED
      BY <1>1, <1>13, <3>1, <3>2 DEF Reached
  <2>11. /\ new.file = x.file /\ new.ptr = f.ptr + count /\ new.buffer = buffer
         /\ f.file.sector + 1 - 1 = f.file.sector
    BY <2>4
  <2> HIDE DEF new, data, more, got
  <2>12. InPlace(new, name, p + count)
    <3>1. new.file.sector = f.file.sector + 1 /\ new.file.sector - 1 = f.file.sector
      BY <1>8, <2>4, <2>11
    <3>2. CASE count = B
      BY <2>8, <2>11, <3>1, <3>2 DEF InPlace
    <3>3. CASE count # B
      BY <2>8, <2>9, <2>11, <3>1, <3>3 DEF InPlace
    <3> QED
      BY <3>2, <3>3
  <2>13. Placed(s)'
    <3>1. OnChain(ra[Files[s]].file, open[s])'
      BY <1>11, <2>6, <2>10, <2>11 DEF OnChain, Number
    <3>2. InPlace(ra[Files[s]], open[s], Reached(s))'
      BY <1>11, <2>10, <2>12 DEF InPlace, FileSector, Lba, data_start, root_directory_start, fat_start
    <3> QED
      BY <3>1, <3>2 DEF Placed
  <2>14. ASSUME NEW i \in 1 .. Len(got) PROVE got[i] = FileByte(name, pos[s] + i - 1)
    <3>1. CASE i <= Len(call.got)
      <4>1. Len(call.got) \in Nat /\ i \in 1 .. Len(call.got)
        BY <1>3, <2>14, <3>1
      <4>2. got[i] = call.got[i]
        BY <1>12, <2>14, <3>1
      <4> QED
        BY <2>2, <4>1, <4>2
    <3>2. CASE ~(i <= Len(call.got))
      <4> DEFINE k == (i - Len(call.got)) - 1
      <4>1. Len(call.got) \in Nat /\ Len(call.got) = call.asked - call.left
        BY <1>3, <2>2
      <4>2. k \in 0 .. count - 1 /\ i - Len(call.got) \in 1 .. count /\ p + k = pos[s] + i - 1
        <5>1. i \in Nat /\ i <= Len(call.got) + count /\ i > Len(call.got) /\ count \in Nat
          <6>1. count \in Nat /\ Len(got) = Len(call.got) + count
            BY <1>5, <1>12
          <6>2. i \in Nat /\ i <= Len(got)
            BY <2>14, <4>1, <6>1
          <6> QED
            BY <3>2, <4>1, <6>1, <6>2
        <5>2. k \in 0 .. count - 1 /\ i - Len(call.got) \in 1 .. count
          BY <4>1, <5>1
        <5>3. p + k = pos[s] + i - 1
          <6>1. pos[s] \in Nat /\ p = pos[s] + call.asked - call.left /\ k = i - Len(call.got) - 1
            BY <1>1, <1>4
          <6> HIDE DEF k
          <6> QED
            BY <1>3, <4>1, <5>1, <6>1
        <5> QED
          BY <5>2, <5>3
      <4>3. got[i] = <<data, k>>
        BY <1>10, <1>12, <2>14, <3>2, <4>2
      <4> HIDE DEF k
      <4>4. k \in Nat /\ (p % B) + k < B /\ (p % B) + k = k
        BY <1>5, <2>2, <4>2
      <4>5. FileByte(name, p + k) = <<FileSector(name, p \div B), (p % B) + k>>
        BY <2>4, <4>4, ByteOf
      <4> QED
        BY <2>8, <2>9, <4>2, <4>3, <4>4, <4>5
    <3> QED
      BY <3>1, <3>2
  <2>15. call'.left > 0 => Reached(s)' % B = 0
    <3>1. call.left - count > 0 => count = B
      BY <1>1, <1>3, <1>5
    <3> QED
      BY <1>13, <2>8, <2>10, <3>1
  <2>16. call'.left <= call'.asked /\ Len(got) = call.asked - call'.left
    <3>1. Len(got) = Len(call.got) + count /\ call'.left = call.left - count /\ call'.asked = call.asked
      BY <1>12, <1>13
    <3>2. call.left \in Nat /\ call.asked \in Nat /\ count \in Nat
      BY <1>3, <1>5
    <3> QED
      BY <2>2, <3>1, <3>2
  <2>17. (pos[s] + call.asked <= Extent(open[s]))'
    BY <1>13, <2>2, <2>10 DEF Extent
  <2> QED
    BY <2>13, <2>14, <2>15, <2>16, <2>17
<1> HIDE DEF new, data, more, got
<1>16. ReadInStep'
  <2> SUFFICES ASSUME s \notin astray' PROVE ReadInStep'
    BY <1>13 DEF ReadInStep
  <2>1. volume' = volume /\ open'[s] = name /\ pos'[s] = pos[s]
    BY <1>1, <1>7 DEF tableVars
  <2>2. \A i \in 1 .. Len(got) : got[i] = FileByte(name, pos[s] + i - 1)'
    BY <1>15, <2>1 DEF FileByte, Lba, data_start, root_directory_start, fat_start
  <2> QED
    BY <1>13, <1>15, <2>1, <2>2 DEF ReadInStep
<1>17. /\ pos' \in [Slots -> Nat] /\ pos' = pos /\ astray \subseteq astray' /\ astray' \subseteq astray \union {s}
       /\ ra' = [ra EXCEPT ![Files[s]] = new]
  BY <1>1, <1>7, <1>11 DEF FileInv, Table
<1> QED
  BY <1>1, <1>2, <1>3, <1>7, <1>11, <1>13, <1>14, <1>15, <1>16, <1>17, OneFile

LEMMA ReadReturnsStep == ASSUME FileInv, ReadReturns PROVE FileInv'
<1>1. PICK s : s = call.slot
  OBVIOUS
<1>2. /\ call.pc = "read" /\ call.left = 0 /\ call'.pc = "idle" /\ call' \in Standing
      /\ pos' = [pos EXCEPT ![s] = pos[s] + call.asked]
      /\ UNCHANGED <<sdVars, volume, fat, ra, astray, tableVars>>
  BY <1>1 DEF ReadReturns, Idle, Pc, Standing
<1>3. s \in Live /\ s \in Slots /\ call.asked \in Nat
  BY <1>1, <1>2, CallIs DEF FileInv, Calls, Reading
<1>4. /\ pos' \in [Slots -> Nat] /\ pos'[s] = pos[s] + call.asked /\ \A t \in Slots \ {s} : pos'[t] = pos[t]
      /\ pos[s] \in Nat
  BY <1>2, <1>3 DEF FileInv, Table
<1>5. /\ ra[Files[s]] \in [file : Cursor, ptr : Nat, buffer : Int] /\ ra' = [ra EXCEPT ![Files[s]] = ra[Files[s]]]
  BY <1>2, <1>3, LiveIs DEF FileInv, Table, Memory
<1>6. s \notin astray' => Placed(s)'
  <2>1. Reached(s)' = Reached(s)
    BY <1>1, <1>2, <1>3, <1>4 DEF Reached
  <2>2. ~Sought(s)
    BY <1>2 DEF Sought
  <2>3. s \notin astray => Placed(s)
    BY <1>3 DEF FileInv
  <2>4. ra' = ra /\ Files' = Files /\ open' = open /\ volume' = volume /\ astray' = astray
    BY <1>2 DEF tableVars
  <2>5. s \notin astray => OnChain(ra[Files[s]].file, open[s])'
    BY <2>3, <2>4 DEF Placed, OnChain, Number
  <2>6. s \notin astray => InPlace(ra[Files[s]], open[s], Reached(s))'
    BY <2>1, <2>2, <2>3, <2>4
      DEF Placed, InPlace, FileSector, Lba, data_start, root_directory_start, fat_start
  <2> QED
    BY <2>4, <2>5, <2>6 DEF Placed
<1>7. FatInv' /\ ReadInStep'
  BY <1>2 DEF FileInv, FatInv, Matches, fat_start, ReadInStep
<1> QED
  BY <1>1, <1>2, <1>3, <1>4, <1>5, <1>6, <1>7, OneFile

LEMMA SeekBegins ==
    ASSUME FileInv, NEW s \in Slots, NEW o \in Offsets, NEW current \in BOOLEAN, Seek(s, o, current)
    PROVE  FileInv'
<1>1. PICK b, f, name, to :
        b = Files[s] /\ f = ra[b] /\ name = open[s] /\ to = IF current THEN o + f.ptr ELSE o
  OBVIOUS
<1>2. /\ call.pc = "idle" /\ s \in Live \ astray
      /\ ra' = [ra EXCEPT ![b].file = Rewound(f.file, Wanted(to))]
      /\ call' = [pc |-> "seek", slot |-> s, to |-> to]
      /\ UNCHANGED <<sdVars, volume, fat, pos, astray, tableVars>>
  BY <1>1 DEF Seek, Idle, Pc
<1>3. /\ f \in [file : Cursor, ptr : Nat, buffer : Int] /\ f.file \in Cursor /\ b \in Blocks /\ ra \in Memory
      /\ name \in Names
  BY <1>1, <1>2, LiveIs DEF FileInv, Table
<1>4. to \in Nat
  BY <1>1, <1>3, FilesAssumption
<1>5. Wanted(to) \in Nat
  <2>1. to % B \in 0 .. B - 1 /\ to \div B \in Nat /\ to = B * (to \div B) + (to % B) /\ B \in Nat \ {0}
    BY <1>4, FilesAssumption, Division
  <2>2. to - (to % B) = B * (to \div B)
    BY <1>4, <2>1
  <2>3. B * (to \div B) \in Nat
    BY <2>1
  <2> QED
    BY <2>2, <2>3 DEF Wanted
<1>6. OnChain(f.file, name)
  BY <1>1, <1>2 DEF FileInv, Placed
<1>7. Volume /\ f.file.start \in Nat
  <2>1. volume.chain[name] \in Seq(Cluster) /\ Len(volume.chain[name]) \in Nat \ {0} /\ Cluster \subseteq Nat
    BY <1>3, Clusters DEF FileInv, Entries
  <2>2. f.file.start \in Cluster
    BY <1>6, <2>1 DEF OnChain
  <2> QED
    BY <2>1, <2>2 DEF FileInv
<1>8. PICK g : g = Rewound(f.file, Wanted(to))
  OBVIOUS
<1>9. g \in Cursor /\ OnChain(g, name)
  BY <1>3, <1>5, <1>6, <1>7, <1>8, RewoundOnChain
<1> DEFINE r == [f EXCEPT !.file = g]
<1>10. r \in [file : Cursor, ptr : Nat, buffer : Int] /\ r.file = g
  BY <1>3, <1>9
<1>11. ra' = [ra EXCEPT ![b] = r] /\ ra'[b] = r
  BY <1>1, <1>2, <1>3, <1>8 DEF Memory
<1> HIDE DEF r
<1>12. call' \in Seeking /\ call'.pc = "seek" /\ call'.slot = s
  BY <1>2, <1>4 DEF Seeking
<1>13. Placed(s)'
  BY <1>1, <1>2, <1>9, <1>10, <1>11, <1>12 DEF Placed, Sought, OnChain, Number, tableVars
<1>14. FatInv' /\ ReadInStep'
  BY <1>2, <1>12 DEF FileInv, FatInv, Matches, fat_start, ReadInStep
<1> QED
  BY <1>1, <1>2, <1>10, <1>11, <1>12, <1>13, <1>14, OneFile DEF FileInv, Table

\* Who is being sought.
LEMMA SeekingIs ==
    ASSUME FileInv, CardInv, call.pc = "seek"
    PROVE  /\ call \in Seeking /\ call.slot \in Live /\ call.to \in Nat /\ Booted /\ FatInv
           /\ ra \in Memory /\ Files[call.slot] \in Blocks /\ open[call.slot] \in Names
           /\ ra[Files[call.slot]] \in [file : Cursor, ptr : Nat, buffer : Int]
           /\ ra[Files[call.slot]].file \in Cursor
           /\ call.slot \notin astray => OnChain(ra[Files[call.slot]].file, open[call.slot])
<1>1. call \in Seeking /\ call.slot \in Live /\ call.to \in Nat
  BY CallIs DEF FileInv, Calls, Seeking
<1>2. Booted /\ FatInv
  BY Up
<1>3. /\ Files[call.slot] \in Blocks /\ open[call.slot] \in Names
      /\ ra[Files[call.slot]] \in [file : Cursor, ptr : Nat, buffer : Int] /\ ra[Files[call.slot]].file \in Cursor
  BY <1>1, LiveIs
<1> QED
  BY <1>1, <1>2, <1>3 DEF FileInv, Table, Placed

LEMMA SeekWalksStep == ASSUME FileInv, CardInv, SeekWalks PROVE FileInv'
<1>1. PICK s, b, f, name : s = call.slot /\ b = Files[s] /\ f = ra[b] /\ name = open[s]
  OBVIOUS
<1>2. /\ s \in Live /\ call \in Seeking /\ call.to \in Nat /\ Booted /\ FatInv /\ ra \in Memory /\ b \in Blocks
      /\ name \in Names /\ f \in [file : Cursor, ptr : Nat, buffer : Int] /\ f.file \in Cursor
      /\ s \notin astray => OnChain(f.file, name)
      /\ call.pc = "seek"
  BY <1>1, SeekingIs DEF SeekWalks
<1>3. PICK x \in SeekStep(f.file) :
        /\ fat' = x.fat /\ call' = IF x.ok THEN call ELSE Idle
        /\ ra' = [ra EXCEPT ![b].file = x.file, ![b].ptr = IF x.ok THEN @ ELSE call.to]
        /\ astray' = astray \union (IF Lost(f.file, x.ok) THEN {s} ELSE {})
  BY <1>1 DEF SeekWalks
<1>4. UNCHANGED <<sdVars, volume, pos, tableVars>>
  BY DEF SeekWalks
<1>5. /\ x.ok \in BOOLEAN /\ x.file \in Cursor /\ Matches(x.fat)
      /\ OnChain(f.file, name) /\ ~IsEnd(f.file.cluster) /\ x.ok => OnChain(x.file, name)
  BY <1>2, <1>3, SeekStepOnChain
<1>6. PICK r, ptr : r = ra'[b] /\ ptr = IF x.ok THEN f.ptr ELSE call.to
  OBVIOUS
<1>7. /\ r \in [file : Cursor, ptr : Nat, buffer : Int] /\ r.file = x.file
      /\ ra' = [ra EXCEPT ![b] = r] /\ ra'[b] = r
  <2>1. ra' = [ra EXCEPT ![b].file = x.file, ![b].ptr = ptr]
    BY <1>1, <1>3, <1>6
  <2>2. ptr \in Nat
    BY <1>2, <1>5, <1>6
  <2>3. ra' \in Memory /\ ra'[b].file = x.file /\ \A c \in Blocks \ {b} : ra'[c] = ra[c]
    BY <1>2, <1>5, <2>1, <2>2 DEF Memory
  <2> QED
    BY <1>2, <1>6, <2>3 DEF Memory
<1>8. call' \in Standing \union Seeking /\ call'.pc \in {"idle", "seek"} /\ (call'.pc = "seek" => call' = call)
  <2>1. Idle \in Standing /\ Idle.pc = "idle"
    BY DEF Idle, Pc, Standing
  <2> QED
    BY <1>2, <1>3, <2>1
<1>9. s \notin astray' => Placed(s)'
  <2> SUFFICES ASSUME s \notin astray' PROVE Placed(s)'
    OBVIOUS
  <2>1. s \notin astray /\ x.ok /\ ~IsEnd(f.file.cluster)
    BY <1>3 DEF Lost
  <2>2. OnChain(x.file, name) /\ call' = call
    BY <1>2, <1>3, <1>5, <2>1
  <2>3. ra'[Files'[s]].file = x.file /\ open'[s] = name /\ volume' = volume
    BY <1>1, <1>4, <1>6, <1>7 DEF tableVars
  <2> QED
    BY <1>1, <1>2, <2>2, <2>3 DEF Placed, Sought, OnChain, Number
<1>10. FatInv' /\ ReadInStep'
  BY <1>3, <1>4, <1>5, <1>8 DEF FatInv, Matches, fat_start, ReadInStep
<1>11. /\ pos' \in [Slots -> Nat] /\ pos' = pos /\ astray \subseteq astray' /\ astray' \subseteq astray \union {s}
       /\ call'.pc # "idle" => call'.slot = s
  BY <1>1, <1>3, <1>4, <1>8 DEF FileInv, Table
<1>12. ra' = [ra EXCEPT ![Files[s]] = r]
  BY <1>1, <1>7
<1> QED
  BY <1>1, <1>2, <1>4, <1>7, <1>8, <1>9, <1>10, <1>11, <1>12, OneFile

\* What a seek lands at.
LEMMA WantedIs ==
    ASSUME NEW to \in Nat
    PROVE  /\ Wanted(to) \in Nat /\ Lands(to) \in Nat /\ Lands(to) % B = to % B
           /\ IF to % B = 0 THEN Wanted(to) * B = Lands(to)
              ELSE (Wanted(to) + 1) * B = Lands(to) + B - (to % B)
<1>1. to % B \in 0 .. B - 1 /\ to \div B \in Nat /\ to = B * (to \div B) + (to % B) /\ B \in Nat \ {0}
  BY FilesAssumption, Division
<1>2. to - (to % B) = B * (to \div B)
  BY <1>1
<1>3. Wanted(to) \in Nat
  <2>1. B * (to \div B) \in Nat
    BY <1>1
  <2> QED
    BY <1>2, <2>1 DEF Wanted
<1>4. Lands(to) = Wanted(to) * B + (to % B)
  BY DEF Lands
<1> DEFINE w == Wanted(to)
           k == to % B
<1>5. w \in Nat /\ k \in 0 .. B - 1
  BY <1>1, <1>3
<1> HIDE DEF w, k
<1>6. (w * B + k) % B = k /\ w * B + k \in Nat
  <2>1. (w * B + k) % B = k
    BY <1>1, <1>5, Quotient
  <2>2. w * B \in Nat
    BY <1>1, <1>5
  <2> QED
    BY <1>5, <2>1, <2>2
<1>7. (w + 1) * B = (w * B + k) + B - k /\ (k = 0 => w * B = w * B + k)
  BY <1>1, <1>5
<1> QED
  BY <1>3, <1>4, <1>6, <1>7 DEF w, k

LEMMA SeekLandsStep == ASSUME FileInv, CardInv, SeekLands PROVE FileInv'
<1>1. PICK s, b, f, name, to :
        s = call.slot /\ b = Files[s] /\ f = ra[b] /\ name = open[s] /\ to = call.to
  OBVIOUS
<1>2. /\ s \in Live /\ to \in Nat /\ Booted /\ FatInv /\ ra \in Memory /\ b \in Blocks
      /\ name \in Names /\ f \in [file : Cursor, ptr : Nat, buffer : Int] /\ f.file \in Cursor
      /\ s \notin astray => OnChain(f.file, name)
      /\ call.pc = "seek"
  BY <1>1, SeekingIs DEF SeekLands
<1>3. PICK g : g = [f.file EXCEPT !.sector = Wanted(to)]
  OBVIOUS
<1>4. /\ SameCluster(f.file.sector, Wanted(to))
      /\ IF to % B = 0
         THEN ra' = [ra EXCEPT ![b].file = g, ![b].ptr = to] /\ UNCHANGED <<fat, astray>>
         ELSE \E r \in FileRead(g), x \in FileNextSector(g) :
                /\ ra' = [ra EXCEPT ![b] = [file |-> x.file, ptr |-> to,
                                            buffer |-> IF r.ok THEN r.data ELSE @.buffer]]
                /\ fat' = x.fat
                /\ astray' = astray \union (IF Lost(g, r.ok /\ x.ok) THEN {s} ELSE {})
      /\ pos' = [pos EXCEPT ![s] = Lands(to)]
      /\ call' = Idle /\ UNCHANGED <<sdVars, volume, tableVars>>
  <2>1. SameCluster(f.file.sector, Wanted(to)) /\ pos' = [pos EXCEPT ![s] = Lands(to)]
    BY <1>1 DEF SeekLands
  <2>2. call' = Idle /\ UNCHANGED <<sdVars, volume, tableVars>>
    BY DEF SeekLands
  <2>3. ASSUME to % B = 0
        PROVE  ra' = [ra EXCEPT ![b].file = g, ![b].ptr = to] /\ UNCHANGED <<fat, astray>>
    BY <1>1, <1>3, <2>3 DEF SeekLands
  <2>4. ASSUME to % B # 0
        PROVE  \E r \in FileRead(g), x \in FileNextSector(g) :
                 /\ ra' = [ra EXCEPT ![b] = [file |-> x.file, ptr |-> to,
                                             buffer |-> IF r.ok THEN r.data ELSE @.buffer]]
                 /\ fat' = x.fat
                 /\ astray' = astray \union (IF Lost(g, r.ok /\ x.ok) THEN {s} ELSE {})
    BY <1>1, <1>3, <2>4, ZenonT(60) DEF SeekLands
  <2> QED
    BY <2>1, <2>2, <2>3, <2>4
<1>5. /\ Wanted(to) \in Nat /\ Lands(to) \in Nat /\ Lands(to) % B = to % B
      /\ IF to % B = 0 THEN Wanted(to) * B = Lands(to)
         ELSE (Wanted(to) + 1) * B = Lands(to) + B - (to % B)
  BY <1>2, WantedIs
<1>6. /\ g \in Cursor /\ g.sector = Wanted(to) /\ g.start = f.file.start /\ g.cluster = f.file.cluster
      /\ s \notin astray => OnChain(g, name)
  <2>1. g \in Cursor /\ g.sector = Wanted(to) /\ g.start = f.file.start /\ g.cluster = f.file.cluster
    BY <1>2, <1>3, <1>5 DEF Cursor
  <2>2. Number(g) = Number(f.file)
    BY <1>4, <2>1 DEF Number, SameCluster
  <2> QED
    BY <1>2, <2>1, <2>2 DEF OnChain
<1>7. call' \in Standing /\ call'.pc = "idle"
  BY <1>4 DEF Idle, Pc, Standing
<1>8. /\ pos' \in [Slots -> Nat] /\ pos'[s] = Lands(to) /\ \A t \in Slots \ {s} : pos'[t] = pos[t]
      /\ s \in Slots /\ Files' = Files /\ open' = open /\ volume' = volume
  BY <1>2, <1>4, <1>5 DEF FileInv, Table, Live, tableVars
<1>9. ReadInStep'
  BY <1>7 DEF ReadInStep
\* Where the file is, if nothing has failed.
<1>10. ASSUME NEW r, ra'[b] = r, OnChain(r.file, name), InPlace(r, name, Lands(to)) PROVE Placed(s)'
  <2>1. OnChain(ra[Files[s]].file, open[s])'
    BY <1>1, <1>8, <1>10 DEF OnChain, Number
  <2>2. InPlace(ra[Files[s]], open[s], Reached(s))'
    BY <1>1, <1>7, <1>8, <1>10 DEF InPlace, Reached, FileSector, Lba, data_start, root_directory_start, fat_start
  <2> QED
    BY <2>1, <2>2 DEF Placed
<1>11. CASE to % B = 0
  <2>1. ra' = [ra EXCEPT ![b].file = g, ![b].ptr = to] /\ UNCHANGED <<fat, astray>>
    BY <1>4, <1>11
  <2>2. PICK r : r = ra'[b]
    OBVIOUS
  <2>3. /\ r \in [file : Cursor, ptr : Nat, buffer : Int] /\ r.file = g /\ r.ptr = to
        /\ ra' = [ra EXCEPT ![b] = r]
    <3>1. ra' \in Memory /\ ra'[b].file = g /\ ra'[b].ptr = to /\ \A c \in Blocks \ {b} : ra'[c] = ra[c]
      BY <1>2, <1>6, <2>1 DEF Memory
    <3> QED
      BY <1>2, <2>2, <3>1 DEF Memory
  <2>4. s \notin astray => Placed(s)'
    <3>1. InPlace(r, name, Lands(to))
      BY <1>5, <1>6, <1>11, <2>3 DEF InPlace
    <3> QED
      BY <1>6, <1>10, <2>2, <2>3, <3>1
  <2>5. FatInv'
    BY <1>2, <1>4, <2>1 DEF FatInv, Matches, fat_start
  <2>6. ra' = [ra EXCEPT ![Files[s]] = r]
    BY <1>1, <2>3
  <2> QED
    <3>1. /\ call.pc = "seek" /\ call.slot = s /\ UNCHANGED <<sdVars, volume, tableVars>>
          /\ astray \subseteq astray' /\ astray' \subseteq astray \union {s}
      BY <1>1, <1>2, <1>4, <2>1
    <3> QED
      BY <1>2, <1>7, <1>8, <1>9, <2>3, <2>4, <2>5, <2>6, <3>1, OneFile
<1>12. CASE to % B # 0
  <2>1. PICK r, x, buffer :
          /\ r \in FileRead(g) /\ x \in FileNextSector(g)
          /\ buffer = IF r.ok THEN r.data ELSE f.buffer
          /\ ra' = [ra EXCEPT ![b] = [file |-> x.file, ptr |-> to, buffer |-> buffer]]
          /\ fat' = x.fat
          /\ astray' = astray \union (IF Lost(g, r.ok /\ x.ok) THEN {s} ELSE {})
    BY <1>1, <1>4, <1>12
  <2>2. /\ r \in [ok : BOOLEAN, data : Int] /\ x.ok \in BOOLEAN /\ x.file \in Cursor /\ Matches(x.fat)
        /\ x.file.sector = Wanted(to) + 1
    BY <1>2, <1>6, <2>1, FileReadIs, NextSector
  <2>3. PICK new : new = [file |-> x.file, ptr |-> to, buffer |-> buffer]
    OBVIOUS
  <2>4. /\ new \in [file : Cursor, ptr : Nat, buffer : Int] /\ ra' = [ra EXCEPT ![Files[s]] = new] /\ ra'[b] = new
        /\ new.file = x.file /\ new.ptr = to /\ new.buffer = buffer
    BY <1>1, <1>2, <2>1, <2>2, <2>3 DEF Memory
  <2>5. ASSUME s \notin astray' PROVE Placed(s)'
    <3>1. s \notin astray /\ r.ok /\ x.ok /\ ~IsEnd(g.cluster)
      BY <2>1, <2>2, <2>5 DEF Lost
    <3>2. OnChain(g, name) /\ OnChain(x.file, name) /\ r.data = FileSector(name, Wanted(to))
      <4>1. OnChain(g, name)
        BY <1>6, <3>1
      <4>2. OnChain(x.file, name)
        BY <1>2, <1>6, <2>1, <3>1, <4>1, NextSectorOnChain
      <4>3. r.data = FileSector(name, g.sector)
        BY <1>2, <1>6, <2>1, <3>1, <4>1, CursorSector
      <4> QED
        BY <1>6, <4>1, <4>2, <4>3
    <3>3. new.file.sector = Wanted(to) + 1 /\ new.file.sector - 1 = Wanted(to)
      BY <1>5, <2>2, <2>4
    <3>4. InPlace(new, name, Lands(to))
      BY <1>5, <1>12, <2>1, <2>4, <3>1, <3>2, <3>3 DEF InPlace
    <3> QED
      BY <1>10, <2>4, <3>2, <3>4
  <2>6. FatInv'
    BY <1>4, <2>1, <2>2 DEF FatInv, Matches, fat_start
  <2> QED
    <3>1. /\ call.pc = "seek" /\ call.slot = s /\ UNCHANGED <<sdVars, volume, tableVars>>
          /\ astray \subseteq astray' /\ astray' \subseteq astray \union {s}
      BY <1>1, <1>2, <1>4, <2>1
    <3> QED
      BY <1>2, <1>7, <1>8, <1>9, <2>4, <2>5, <2>6, <3>1, OneFile
<1> QED
  BY <1>11, <1>12

-----------------------------------------------------------------------------
(* The theorems.                                                           *)

LEMMA FilesNext == ASSUME ~ShortReads, CardInv, FileInv, [Next]_vars PROVE FileInv'
<1>1. CASE Boot
  BY <1>1, BootStep
<1>2. CASE FindDrive
  BY <1>2, FindDriveStep
<1>3. CASE OpenSector
  BY <1>3, OpenSectorStep
<1>4. ASSUME NEW ok \in BOOLEAN, OpenLink(ok) PROVE FileInv'
  BY <1>4, OpenLinkStep
<1>5. CASE ReadSector
  BY <1>5, ReadSectorStep
<1>6. CASE ReadReturns
  BY <1>6, ReadReturnsStep
<1>7. CASE SeekWalks
  BY <1>7, SeekWalksStep
<1>8. CASE SeekLands
  BY <1>8, SeekLandsStep
<1>9. ASSUME NEW name \in Names, Open(name) PROVE FileInv'
  BY <1>9, OpenStep
<1>10. ASSUME NEW s \in Slots, Close(s) PROVE FileInv'
  BY <1>10, CloseStep
<1>11. ASSUME NEW s \in Slots, NEW n \in ReadSizes, Read(s, n) PROVE FileInv'
  BY <1>11, ReadStep
<1>12. ASSUME NEW s \in Slots, NEW o \in Offsets, NEW current \in BOOLEAN, Seek(s, o, current) PROVE FileInv'
  BY <1>12, SeekBegins
<1>13. CASE UNCHANGED vars
  <2>1. UNCHANGED <<volume, fat, ra, pos, astray, Files, allocated, open, call, sdVars>>
    BY <1>13 DEF vars, tableVars
  <2>2. Live' = Live /\ Owners' = Owners
    BY <2>1 DEF Live, Owners
  <2>3. Table' /\ Calls' /\ Volume' /\ FatInv'
    BY <2>1, <2>2 DEF FileInv, Table, Calls, Volume, FatInv, Matches, fat_start, sdVars, sdcard_present
  <2>4. ReadInStep'
    BY <2>1 DEF FileInv, ReadInStep, Reached, Extent, FileByte, Lba, data_start, root_directory_start, fat_start
  <2>5. ASSUME NEW t \in Live \ astray PROVE Placed(t)'
    <3>1. Placed(t)
      BY <2>5 DEF FileInv
    <3> QED
      BY <2>1, <3>1 DEF Placed, OnChain, Number, Sought, InPlace, Reached, FileSector, Lba, data_start,
                        root_directory_start, fat_start
  <2> QED
    BY <2>1, <2>2, <2>3, <2>4, <2>5 DEF FileInv
<1> QED
  BY <1>1, <1>2, <1>3, <1>4, <1>5, <1>6, <1>7, <1>8, <1>9, <1>10, <1>11, <1>12, <1>13 DEF Next, Continue

LEMMA CarefulAlways == ASSUME ~ShortReads PROVE Spec => [](CardInv /\ FileInv)
<1>1. Init => CardInv /\ FileInv
  BY CardInitially, FilesInitially
<1>2. CardInv /\ FileInv /\ [Next]_vars => (CardInv /\ FileInv)'
  BY CardNext, FilesNext
<1> QED
  BY <1>1, <1>2, PTL DEF Spec

\* Any number of files and descriptors, any chains on the card and any sizes of
\* sector, cluster and FAT: the cursors stay where the chains have them.
THEOREM CursorsInChain == ASSUME ~ShortReads PROVE Spec => []CursorInChain
<1>1. FileInv => CursorInChain
  BY DEF FileInv, Placed, OnChain, Number, CursorInChain
<1> QED
  BY <1>1, CarefulAlways, PTL

\* And what a read that reports success has put together is the file, from where
\* the calls before left it.
THEOREM ReadsTheFile == ASSUME ~ShortReads PROVE Spec => []ReadsFile
<1>1. FileInv => ReadsFile
  <2> SUFFICES ASSUME FileInv, call.pc = "read", call.left = 0, call.slot \notin astray
               PROVE  call.got = [i \in 1 .. call.asked |-> FileByte(open[call.slot], pos[call.slot] + i - 1)]
    BY DEF ReadsFile
  <2>1. call.got \in Seq(Int \X Int) /\ call.asked \in Nat
    BY CallIs DEF FileInv, Reading
  <2>2. /\ Len(call.got) = call.asked
        /\ \A i \in 1 .. Len(call.got) : call.got[i] = FileByte(open[call.slot], pos[call.slot] + i - 1)
    BY <2>1 DEF FileInv, ReadInStep
  <2>3. call.got = [i \in 1 .. Len(call.got) |-> call.got[i]]
    <3>1. call.got \in [1 .. Len(call.got) -> Int \X Int]
      BY <2>1, LenProperties
    <3> QED
      BY <3>1
  <2> QED
    BY <2>2, <2>3
<1> QED
  BY <1>1, CarefulAlways, PTL

-----------------------------------------------------------------------------
(* Types.  Where is_sdhc's loops stop, and what a cluster number may be.   *)

Counters ==
    /\ card \in {"native", "idle", "ready"} /\ blocklen \in {1, 512, 1024}
    /\ drv.i \in 0 .. Resets + Rounds /\ drv.n \in 0 .. Inits + V2Inits
    /\ drv.pc \in {"reset", "initV2", "cmd58"} => drv.i >= 2
    /\ drv.pc \in {"init", "initV2"} => drv.n >= 1

LEMMA CountersInitially == Init => Counters
  BY SdCardAssumption DEF Init, SdInit, Counters, At

LEMMA CountersStep == ASSUME CardInv, Counters, SpiInit PROVE Counters'
<1> USE SdCardAssumption DEF CardInv, Counters, At, Steps
<1>1. ASSUME NEW hc \in BOOLEAN, Answer(hc), card' \in {"native", "idle", "ready"}, blocklen' = blocklen PROVE Counters'
  <2>1. drv' = [pc |-> IF hc THEN "done" ELSE "cmd16", i |-> 0, n |-> 0]
    BY <1>1 DEF Answer
  <2> QED
    BY <1>1, <2>1
<1>2. ASSUME NextRound, drv.i >= 2, card' \in {"native", "idle", "ready"}, blocklen' = blocklen PROVE Counters'
  <2>1. CASE drv.i = 2
    BY <1>1, <1>2, <2>1 DEF NextRound
  <2>2. CASE drv.i # 2
    <3>1. drv' = [pc |-> "initV2", i |-> drv.i - 1, n |-> V2Inits - 1]
      BY <1>2, <2>2 DEF NextRound
    <3> QED
      BY <1>2, <2>2, <3>1
  <2> QED
    BY <2>1, <2>2
<1>3. CASE Reset
  BY <1>3 DEF Reset
<1>4. CASE Cmd8
  BY <1>4 DEF Cmd8
<1>5. CASE WaitInit
  <2>1. card' \in {"native", "idle", "ready"} /\ blocklen' = blocklen
    BY <1>5 DEF WaitInit, Answer
  <2>2. CASE Answer(FALSE)
    BY <1>1, <2>1, <2>2
  <2>3. CASE drv.n # 1 /\ drv' = [drv EXCEPT !.n = @ - 1]
    BY <1>5, <2>1, <2>3 DEF WaitInit
  <2> QED
    BY <1>5, <2>2, <2>3 DEF WaitInit
<1>6. CASE WaitInitV2
  <2>1. card' \in {"native", "idle", "ready"} /\ blocklen' = blocklen /\ drv.pc = "initV2"
    BY <1>6 DEF WaitInitV2
  <2>2. CASE NextRound
    BY <1>2, <2>1, <2>2
  <2>3. CASE drv' = [drv EXCEPT !.pc = "cmd58"]
    BY <2>1, <2>3
  <2>4. CASE drv.n # 1 /\ drv' = [drv EXCEPT !.n = @ - 1]
    BY <2>1, <2>4
  <2> QED
    BY <1>6, <2>2, <2>3, <2>4 DEF WaitInitV2
<1>7. CASE Cmd58
  <2>1. /\ card' \in {"native", "idle", "ready"} /\ blocklen' = blocklen /\ drv.i >= 2
        /\ Answer(kind = "hc") \/ NextRound
    BY <1>7 DEF Cmd58
  <2>2. CASE Answer(kind = "hc")
    <3>1. drv' = [pc |-> IF kind = "hc" THEN "done" ELSE "cmd16", i |-> 0, n |-> 0]
      BY <2>2 DEF Answer
    <3> QED
      BY <2>1, <3>1
  <2> QED
    BY <1>2, <2>1, <2>2
<1>8. CASE Cmd16
  BY <1>8 DEF Cmd16, Argument
<1> QED
  BY <1>3, <1>4, <1>5, <1>6, <1>7, <1>8 DEF SpiInit

LEMMA CardTyped == ASSUME CardInv, Counters PROVE SdTypeOK
<1>1. drv = [pc |-> drv.pc, i |-> drv.i, n |-> drv.n]
  BY DEF CardInv
<1>2. drv.pc \in Steps
  BY DEF CardInv
<1> QED
  BY <1>1, <1>2 DEF CardInv, Counters, SdTypeOK, Steps

Numbers == 0 .. LastMark

LEMMA ClustersAreNumbers ==
    ASSUME Volume
    PROVE  /\ \A x \in Entries : volume.chain[x][1] \in Numbers
           /\ Cluster \subseteq Numbers
<1>1. Cluster \subseteq Numbers
  <2>1. \A c \in Cluster : c \in Nat /\ c < LowMark
    BY Clusters
  <2> QED
    BY <2>1 DEF Numbers, LastMark, LowMark
<1>2. ASSUME NEW x \in Entries PROVE volume.chain[x][1] \in Cluster
  BY Clusters
<1> QED
  BY <1>1, <1>2

LEMMA LinkInRange == ASSUME Volume, NEW c PROVE LinkOf(c) \in Numbers
<1> DEFINE links == UNION {{y} \X DOMAIN volume.chain[y] : y \in Entries}
           at == CHOOSE p \in links : volume.chain[p[1]][p[2]] = c
<1>1. LinkOf(c) = IF c = 0 THEN LowMark
                  ELSE IF \A p \in links : volume.chain[p[1]][p[2]] # c THEN 0
                  ELSE IF at[2] = Len(volume.chain[at[1]]) THEN LastMark ELSE volume.chain[at[1]][at[2] + 1]
  BY DEF LinkOf
<1>2. CASE c = 0 \/ \A p \in links : volume.chain[p[1]][p[2]] # c
  <2> HIDE DEF links, at
  <2> QED
    BY <1>1, <1>2 DEF LowMark, Numbers, LastMark
<1>3. CASE c # 0 /\ ~(\A p \in links : volume.chain[p[1]][p[2]] # c)
  <2>1. at \in links
    <3> HIDE DEF links
    <3> QED
      BY <1>3
  <2>2. at[1] \in Entries /\ at[2] \in DOMAIN volume.chain[at[1]]
    <3> HIDE DEF at
    <3> QED
      BY <2>1
  <2>3. volume.chain[at[1]] \in Seq(Cluster) /\ Cluster \subseteq Numbers
    BY <2>2, Clusters, ClustersAreNumbers
  <2>4. at[2] # Len(volume.chain[at[1]]) => volume.chain[at[1]][at[2] + 1] \in Numbers
    <3>1. at[2] # Len(volume.chain[at[1]]) => at[2] + 1 \in DOMAIN volume.chain[at[1]]
      <4> HIDE DEF at
      <4> QED
        BY <2>2, <2>3
    <3>2. at[2] # Len(volume.chain[at[1]]) => volume.chain[at[1]][at[2] + 1] \in Cluster
      <4> HIDE DEF at
      <4> QED
        BY <2>3, <3>1
    <3> HIDE DEF at
    <3> QED
      BY <2>3, <3>2
  <2>5. LinkOf(c) = IF at[2] = Len(volume.chain[at[1]]) THEN LastMark ELSE volume.chain[at[1]][at[2] + 1]
    <3> HIDE DEF links, at
    <3> QED
      BY <1>1, <1>3
  <2> HIDE DEF at
  <2> QED
    BY <2>4, <2>5 DEF LastMark, Numbers
<1> QED
  BY <1>2, <1>3

\* What is looked up for a number is a number, and so is the FAT sector kept.
LEMMA LookupInRange ==
    ASSUME Volume, fat.index <= LastMark, NEW c \in Numbers, NEW l \in Lookups(c)
    PROVE  l.link \in Numbers /\ l.fat.index <= LastMark
<1>1. SectorOf(c) <= LastMark
  <2>1. \A n \in Nat, m \in Nat \ {0} : n \div m <= n
    OBVIOUS
  <2> QED
    BY <2>1, FatAssumption DEF SectorOf, Numbers, LastMark
<1>2. \A buffer : Buffered(buffer, c) \in Numbers
  BY LinkInRange DEF Buffered, Numbers, LastMark
<1>3. CASE SectorOf(c) = fat.index
  BY <1>2, <1>3 DEF Lookups
<1>4. CASE SectorOf(c) # fat.index
  <2>1. PICK r \in Reads(fat_start + SectorOf(c)) :
          l = [ok |-> r.ok, link |-> Buffered(r.data, c), fat |-> Remembered(c, r)]
    BY <1>4 DEF Lookups
  <2>2. Remembered(c, r).index <= LastMark
    BY <1>1 DEF Remembered
  <2> QED
    BY <1>2, <2>1, <2>2
<1> QED
  BY <1>3, <1>4

InRange(file) == file.start \in Numbers /\ file.cluster \in Numbers

LEMMA NextInRange ==
    ASSUME Volume, fat.index <= LastMark, NEW f \in Cursor, InRange(f), NEW x \in FileNextSector(f)
    PROVE  InRange(x.file) /\ x.fat.index <= LastMark
<1> DEFINE counted == [f EXCEPT !.sector = @ + 1]
<1>1. counted.start = f.start /\ counted.cluster = f.cluster /\ counted \in [start : Int, cluster : Nat, sector : Nat]
  BY DEF Cursor
<1>2. CASE ~Crossed(f)
  <2>1. x = [ok |-> TRUE, file |-> counted, fat |-> fat]
    BY <1>2 DEF FileNextSector
  <2> HIDE DEF counted
  <2> QED
    BY <1>1, <2>1 DEF InRange
<1>3. CASE Crossed(f)
  <2>1. PICK l \in Lookups(f.cluster) :
          x = [ok |-> l.ok, fat |-> l.fat, file |-> IF l.ok THEN [counted EXCEPT !.cluster = l.link] ELSE counted]
    BY <1>3 DEF FileNextSector
  <2>2. l.link \in Numbers /\ l.fat.index <= LastMark
    BY LookupInRange DEF InRange
  <2> HIDE DEF counted
  <2>3. [counted EXCEPT !.cluster = l.link].start = counted.start /\ [counted EXCEPT !.cluster = l.link].cluster = l.link
    BY <1>1
  <2> QED
    BY <1>1, <2>1, <2>2, <2>3 DEF InRange
<1> QED
  BY <1>2, <1>3

LEMMA SeekInRange ==
    ASSUME Volume, fat.index <= LastMark, NEW f \in Cursor, InRange(f), NEW x \in SeekStep(f)
    PROVE  InRange(x.file) /\ x.fat.index <= LastMark
<1>1. PICK l \in Lookups(f.cluster) :
        x = [ok |-> l.ok /\ l.link # LastMark, fat |-> l.fat,
             file |-> IF ~l.ok THEN f
                      ELSE [f EXCEPT !.cluster = l.link,
                                     !.sector = IF l.link = LastMark THEN f.sector ELSE f.sector + ClusterSize]]
  BY DEF SeekStep
<1>2. l.link \in Numbers /\ l.fat.index <= LastMark
  BY LookupInRange DEF InRange
<1>3. PICK sector : sector = IF l.link = LastMark THEN f.sector ELSE f.sector + ClusterSize
  OBVIOUS
<1>4. x.file = (IF ~l.ok THEN f ELSE [f EXCEPT !.cluster = l.link, !.sector = sector]) /\ x.fat = l.fat
  BY <1>1, <1>3
<1>5. [f EXCEPT !.cluster = l.link, !.sector = sector].start = f.start
      /\ [f EXCEPT !.cluster = l.link, !.sector = sector].cluster = l.link
  BY DEF Cursor
<1> QED
  BY <1>2, <1>4, <1>5 DEF InRange

LEMMA RewoundInRange ==
    ASSUME NEW f \in Cursor, InRange(f), NEW offset \in Nat
    PROVE  InRange(Rewound(f, offset))
  BY DEF InRange, Rewound, Cursor

Bounded ==
    /\ fat.index <= LastMark
    /\ \A b \in Blocks : InRange(ra[b].file)
    /\ call.pc \in {"open", "link"} => call.cluster \in Numbers

LEMMA BoundedInitially == Init => Bounded
<1> SUFFICES ASSUME Init PROVE Bounded
  OBVIOUS
<1>1. \A b \in Blocks : ra[b].file = [start |-> 0, cluster |-> 0, sector |-> 0]
  BY DEF Init, Blank
<1> QED
  BY <1>1 DEF Init, Bounded, InRange, Numbers, LastMark, Pc, None

\* A step that gives at most one block's cursor another place.
LEMMA OneCursor ==
    ASSUME Bounded, ra \in Memory, fat'.index <= LastMark,
           NEW b \in Blocks, NEW file, InRange(file),
           \A d \in Blocks : ra'[d].file = IF d = b THEN file ELSE ra[d].file,
           call'.pc \in {"open", "link"} => call'.cluster \in Numbers
    PROVE  Bounded'
  BY DEF Bounded, InRange

LEMMA OpeningBounded ==
    ASSUME FileInv, CardInv, Bounded, OpenSector \/ \E ok \in BOOLEAN : OpenLink(ok)
    PROVE  Bounded'
<1> DEFINE b == Files[call.slot]
<1>1. /\ call.pc \in {"open", "link"} /\ call \in Opening /\ call.cluster \in Numbers
      /\ b \in Blocks /\ ra \in Memory /\ call.name \in Names /\ Volume /\ fat.index <= LastMark
  <2>1. call.pc \in {"open", "link"}
    BY DEF OpenSector, OpenLink
  <2> QED
    BY <2>1, OpeningIs DEF FileInv, Table, Bounded, Opening
<1> HIDE DEF b
<1>2. fat'.index <= LastMark
  <2>1. CASE OpenSector
    BY <1>1, <2>1 DEF OpenSector
  <2>2. CASE \E ok \in BOOLEAN : OpenLink(ok)
    <3>1. PICK l \in GetFATLink(call.cluster) : fat' = l.fat
      BY <2>2 DEF OpenLink
    <3>2. PICK k \in Lookups(call.cluster) : l = [k EXCEPT !.link = IF k.ok THEN k.link ELSE 0]
      BY <3>1 DEF GetFATLink
    <3>3. Booted /\ FatInv /\ call.cluster \in Nat
      <4>1. call.cluster \in Nat
        BY <1>1 DEF Numbers, LastMark
      <4>2. Booted /\ FatInv
        BY <1>1, Up
      <4> QED
        BY <4>1, <4>2
    <3>4. k \in [ok : BOOLEAN, link : Nat, fat : [index : Int, held : Int]] /\ k.fat.index <= LastMark
      BY <1>1, <3>3, LookupOf, LookupInRange
    <3> QED
      BY <3>1, <3>2, <3>4
  <2> QED
    BY <2>1, <2>2
<1>3. CASE NotFound
  <2>1. ra' = [ra EXCEPT ![b] = Blank] /\ call'.pc = "idle"
    BY <1>3 DEF NotFound, b, Idle, Pc
  <2>2. \A d \in Blocks : ra'[d].file = IF d = b THEN Blank.file ELSE ra[d].file
    BY <1>1, <2>1 DEF Memory
  <2>3. InRange(Blank.file)
    BY DEF Blank, InRange, Numbers, LastMark
  <2> QED
    BY <1>1, <1>2, <2>1, <2>2, <2>3, OneCursor
<1>4. CASE Found
  <2>1. PICK start : start = volume.chain[call.name][1]
    OBVIOUS
  <2>2. /\ ra' = [ra EXCEPT ![b].file = [start |-> start, cluster |-> start, sector |-> 0], ![b].ptr = 0]
        /\ call'.pc = "idle"
    BY <1>4, <2>1 DEF Found, b, Idle, Pc
  <2>3. start \in Numbers
    BY <1>1, <2>1, ClustersAreNumbers DEF Entries
  <2>4. PICK file : file = [start |-> start, cluster |-> start, sector |-> 0]
    OBVIOUS
  <2>5. \A d \in Blocks : ra'[d].file = IF d = b THEN file ELSE ra[d].file
    BY <1>1, <2>2, <2>4 DEF Memory
  <2>6. InRange(file)
    BY <2>3, <2>4 DEF InRange
  <2> QED
    BY <1>1, <1>2, <2>2, <2>5, <2>6, OneCursor
<1>5. CASE ra' = ra /\ (call'.pc \in {"open", "link"} => call'.cluster \in Numbers)
  BY <1>1, <1>2, <1>5 DEF Bounded
<1>6. CASE OpenSector
  <2>1. \/ Found \/ NotFound
        \/ UNCHANGED ra /\ call' = [call EXCEPT !.sector = @ + 1]
        \/ UNCHANGED ra /\ call' = [call EXCEPT !.pc = "link"]
    BY <1>6 DEF OpenSector
  <2>2. /\ [call EXCEPT !.sector = @ + 1].cluster = call.cluster
        /\ [call EXCEPT !.pc = "link"].cluster = call.cluster
    BY <1>1 DEF Opening
  <2> QED
    BY <1>1, <1>3, <1>4, <1>5, <2>1, <2>2
<1>7. CASE \E ok \in BOOLEAN : OpenLink(ok)
  <2>1. PICK l \in GetFATLink(call.cluster) :
           NotFound \/ (UNCHANGED ra /\ call' = [call EXCEPT !.pc = "open", !.cluster = l.link, !.sector = 0])
    BY <1>7 DEF OpenLink
  <2>2. PICK k \in Lookups(call.cluster) : l = [k EXCEPT !.link = IF k.ok THEN k.link ELSE 0]
    BY <2>1 DEF GetFATLink
  <2>3. Booted /\ FatInv /\ call.cluster \in Nat
    <3>1. call.cluster \in Nat
      BY <1>1 DEF Numbers, LastMark
    <3>2. Booted /\ FatInv
      BY <1>1, Up
    <3> QED
      BY <3>1, <3>2
  <2>4. k \in [ok : BOOLEAN, link : Nat, fat : [index : Int, held : Int]] /\ k.link \in Numbers
    BY <1>1, <2>3, LookupOf, LookupInRange
  <2>5. l.link \in Numbers
    BY <2>2, <2>4 DEF Numbers, LastMark
  <2>6. [call EXCEPT !.pc = "open", !.cluster = l.link, !.sector = 0].cluster = l.link
    BY <1>1 DEF Opening
  <2> QED
    BY <1>3, <1>5, <2>1, <2>5, <2>6
<1> QED
  BY <1>6, <1>7

LEMMA ReadBounded ==
    ASSUME FileInv, CardInv, Bounded, ReadSector
    PROVE  Bounded'
<1>1. PICK b, f : b = Files[call.slot] /\ f = ra[b]
  OBVIOUS
<1>2. /\ call \in Reading /\ b \in Blocks /\ ra \in Memory /\ f \in [file : Cursor, ptr : Nat, buffer : Int]
      /\ Volume /\ InRange(f.file) /\ fat.index <= LastMark
  <2>1. call \in Reading /\ call.slot \in Live
    BY CallIs DEF ReadSector, FileInv, Calls
  <2> QED
    BY <1>1, <2>1, LiveIs DEF FileInv, Table, Bounded
<1>3. PICK x \in FileNextSector(f.file) :
        /\ \E ptr, buffer : ra' = [ra EXCEPT ![b] = [file |-> x.file, ptr |-> ptr, buffer |-> buffer]]
        /\ fat' = x.fat
  BY <1>1 DEF ReadSector
<1>4. InRange(x.file) /\ x.fat.index <= LastMark
  BY <1>2, NextInRange
<1>5. \A d \in Blocks : ra'[d].file = IF d = b THEN x.file ELSE ra[d].file
  BY <1>2, <1>3 DEF Memory
<1>6. call'.pc = "read"
  BY <1>2 DEF ReadSector, Reading
<1> QED
  BY <1>2, <1>3, <1>4, <1>5, <1>6, OneCursor

LEMMA SeekBounded ==
    ASSUME FileInv, CardInv, Bounded, SeekWalks \/ SeekLands
    PROVE  Bounded'
<1>1. PICK b, f, to : b = Files[call.slot] /\ f = ra[b] /\ to = call.to
  OBVIOUS
<1>2. /\ call.pc = "seek" /\ b \in Blocks /\ ra \in Memory /\ f \in [file : Cursor, ptr : Nat, buffer : Int]
      /\ f.file \in Cursor /\ Volume /\ InRange(f.file) /\ fat.index <= LastMark /\ to \in Nat
  <2>1. call.pc = "seek"
    BY DEF SeekWalks, SeekLands
  <2> QED
    BY <1>1, <2>1, SeekingIs DEF FileInv, Bounded
<1>3. CASE SeekWalks
  <2>1. PICK x \in SeekStep(f.file) :
          /\ fat' = x.fat /\ call' = IF x.ok THEN call ELSE Idle
          /\ \E ptr : ra' = [ra EXCEPT ![b].file = x.file, ![b].ptr = ptr]
    BY <1>1, <1>3 DEF SeekWalks
  <2>2. InRange(x.file) /\ x.fat.index <= LastMark
    BY <1>2, SeekInRange
  <2>3. \A d \in Blocks : ra'[d].file = IF d = b THEN x.file ELSE ra[d].file
    BY <1>2, <2>1 DEF Memory
  <2>4. call'.pc \notin {"open", "link"}
    BY <1>2, <2>1 DEF Idle, Pc
  <2> QED
    BY <1>2, <2>1, <2>2, <2>3, <2>4, OneCursor
<1>4. CASE SeekLands
  <2>1. PICK g : g = [f.file EXCEPT !.sector = Wanted(to)]
    OBVIOUS
  <2>2. g \in Cursor /\ InRange(g)
    BY <1>2, <2>1, WantedIs DEF Cursor, InRange
  <2>3. call'.pc = "idle"
    BY <1>4 DEF SeekLands, Idle, Pc
  <2>4. CASE to % B = 0
    <3>1. ra' = [ra EXCEPT ![b].file = g, ![b].ptr = to] /\ fat' = fat
      BY <1>1, <1>4, <2>1, <2>4 DEF SeekLands
    <3>2. \A d \in Blocks : ra'[d].file = IF d = b THEN g ELSE ra[d].file
      BY <1>2, <3>1 DEF Memory
    <3> QED
      BY <1>2, <2>2, <2>3, <3>1, <3>2, OneCursor
  <2>5. CASE to % B # 0
    <3>1. PICK r \in FileRead(g), x \in FileNextSector(g) :
            /\ ra' = [ra EXCEPT ![b] = [file |-> x.file, ptr |-> to,
                                        buffer |-> IF r.ok THEN r.data ELSE @.buffer]]
            /\ fat' = x.fat
      BY <1>1, <1>4, <2>1, <2>5, ZenonT(60) DEF SeekLands
    <3>2. InRange(x.file) /\ x.fat.index <= LastMark
      BY <1>2, <2>2, NextInRange
    <3>3. \A d \in Blocks : ra'[d].file = IF d = b THEN x.file ELSE ra[d].file
      BY <1>2, <3>1 DEF Memory
    <3> QED
      BY <1>2, <2>3, <3>1, <3>2, <3>3, OneCursor
  <2> QED
    BY <2>4, <2>5
<1> QED
  BY <1>3, <1>4

LEMMA CallsBounded ==
    ASSUME FileInv, Bounded,
           \/ \E name \in Names : Open(name)
           \/ \E s \in Slots : \/ \E n \in ReadSizes : Read(s, n)
                               \/ \E o \in Offsets, current \in BOOLEAN : Seek(s, o, current)
    PROVE  Bounded'
<1>1. ra \in Memory /\ Volume /\ fat.index <= LastMark
  BY DEF FileInv, Table, Bounded
<1>2. ASSUME NEW name \in Names, Open(name) PROVE Bounded'
  <2>1. call'.cluster \in Numbers
    BY <1>1, <1>2, ClustersAreNumbers DEF Open, Entries, Numbers, LastMark
  <2> QED
    BY <1>1, <1>2, <2>1 DEF Open, Bounded, tableVars
<1>3. ASSUME NEW s \in Slots, NEW n \in ReadSizes, Read(s, n) PROVE Bounded'
  <2>1. PICK b, k : b = Files[s] /\ ra' = [ra EXCEPT ![b].ptr = @ + k] /\ fat' = fat /\ call'.pc = "read"
    BY <1>3 DEF Read
  <2>2. s \in Live
    BY <1>3 DEF Read
  <2>3. b \in Blocks
    BY <2>1, <2>2, LiveIs
  <2>4. \A d \in Blocks : ra'[d].file = ra[d].file
    BY <1>1, <2>1, <2>3 DEF Memory
  <2> QED
    BY <1>1, <2>1, <2>4 DEF Bounded
<1>4. ASSUME NEW s \in Slots, NEW o \in Offsets, NEW current \in BOOLEAN, Seek(s, o, current) PROVE Bounded'
  <2>1. PICK b, f, to : /\ b = Files[s] /\ f = ra[b] /\ to = IF current THEN o + f.ptr ELSE o
                        /\ ra' = [ra EXCEPT ![b].file = Rewound(f.file, Wanted(to))]
                        /\ fat' = fat /\ call'.pc = "seek"
    BY <1>4 DEF Seek
  <2>2. s \in Live
    BY <1>4 DEF Seek
  <2>3. b \in Blocks /\ f \in [file : Cursor, ptr : Nat, buffer : Int] /\ f.file \in Cursor /\ InRange(f.file)
    BY <2>1, <2>2, LiveIs DEF Bounded
  <2>4. to \in Nat /\ Wanted(to) \in Nat
    <3>1. to \in Nat
      BY <2>1, <2>3, FilesAssumption
    <3> QED
      BY <3>1, WantedIs
  <2>5. InRange(Rewound(f.file, Wanted(to)))
    BY <2>3, <2>4, RewoundInRange
  <2>6. \A d \in Blocks : ra'[d].file = IF d = b THEN Rewound(f.file, Wanted(to)) ELSE ra[d].file
    BY <1>1, <2>1, <2>3 DEF Memory
  <2> QED
    BY <1>1, <2>1, <2>3, <2>5, <2>6, OneCursor
<1> QED
  BY <1>2, <1>3, <1>4

LEMMA TypesNext ==
    ASSUME CardInv, FileInv, Counters, Bounded, [Next]_vars
    PROVE  Counters' /\ Bounded'
<1>1. CASE Boot
  BY <1>1, CountersStep DEF Boot, Bounded
<1>2. ASSUME UNCHANGED sdVars PROVE Counters'
  BY <1>2 DEF sdVars, Counters
<1>3. CASE FindDrive
  <2>1. UNCHANGED <<sdVars, ra, fat>> /\ call'.pc \notin {"open", "link"}
    <3>1. UNCHANGED <<sdVars, ra, fat>> /\ call' \in {Idle, Pc("no filesystem")}
      BY <1>3 DEF FindDrive
    <3>2. Idle.pc = "idle" /\ Pc("no filesystem").pc = "no filesystem"
      BY DEF Idle, Pc
    <3> QED
      BY <3>1, <3>2
  <2> QED
    BY <1>2, <2>1 DEF Bounded
<1>4. CASE OpenSector \/ \E ok \in BOOLEAN : OpenLink(ok)
  BY <1>2, <1>4, OpeningBounded DEF OpenSector, OpenLink
<1>5. CASE ReadSector
  BY <1>2, <1>5, ReadBounded DEF ReadSector
<1>6. CASE ReadReturns \/ \E s \in Slots : Close(s)
  <2>1. UNCHANGED <<sdVars, ra, fat>> /\ call'.pc = "idle"
    BY <1>6 DEF ReadReturns, Close, Idle, Pc
  <2> QED
    BY <1>2, <2>1 DEF Bounded
<1>7. CASE SeekWalks \/ SeekLands
  BY <1>2, <1>7, SeekBounded DEF SeekWalks, SeekLands
<1>8. CASE \/ \E name \in Names : Open(name)
           \/ \E s \in Slots : \/ \E n \in ReadSizes : Read(s, n)
                               \/ \E o \in Offsets, current \in BOOLEAN : Seek(s, o, current)
  BY <1>2, <1>8, CallsBounded DEF Open, Read, Seek
<1>9. CASE UNCHANGED vars
  BY <1>2, <1>9 DEF vars, Bounded
<1> QED
  BY <1>1, <1>3, <1>4, <1>5, <1>6, <1>7, <1>8, <1>9 DEF Next, Continue

\* The card's registers, the table and what RAFile keeps have their types: no
\* cursor or FAT index passes the mark for the end of a chain, and the memory of
\* every open file is given out.
THEOREM FilesTypeCorrect == ASSUME ~ShortReads PROVE Spec => []TypeOK
<1>1. Init => Counters /\ Bounded
  BY CountersInitially, BoundedInitially
<1>2. CardInv /\ FileInv /\ Counters /\ Bounded /\ [Next]_vars => Counters' /\ Bounded'
  BY TypesNext
<1>3. CardInv /\ FileInv /\ Counters /\ Bounded => TypeOK
  <2> SUFFICES ASSUME CardInv, FileInv, Counters, Bounded PROVE TypeOK
    OBVIOUS
  <2>1. SdTypeOK
    BY CardTyped
  <2>2. fat.index \in -1 .. LastMark
    BY DEF FileInv, FatInv, Matches, Bounded, None, LastMark
  <2>3. \A b \in Blocks : ra[b].file.cluster \in 0 .. LastMark /\ ra[b].ptr \in Nat
    BY DEF FileInv, Table, Memory, Bounded, InRange, Numbers
  <2>4. \A s \in Live : Files[s] \in allocated
    BY DEF FileInv, Table, Owners
  <2>5. call.pc \in {"boot", "no filesystem", "idle", "open", "link", "read", "seek"}
    BY CallIs DEF FileInv
  <2>6. astray \subseteq Slots
    BY DEF FileInv, Table, Live
  <2> QED
    BY <2>1, <2>2, <2>3, <2>4, <2>5, <2>6 DEF TypeOK, FileInv, Volume, Table
<1> QED
  BY <1>1, <1>2, <1>3, CarefulAlways, PTL DEF Spec

=============================================================================
