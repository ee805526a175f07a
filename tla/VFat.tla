-------------------------------- MODULE VFat --------------------------------
(***************************************************************************)
(* The virtual FAT16 disk (cu_vfat.c) over the host's files. The program   *)
(* sees a boot sector, a FAT and a root directory, which it reads and      *)
(* rewrites as it likes, and a data area. To find the file of a data       *)
(* sector, the disk walks the cluster chains of the FAT as it is at that   *)
(* moment.                                                                 *)
(*                                                                         *)
(* Data moves in sectors: their 512 bytes have one Value, and the steps    *)
(* are those on the first byte of a read and on the last one of a write.   *)
(* In the system area an entry of the FAT or of the directory is written   *)
(* at once, FAT1 and the boot sector, which the disk never reads, are left *)
(* out. File names are model values; which name a name is converted to is  *)
(* given by ToFat and ToHost.                                              *)
(*                                                                         *)
(* Fault... and Forgetful... are faulty variants of the definition after   *)
(* them, which no specification uses.                                      *)
(***************************************************************************)
EXTENDS HostFiles, SequencesExt

CONSTANTS
  Slots,        \* CU_VFAT_ROOT_SIZE, 512
  Clusters,     \* VFAT_DATA_SIZE, 0xFFEE
  ClusterSize,  \* sectors of a cluster, 64
  SizeMod,      \* 2^32 bytes, in sectors: sizes wrap
  FatName,      \* 8 + 3 character names
  ToFat,        \* cu_vfat_tofat, of a host name
  ToHost,       \* cu_vfat_tohost, of a FAT name
  StartFiles,   \* host files before the first start
  Unknown

ASSUME VFatAssumption ==
  /\ Slots \in Nat \ {0} /\ Clusters \in Nat \ {0} /\ ClusterSize \in Nat \ {0}
  /\ SizeMod \in Nat \ {0}
  /\ ToFat \in [Host -> FatName] /\ ToHost \in [FatName -> Host]
  /\ DOMAIN StartFiles \subseteq Host
  /\ StartFiles \in [DOMAIN StartFiles -> Seq(Value)]
  /\ NoName \notin FatName
  /\ Unknown \notin Value

VARIABLES
  vfat,    \* vfat_state, vfat_last, vfat_broken and vfat_lfile
  io,      \* the SD channel and the host's files
  media,   \* history: the sectors as the program last wrote them
  access   \* history: what the last step did to a host file

vars == <<vfat, io, media, access>>
-----------------------------------------------------------------------------
Slot    == 0 .. Slots - 1
NoSlot  == Slots
Cluster == 2 .. Clusters + 1
EOC     == Clusters + 2  \* stands for all values that end a chain, but 0
Entry   == {0, EOC} \union Cluster

\* Data sectors; the last one is past the end of the disk, where the card takes
\* addresses too.
Sector == 0 .. Clusters * ClusterSize

ClusterOf(s) == s \div ClusterSize + 2
OffsetOf(s)  == s % ClusterSize

\* A directory entry whose first character is 0x00, 0x2E or 0xE5 is not valid.
FreeEntry == [valid |-> FALSE, name |-> NoName, first |-> 0]
DirEntry  == [valid : BOOLEAN, name : FatName \union {NoName}, first : Entry]
-----------------------------------------------------------------------------
(* Finding the file of a sector. *)

\* The clusters that cu_vfat_belongs visits, as long as they are clusters.
Chain(v, i) ==
  LET Follow(c) == IF c \in Cluster THEN v.fat[c] ELSE 0
      c[n \in 0 .. Clusters - 1] ==
        IF n = 0 THEN v.dir[i].first ELSE Follow(c[n - 1])
  IN c

Belongs(v, i, s) ==
  /\ ClusterOf(s) \in Cluster
  /\ \E n \in 0 .. Clusters - 1 : Chain(v, i)[n] = ClusterOf(s)

\* One link short.
FaultExhausts(v, i, s) ==
  ~Belongs(v, i, s) /\ Chain(v, i)[Clusters - 2] \in Cluster

Exhausts(v, i, s) == ~Belongs(v, i, s) /\ Chain(v, i)[Clusters - 1] \in Cluster

\* Forgets the clusters before.
FaultPosIn(v, i, s) == OffsetOf(s)

\* The position in the file: at the first cluster that matches.
PosIn(v, i, s) ==
  LET n == CHOOSE n \in 0 .. Clusters - 1 :
             /\ Chain(v, i)[n] = ClusterOf(s)
             /\ \A m \in 0 .. n - 1 : Chain(v, i)[m] # ClusterOf(s)
  IN n * ClusterSize + OffsetOf(s)

Valid(v) == {i \in Slot : v.dir[i].valid}

\* A miss clears the cache.
ForgetfulFound(v, s) ==
  LET hits == {i \in Valid(v) : Belongs(v, i, s)}
      i == CHOOSE i \in hits : \A j \in hits : i <= j
  IN IF v.broken \/ hits = {} THEN [id |-> NoSlot, v |-> [v EXCEPT !.last = NoSlot]]
     ELSE [id |-> i, v |-> [v EXCEPT !.last = i]]

\* cu_vfat_findbypos: the cached file first, then the entries in order, until
\* one holds the sector or its chain does not end.
Found(v, s) ==
  LET ends == {i \in Valid(v) : Belongs(v, i, s) \/ Exhausts(v, i, s)}
      first == CHOOSE i \in ends : \A j \in ends : i <= j
      None(broken) == [id |-> NoSlot, v |-> [v EXCEPT !.broken = broken]]
      Hit(i) == [id |-> i, v |-> [v EXCEPT !.last = i]]
  IN IF v.broken THEN None(TRUE)
     ELSE IF Belongs(v, v.last, s) THEN Hit(v.last)
     ELSE IF Exhausts(v, v.last, s) THEN None(TRUE)
     ELSE IF ends = {} THEN None(FALSE)
     ELSE IF Belongs(v, first, s) THEN Hit(first) ELSE None(TRUE)

\* cu_vfat_checkassign
Assigned(v, i) ==
  IF v.hnames[i] = NoName /\ i \in Valid(v)
    THEN [v EXCEPT !.hnames[i] = ToHost[v.dir[i].name]] ELSE v

\* The channel on the file of entry i, opened if it is not the last one.
Selected(v, i) ==
  IF i = v.lfile THEN v ELSE [Assigned(v, i) EXCEPT !.lfile = i]

\* Opens a file only where none is open.
FaultChannel(v, i) ==
  IF v.lfile # NoSlot THEN io ELSE Open(io, Assigned(v, i).hnames[i])

Channel(v, i) ==
  IF i = v.lfile THEN io ELSE Open(io, Assigned(v, i).hnames[i])
-----------------------------------------------------------------------------
(* What a sector is part of by the directory and the FAT alone. *)

Owners(v, s) == {i \in Valid(v) : Belongs(v, i, s)}

\* The place of a sector that a sound file system holds exactly once.
Place(v, s) ==
  LET owners == Owners(v, s)
      i == CHOOSE i \in owners : TRUE
  IN IF /\ Cardinality(owners) = 1
        /\ \A j \in Slot : ~Exhausts(v, j, s)
        /\ ~v.broken
       THEN <<i, PosIn(v, i, s)>> ELSE <<NoSlot, 0>>

Placed(v, s) == Place(v, s)[1] # NoSlot

\* After a change of the system area: what has moved is unknown.
Remember(v) ==
  [s \in Sector |-> IF media[s] # Unknown /\ Place(v, s) = Place(vfat, s)
                    THEN media[s] ELSE Unknown]

\* After an access: nothing moves, but the disk may be taken for broken.
Remembered(m, v) == IF v.broken THEN [s \in Sector |-> Unknown] ELSE m
-----------------------------------------------------------------------------
(* cu_vfat_read and cu_vfat_write. *)

NoAccess == [kind |-> "none", sector |-> 0, host |-> NoName, at |-> 0]

\* A host file is accessed unless it could not be opened.
Accessed(kind, s, ch) ==
  access' = [kind |-> kind, sector |-> s,
             host |-> IF ch.rd THEN ch.name ELSE NoName,
             at |-> IF ch.rd THEN ch.at ELSE 0]

\* The first byte of a sector is read: the sector is buffered. A short read
\* leaves the buffer as it is.
ReadSector(s) ==
  LET f  == Found(vfat, s)
      at == SetPos(Channel(f.v, f.id), PosIn(f.v, f.id, s))
      got == Got(at)
  IN /\ IF f.id = NoSlot
          THEN /\ vfat' = [f.v EXCEPT !.rwbuf = Zero]
               /\ io' = io
               /\ Accessed("read", s, Closed)
          ELSE /\ io' = Read(at)
               /\ vfat' = [Selected(f.v, f.id) EXCEPT
                             !.rwbuf = IF got = <<>> THEN @ ELSE got[1]]
               /\ Accessed("read", s, ReadOpened(at).ch)
     /\ media' = Remembered(media, vfat')

\* The last byte of a sector is written: the sector goes to its file, if any.
WriteSector(s, d) ==
  LET f  == Found(vfat, s)
      at == SetPos(Channel(f.v, f.id), PosIn(f.v, f.id, s))
  IN /\ IF f.id = NoSlot
          THEN /\ vfat' = [f.v EXCEPT !.rwbuf = d]
               /\ io' = io
               /\ Accessed("write", s, Closed)
          ELSE /\ io' = Write(at, d)
               /\ vfat' = [Selected(f.v, f.id) EXCEPT !.rwbuf = d]
               /\ Accessed("write", s, WriteOpened(at).ch)
     /\ media' = Remembered(IF Placed(vfat, s) THEN [media EXCEPT ![s] = d]
                            ELSE media, vfat')

\* Some bytes of a sector are written, but not its last one.
WritePart(d) == /\ vfat' = [vfat EXCEPT !.rwbuf = d]
                /\ access' = NoAccess
                /\ UNCHANGED <<io, media>>

\* A write to the system area. It takes the disk for repaired.
WriteSys(v) == /\ vfat' = [v EXCEPT !.broken = FALSE]
               /\ media' = Remember(vfat')
               /\ access' = NoAccess
               /\ UNCHANGED io

WriteFat(c, e) == WriteSys([vfat EXCEPT !.fat[c] = e])

\* Programs create a file under a name that is not taken, and then give it a
\* first cluster that no other file holds. They link clusters as they like.
Create(i, n) ==
  /\ ~vfat.dir[i].valid
  /\ \A j \in Valid(vfat) : vfat.dir[j].name # n
  /\ WriteSys([vfat EXCEPT !.dir[i] = [valid |-> TRUE, name |-> n, first |-> 0]])

SetFirst(i, c) ==
  /\ vfat.dir[i].valid
  /\ \A j \in Valid(vfat) \ {i} : \A n \in DOMAIN Chain(vfat, j) :
       Chain(vfat, j)[n] # c
  /\ WriteSys([vfat EXCEPT !.dir[i].first = c])

\* The first character becomes 0xE5, the rest of the entry stays.
Delete(i) ==
  /\ vfat.dir[i].valid
  /\ WriteSys([vfat EXCEPT !.dir[i].valid = FALSE])
-----------------------------------------------------------------------------
(* cu_vfat_reset, which the reset of the SD card calls. *)

\* Clusters that a file's size asks for, in unsigned arithmetic.
Extent(size) == IF size = 0 THEN 1
                ELSE ((size + ClusterSize - 1) % SizeMod) \div ClusterSize

\* The disk built from the files in the order in which the host lists them. A
\* file takes one cluster at least. The entry of a file that does not fit stays
\* empty. The cached file stays the one before.
Built(files, order, last) ==
  LET Asks(k) == Extent(Len(files[order[k]]))
      Fit(k, at) == at + Asks(k) <= Clusters + 2
      from[k \in 1 .. Len(order)] ==
        IF k = 1 THEN 2
        ELSE LET at == from[k - 1]
                 n  == IF Asks(k - 1) = 0 THEN 1 ELSE Asks(k - 1)
             IN IF Fit(k - 1, at) THEN at + n ELSE at
      listed == {k \in 1 .. Len(order) : k <= Slots /\ Fit(k, from[k])}
      Body(k) == from[k] .. from[k] + Asks(k) - 2  \* all but the last cluster
      body   == UNION {Body(k) : k \in listed}
      tails  == {from[k] + (IF Asks(k) = 0 THEN 0 ELSE Asks(k) - 1) : k \in listed}
      Has(i) == i + 1 \in listed
  IN [fat    |-> [c \in Cluster |-> IF c \in body THEN c + 1
                                    ELSE IF c \in tails THEN EOC ELSE 0],
      dir    |-> [i \in Slot |->
                    IF Has(i) THEN [valid |-> TRUE, name |-> ToFat[order[i + 1]],
                                    first |-> from[i + 1]]
                              ELSE FreeEntry],
      hnames |-> [i \in Slot |-> IF Has(i) THEN order[i + 1] ELSE NoName],
      rwbuf  |-> Zero,
      broken |-> FALSE,
      lfile  |-> NoSlot,
      last   |-> last]

\* readdir lists the files in any order.
Listings(files) == SetToSeqs(DOMAIN files)

\* Keeps the file that the channel is open on.
FaultReset ==
  /\ \E order \in Listings(io.files) :
       vfat' = [Built(io.files, order, vfat.last) EXCEPT !.lfile = vfat.lfile]
  /\ media' = [s \in Sector |-> Unknown]
  /\ access' = NoAccess
  /\ UNCHANGED io

\* The files are seen without what the open stream still holds.
Reset ==
  /\ \E order \in Listings(io.files) :
       vfat' = Built(io.files, order, vfat.last)
  /\ media' = [s \in Sector |-> Unknown]
  /\ access' = NoAccess
  /\ UNCHANGED io

\* The emulator ends, normally (filesys_flushall) or not, and starts again.
Started(files) ==
  /\ io' = StartIO(files)
  /\ \E order \in Listings(files) : vfat' = Built(files, order, 0)
  /\ media' = [s \in Sector |-> Unknown]
  /\ access' = NoAccess

Exit == Started(Flush(io).files)
Kill == Started(io.files)

Init ==
  /\ io = StartIO(StartFiles)
  /\ \E order \in Listings(StartFiles) :
       vfat = Built(StartFiles, order, 0)
  /\ media = [s \in Sector |-> Unknown]
  /\ access = NoAccess

Next ==
  /\ ~io.crashed
  /\ \/ \E s \in Sector : ReadSector(s)
     \/ \E s \in Sector, d \in Value : WriteSector(s, d)
     \/ \E d \in Value : WritePart(d)
     \/ \E c \in Cluster, e \in Entry : WriteFat(c, e)
     \/ \E i \in Slot, n \in FatName : Create(i, n)
     \/ \E i \in Slot, c \in Cluster : SetFirst(i, c)
     \/ Reset \/ Exit \/ Kill

Spec == Init /\ [][Next]_vars

\* With programs that also delete files, and use their entries and clusters
\* again.
ReuseSpec == Init /\ [][Next \/ \E i \in Slot : Delete(i)]_vars
-----------------------------------------------------------------------------
(* Properties. *)

VfatType ==
  [fat : [Cluster -> Entry], dir : [Slot -> DirEntry],
   hnames : [Slot -> Host \union {NoName}], rwbuf : Value, broken : BOOLEAN,
   lfile : Slot \union {NoSlot}, last : Slot]

\* Every field stays in its range, whatever the program writes into the system
\* area; the position of the channel is a position of the disk or its end.
TypeOK ==
  /\ vfat \in VfatType
  /\ DOMAIN io.files \subseteq Host
  /\ \A h \in DOMAIN io.files : io.files[h] \in Seq(Value)
  /\ io.ch.view \in Seq(Value)
  /\ io.ch.pos \in 0 .. Clusters * ClusterSize
  /\ media \in [Sector -> Value \union {Unknown}]

\* The open stream is the host file of the entry that vfat_lfile remembers, and
\* stands where the channel says. cu_vfat_read and cu_vfat_write rely on both
\* when they skip filesys_open.
ChannelAgrees ==
  /\ io.ch.rd => io.ch.at = io.ch.pos /\ Readable(io)
  /\ vfat.lfile # NoSlot => io.ch.name = vfat.hnames[vfat.lfile]

\* A data sector is only ever read from, or written to, the host file of a
\* directory entry that holds its cluster by the FAT as it is now, at the
\* position that its chain gives.
ServedByOwner ==
  [][access'.host # NoName =>
       \E i \in Valid(vfat) : \E n \in DOMAIN Chain(vfat, i) :
         /\ vfat'.hnames[i] = access'.host
         /\ Chain(vfat, i)[n] = ClusterOf(access'.sector)
         /\ access'.at = n * ClusterSize + OffsetOf(access'.sector)]_vars

\* The cache of the last file changes nothing (cu_vfat.c:113-117: "It can be
\* anything, if a match fails, this cache is simply recalculated"): a sector
\* with exactly one owner is served from the file of that owner.
CacheTransparent ==
  [][access'.host # NoName /\ Placed(vfat, access'.sector) =>
       access'.host = vfat'.hnames[Place(vfat, access'.sector)[1]]]_vars

\* The FAT is only taken for broken when the chain of an entry loops. A file that
\* fills the disk is mistaken for a loop, but only in a search for a sector past
\* the end of the disk.
Loops(i) == LET end == Chain(vfat, i)[Clusters - 1]
            IN end \in Cluster /\ vfat.fat[end] \in Cluster
Past == Clusters * ClusterSize

BrokenMeansLoop ==
  [][~vfat.broken /\ vfat'.broken =>
       \/ \E i \in Slot : Loops(i)
       \/ ReadSector(Past)
       \/ \E d \in Value : WriteSector(Past, d)]_vars

\* What a crash of the emulator can lose is one sector, the last one written:
\* every access of another sector puts it into its file first.
PendingIsLast ==
  io.ch.wr =>
    LET file == io.files[io.ch.name]
    IN \A u \in 1 .. Len(io.ch.view) :
         \/ u = io.ch.at
         \/ io.ch.view[u] = IF u <= Len(file) THEN file[u] ELSE Zero

\* To the program this is a disk: a sector reads as it was last written, through
\* changes of the FAT, other files and cut off writes.
LastRead == IF access.kind = "read" THEN <<access.sector, vfat.rwbuf>> ELSE <<>>
Disk == INSTANCE SectorDisk WITH got <- LastRead
ImplementsSectorDisk == Disk!Spec
=============================================================================
