-------------------------- MODULE FileStoreProofs --------------------------
(***************************************************************************)
(* Proofs about FileStore, for every frame size, segment limit, sync       *)
(* interval, file found at the start and number of processes, through ends *)
(* of the process and losses of power at any point.                        *)
(*                                                                         *)
(* First types, segment sizes and sync cadence, from StoreInv.  Then the   *)
(* frames across the files, from LogInv on top of it: their order, what    *)
(* appendFrames() has written, what sync() covers, and that the store      *)
(* implements DurableLog.                                                  *)
(***************************************************************************)
EXTENDS FileStore, TLAPS, SequenceTheorems

(* A file: what the page cache holds of it, and what the disk holds.       *)
Inode == [data : Seq(Nat), durable : Seq(Nat)]

(* The part of file i on the disk.                                         *)
Disk(i) == files[i].durable

(* The size of file i as fstat() reports it.                               *)
Size(i) == Len(files[i].data)

(* n is a number of whole frames.                                          *)
Whole(n) == n \in Nat /\ \E k \in Nat : n = k * FrameUnits

(* Places where openFile() has returned or is about to.                    *)
Opened == {"idle", "loop", "write", "sync", "rotate", "rename", "synced"}

(* Places where m_currentSize is known.                                    *)
Settled == Opened \cup {"recoverSync"}

(* Places where the active file exists.                                    *)
Found == Settled \cup {"created", "recover"}

(* All places.                                                             *)
Places == Found \cup {"down", "open", "renamed"}

(* The values of the file system's variables; names lead to files.         *)
FileTypes ==
  /\ files \in Seq(Inode)
  /\ dir \in [DOMAIN dir -> 1..Len(files)] /\ DOMAIN dir \subseteq Nat \X Nat
  /\ durableDir \in [DOMAIN durableDir -> 1..Len(files)] /\ DOMAIN durableDir \subseteq Nat \X Nat

(* The values of the other variables.  What appendFrames() counts in is    *)
(* whole frames; only a write in progress may stand within one.            *)
CallTypes ==
  /\ fpc \in Places
  /\ clock \in 0..MaxStarts /\ syncEvery \in Nat
  /\ unsyncedBytes \in Nat /\ rotationSequence \in Nat /\ inherited \in Nat
  /\ Whole(currentSize) /\ Whole(batchStart) /\ Whole(batchEnd) /\ Whole(offset)
  /\ Whole(chunkBytes) /\ writtenBytes \in 0..chunkBytes
  /\ batchStart <= offset /\ offset + chunkBytes <= batchEnd

(* A file is within the segment limit, or was found larger: then it stays  *)
(* between what was found and that without its partial frame.  The disk    *)
(* may still hold the size before the cut.                                 *)
Sizes(size, onDisk) ==
  \/ size <= MaxSegment /\ onDisk <= MaxSegment
  \/ \E found \in InitialSizes :
       /\ found > MaxSegment
       /\ size \in (found - (found % FrameUnits))..found
       /\ onDisk \in (found - (found % FrameUnits))..found

(* The archived names of a directory.                                      *)
Archives(d) == DOMAIN d \ {Active}

(* An archived file is full, and all of it is on the disk.                 *)
Archived(i) == files[i].data = files[i].durable /\ Size(i) >= MaxSegment

(* No file is too large; archives, in the current directory and in the one *)
(* a loss of power may bring back, are full and synced; and none of them   *)
(* is the active file, so that no write reaches an archive.                *)
Segments ==
  /\ \A i \in 1..Len(files) : Sizes(Size(i), Len(Disk(i)))
  /\ \A n \in Archives(dir) : Archived(dir[n])
  /\ \A n \in Archives(durableDir) : Archived(durableDir[n])
  /\ Active \in DOMAIN dir => /\ \A n \in Archives(dir) : dir[n] # dir[Active]
                              /\ \A n \in Archives(durableDir) : durableDir[n] # dir[Active]
  /\ Active \in DOMAIN durableDir =>
       \A n \in Archives(durableDir) : durableDir[n] # durableDir[Active]

(* What openFile() and appendFrames() know at each place: a valid          *)
(* configuration, the file, its size including the write in progress, and  *)
(* the room for that write; and rotate() renames only a full and synced    *)
(* file.                                                                   *)
Progress ==
  /\ fpc # "down" => clock > 0 /\ ValidConfig(MaxSegment, syncEvery)
  /\ fpc \in Found => Active \in DOMAIN dir
  /\ fpc \in Settled => Size(dir[Active]) = currentSize + writtenBytes
  /\ fpc # "write" => chunkBytes = 0
  /\ fpc = "write" => currentSize + chunkBytes <= MaxSegment
  /\ fpc \in {"rotate", "rename"} => currentSize >= MaxSegment
  /\ fpc = "rename" => files[dir[Active]].data = files[dir[Active]].durable

(* m_unsyncedBytes covers what this process has written and not synced,    *)
(* and with the chunk in progress it stays below the interval plus a       *)
(* frame.                                                                  *)
Cadence ==
  /\ fpc \in {"open", "created", "recover", "recoverSync"} => unsyncedBytes = 0
  /\ fpc \in Opened =>
       Size(dir[Active]) - Len(Disk(dir[Active])) - inherited <= unsyncedBytes + writtenBytes
  /\ syncEvery # 0 /\ fpc \in {"idle", "loop", "write"} => unsyncedBytes < syncEvery
  /\ syncEvery # 0 /\ fpc \in {"write", "sync"} =>
       unsyncedBytes + chunkBytes < syncEvery + FrameUnits

(* The inductive invariant.  SegmentLimit needs the archives of the        *)
(* directory on the disk as well, since a loss of power may bring them     *)
(* back; SyncCadence needs the relation of m_currentSize and               *)
(* m_unsyncedBytes to the file, which only together bound the next chunk.  *)
StoreInv == FileTypes /\ CallTypes /\ Segments /\ Progress /\ Cadence

-----------------------------------------------------------------------------
(* What Whole says.                                                        *)
LEMMA WholeIs ==
  ASSUME NEW n, Whole(n)
  PROVE  n \in Nat /\ \E k \in Nat : n = k * FrameUnits
  BY DEF Whole

(* Zero frames.                                                            *)
LEMMA WholeZero == Whole(0)
<1>1. 0 = 0 * FrameUnits
  BY FileStoreAssumption
<1>. QED BY <1>1 DEF Whole

(* Products by a positive number, as linear facts.                         *)
LEMMA Product ==
  ASSUME NEW j \in Nat, NEW k \in Nat, NEW m \in Nat \ {0}
  PROVE  /\ k * m \in Nat /\ (j + k) * m = j * m + k * m
         /\ j >= k => (j - k) * m = j * m - k * m
         /\ j * m < k * m + m => j <= k
<1>1. k * m \in Nat /\ (j + k) * m = j * m + k * m
  OBVIOUS
<1>2. ASSUME j >= k PROVE (j - k) * m = j * m - k * m
  BY <1>2
<1>3. ASSUME j > k PROVE j * m >= k * m + m
  <2>1. j - k - 1 \in Nat /\ (j - k - 1) * m >= 0
    BY <1>3
  <2>2. (j - k - 1) * m = j * m - k * m - m
    OBVIOUS
  <2>. QED BY <2>1, <2>2
<1>. QED BY <1>1, <1>2, <1>3

(* Whole frames behind whole frames are whole frames.                      *)
LEMMA WholeSum ==
  ASSUME NEW x, NEW y, Whole(x), Whole(y)
  PROVE  Whole(x + y)
<1>1. PICK j \in Nat : x = j * FrameUnits
  BY WholeIs
<1>2. PICK k \in Nat : y = k * FrameUnits
  BY WholeIs
<1>3. x + y = (j + k) * FrameUnits /\ x + y \in Nat
  BY <1>1, <1>2, WholeIs, Product, FileStoreAssumption
<1>. QED BY <1>3 DEF Whole

(* Whole frames without whole frames are whole frames.                     *)
LEMMA WholeDifference ==
  ASSUME NEW x, NEW y, Whole(x), Whole(y), y <= x
  PROVE  Whole(x - y)
<1>1. PICK j \in Nat : x = j * FrameUnits
  BY WholeIs
<1>2. PICK k \in Nat : y = k * FrameUnits
  BY WholeIs
<1>0. FrameUnits \in Nat \ {0} /\ x \in Nat /\ y \in Nat
  BY WholeIs, FileStoreAssumption
<1>3. y < x + FrameUnits
  BY <1>0
<1>4. k <= j
  BY <1>0, <1>1, <1>2, <1>3, Product
<1>5. x - y = (j - k) * FrameUnits /\ x - y \in Nat
  BY <1>0, <1>1, <1>2, <1>4, Product
<1>. QED BY <1>4, <1>5 DEF Whole

(* Division with remainder.                                                *)
LEMMA DivMod ==
  ASSUME NEW a \in Nat, NEW m \in Nat \ {0}
  PROVE  /\ a = (a \div m) * m + (a % m)
         /\ a % m \in 0..(m - 1)
         /\ a \div m \in Nat
  BY SMT

(* Cutting a partial frame off leaves the most whole frames that fit;      *)
(* recoverPartialFrame() computes its validSize so.                        *)
LEMMA Floor ==
  ASSUME NEW x \in Nat
  PROVE  /\ Whole(x - (x % FrameUnits)) /\ x - (x % FrameUnits) <= x
         /\ x < x - (x % FrameUnits) + FrameUnits
         /\ x % FrameUnits \in Nat
         /\ \A w : Whole(w) /\ w <= x => w <= x - (x % FrameUnits)
<1>0. FrameUnits \in Nat \ {0}
  BY FileStoreAssumption
<1>. DEFINE q == x \div FrameUnits
            r == x % FrameUnits
<1>1. x = q * FrameUnits + r /\ r \in 0..(FrameUnits - 1) /\ q \in Nat
  BY <1>0, DivMod
<1>. HIDE DEF q, r
<1>2. q * FrameUnits \in Nat
  BY <1>0, <1>1, Product
<1>3. x - r = q * FrameUnits /\ x - r \in Nat /\ x - r <= x /\ x < x - r + FrameUnits /\ r \in Nat
  BY <1>0, <1>1, <1>2
<1>4. Whole(x - r)
  BY <1>1, <1>3 DEF Whole
<1>5. ASSUME NEW w, Whole(w), w <= x PROVE w <= x - r
  <2>1. PICK k \in Nat : w = k * FrameUnits
    BY <1>5, WholeIs
  <2>2. w \in Nat
    BY <1>5, WholeIs
  <2>3. k * FrameUnits < q * FrameUnits + FrameUnits
    BY <1>0, <1>3, <1>5, <2>1, <2>2
  <2>4. k <= q
    BY <1>0, <1>1, <2>3, Product
  <2>5. q - k \in Nat /\ (q - k) * FrameUnits = q * FrameUnits - k * FrameUnits
    BY <1>0, <1>1, <2>4, Product
  <2>6. (q - k) * FrameUnits \in Nat
    BY <1>0, <2>5, Product
  <2>. QED BY <1>3, <2>1, <2>2, <2>5, <2>6
<1>. QED BY <1>3, <1>4, <1>5 DEF r

(* Rounding up to a frame, as appendFrames() does with the distance to the *)
(* next sync, gives the fewest whole frames that reach it.                 *)
LEMMA RoundUp ==
  ASSUME NEW u \in Nat \ {0}, NEW c, c = (1 + ((u - 1) \div FrameUnits)) * FrameUnits
  PROVE  /\ Whole(c) /\ u <= c /\ c < u + FrameUnits
         /\ \A w : Whole(w) /\ u <= w => c <= w
<1>0. FrameUnits \in Nat \ {0}
  BY FileStoreAssumption
<1>. DEFINE q == (u - 1) \div FrameUnits
            r == (u - 1) % FrameUnits
<1>u. u - 1 \in Nat
  OBVIOUS
<1>1. u - 1 = q * FrameUnits + r /\ r \in 0..(FrameUnits - 1) /\ q \in Nat
  BY <1>0, <1>u, DivMod
<1>c. c = (1 + q) * FrameUnits
  OBVIOUS
<1>. HIDE DEF q, r
<1>2. c = q * FrameUnits + FrameUnits /\ q * FrameUnits \in Nat
  BY <1>0, <1>1, <1>c, Product
<1>3. c \in Nat /\ u <= c /\ c < u + FrameUnits
  BY <1>0, <1>1, <1>2
<1>4. Whole(c)
  BY <1>1, <1>3, <1>c DEF Whole
<1>5. ASSUME NEW w, Whole(w), u <= w PROVE c <= w
  <2>1. PICK k \in Nat : w = k * FrameUnits
    BY <1>5, WholeIs
  <2>2. w \in Nat
    BY <1>5, WholeIs
  <2>3. SUFFICES ASSUME k <= q PROVE FALSE
    <3>1. CASE k > q
      <4>1. (1 + q) <= k /\ k - (1 + q) \in Nat
        BY <3>1, <1>1
      <4>2. (k - (1 + q)) * FrameUnits = k * FrameUnits - (1 + q) * FrameUnits
        BY <1>0, <1>1, <4>1, Product
      <4>3. (k - (1 + q)) * FrameUnits \in Nat
        BY <1>0, <4>1, Product
      <4>. QED BY <1>3, <1>c, <2>1, <2>2, <4>2, <4>3
    <3>. QED BY <1>1, <2>3, <3>1
  <2>4. q - k \in Nat /\ (q - k) * FrameUnits = q * FrameUnits - k * FrameUnits
    BY <1>0, <1>1, <2>3, Product
  <2>5. (q - k) * FrameUnits \in Nat
    BY <1>0, <2>4, Product
  <2>. QED BY <1>1, <1>2, <1>5, <2>1, <2>2, <2>4, <2>5
<1>. QED BY <1>3, <1>4, <1>5

-----------------------------------------------------------------------------
(* The active file becomes r, the others stay.                             *)
Rewritten(r) ==
  /\ files' \in Seq(Inode) /\ Len(files') = Len(files)
  /\ files'[dir[Active]] = r
  /\ \A i \in 1..Len(files) : i # dir[Active] => files'[i] = files[i]

(* The active name leads to a file.                                        *)
LEMMA ActiveIs ==
  ASSUME FileTypes, Active \in DOMAIN dir
  PROVE  /\ dir[Active] \in 1..Len(files) /\ files[dir[Active]] \in Inode
         /\ ActiveData \in Seq(Nat) /\ Disk(dir[Active]) \in Seq(Nat)
         /\ Size(dir[Active]) = Len(ActiveData) /\ Len(ActiveData) \in Nat
         /\ Len(Disk(dir[Active])) \in Nat
<1>1. dir[Active] \in 1..Len(files)
  BY DEF FileTypes
<1>2. files[dir[Active]] \in Inode
  BY <1>1 DEF FileTypes
<1>. QED BY <1>1, <1>2 DEF Inode, ActiveData, Disk, Size

(* Storing to the active file rewrites it.                                 *)
LEMMA RewriteActive ==
  ASSUME FileTypes, Active \in DOMAIN dir, NEW r \in Inode,
         files' = [files EXCEPT ![dir[Active]] = r]
  PROVE  Rewritten(r)
<1>0. dir[Active] \in 1..Len(files) /\ files \in Seq(Inode)
  BY ActiveIs DEF FileTypes
<1>. DEFINE a == dir[Active]
<1>1. a \in 1..Len(files)
  BY <1>0
<1>2. files' = [files EXCEPT ![a] = r]
  OBVIOUS
<1>. HIDE DEF a
<1>3. /\ [files EXCEPT ![a] = r] \in Seq(Inode)
      /\ Len([files EXCEPT ![a] = r]) = Len(files)
      /\ \A j \in 1..Len(files) : [files EXCEPT ![a] = r][j] = IF j = a THEN r ELSE files[j]
  BY <1>0, <1>1, ExceptSeq
<1>4. /\ files' \in Seq(Inode) /\ Len(files') = Len(files) /\ files'[a] = r
      /\ \A i \in 1..Len(files) : i # a => files'[i] = files[i]
  BY <1>1, <1>2, <1>3
<1>. QED BY <1>4 DEF Rewritten, a

(* A rewrite of the active file that keeps to the limit leaves the         *)
(* archives alone.                                                         *)
LEMMA SegmentsRewritten ==
  ASSUME FileTypes, Segments, Active \in DOMAIN dir, NEW r \in Inode, Rewritten(r),
         UNCHANGED <<dir, durableDir>>, Sizes(Len(r.data), Len(r.durable))
  PROVE  FileTypes' /\ Segments'
<1>0. dir[Active] \in 1..Len(files)
  BY ActiveIs
<1>1. FileTypes'
  BY DEF FileTypes, Rewritten
<1>2. \A i \in 1..Len(files') : Sizes(Size(i)', Len(Disk(i)'))
  BY <1>0 DEF Segments, Rewritten, Size, Disk
<1>3. \A n \in Archives(dir) : dir[n] \in 1..Len(files) /\ dir[n] # dir[Active]
  BY DEF FileTypes, Segments, Archives
<1>4. \A n \in Archives(durableDir) : durableDir[n] \in 1..Len(files) /\ durableDir[n] # dir[Active]
  BY DEF FileTypes, Segments, Archives
<1>5. \A n \in Archives(dir) : Archived(dir[n])'
  BY <1>3 DEF Segments, Archived, Size, Rewritten
<1>6. \A n \in Archives(durableDir) : Archived(durableDir[n])'
  BY <1>4 DEF Segments, Archived, Size, Rewritten
<1>. QED BY <1>1, <1>2, <1>5, <1>6 DEF Segments, Archives

(* fdatasync(): the disk holds the active file, and nothing counts as      *)
(* unsynced.                                                               *)
LEMMA Synced ==
  ASSUME FileTypes, Segments, Active \in DOMAIN dir, SyncFile, UNCHANGED <<dir, durableDir>>
  PROVE  /\ FileTypes' /\ Segments'
         /\ Size(dir[Active])' = Size(dir[Active])
         /\ files'[dir[Active]].data = files'[dir[Active]].durable
         /\ Size(dir[Active])' - Len(Disk(dir[Active])') = 0
         /\ unsyncedBytes' = 0 /\ inherited' = 0
<1>. DEFINE r == [data |-> ActiveData, durable |-> ActiveData]
<1>1. r \in Inode /\ Len(ActiveData) \in Nat
  BY ActiveIs DEF Inode
<1>2. Sizes(Len(ActiveData), Len(Disk(dir[Active])))
  BY ActiveIs DEF Segments
<1>3. Sizes(Len(r.data), Len(r.durable))
  BY <1>2 DEF Sizes
<1>4. files' = [files EXCEPT ![dir[Active]] = r]
  BY DEF SyncFile
<1>. HIDE DEF r
<1>5. Rewritten(r)
  BY <1>1, <1>4, RewriteActive
<1>6. FileTypes' /\ Segments'
  BY <1>1, <1>3, <1>5, SegmentsRewritten
<1>7. files'[dir[Active]].data = ActiveData /\ files'[dir[Active]].durable = ActiveData
  BY <1>5 DEF Rewritten, r
<1>8. /\ Size(dir[Active])' = Size(dir[Active])
      /\ Size(dir[Active])' - Len(Disk(dir[Active])') = 0
  BY <1>1, <1>7 DEF Size, Disk, ActiveData
<1>. QED BY <1>6, <1>7, <1>8 DEF SyncFile

(* Steps that leave the files alone.                                       *)
LEMMA FilesSame ==
  ASSUME FileTypes, Segments, UNCHANGED <<files, dir, durableDir>>
  PROVE  FileTypes' /\ Segments'
  BY DEF FileTypes, Segments, Sizes, Size, Disk, Archives, Archived

(* fsync() of the directory: the archives on the disk are the current      *)
(* ones.                                                                   *)
LEMMA DirectorySynced ==
  ASSUME FileTypes, Segments, SyncDirectory, UNCHANGED <<files, dir>>
  PROVE  FileTypes' /\ Segments'
  BY DEF FileTypes, Segments, Sizes, Size, Disk, Archives, Archived, SyncDirectory

-----------------------------------------------------------------------------
(* openFile() starts from a valid configuration and zeroed counters.       *)
LEMMA StoreOpens ==
  ASSUME StoreInv, OpenFile
  PROVE  StoreInv'
<1>. USE DEF StoreInv, OpenFile
<1>1. FileTypes' /\ Segments'
  BY FilesSame
<1>2. CallTypes'
  BY WholeZero, FileStoreAssumption DEF CallTypes, Places, callVars
<1>3. Progress'
  BY DEF Progress, CallTypes, Found, Settled, Opened, callVars
<1>4. Cadence'
  BY DEF Cadence, Opened
<1>. QED BY <1>1, <1>2, <1>3, <1>4

(* openActiveFile(): a new file is empty and no archive, however many      *)
(* there are.                                                              *)
LEMMA StoreCreates ==
  ASSUME StoreInv, OpenActiveFile
  PROVE  StoreInv'
<1>. USE DEF StoreInv, OpenActiveFile
<1>1. CallTypes'
  BY DEF CallTypes, Places, Found, callVars, started
<1>2. Cadence'
  BY DEF Cadence, Opened, started, callVars
<1>3. CASE Active \in DOMAIN dir
  <2>1. FileTypes' /\ Segments'
    BY <1>3, FilesSame
  <2>2. Progress'
    BY <1>3 DEF Progress, Found, Settled, Opened, callVars, started
  <2>. QED BY <1>1, <1>2, <2>1, <2>2
<1>4. CASE Active \notin DOMAIN dir
  <2>. DEFINE e == [data |-> <<>>, durable |-> <<>>]
  <2>1. e \in Inode
    BY DEF Inode
  <2>2. files \in Seq(Inode) /\ Len(files) \in Nat
    BY DEF FileTypes
  <2>3. files' = files \o <<e>>
    BY <1>4
  <2>4. e.data = <<>> /\ e.durable = <<>>
    OBVIOUS
  <2>. HIDE DEF e
  <2>5. /\ files' \in Seq(Inode) /\ Len(files') = Len(files) + 1
        /\ \A i \in 1..Len(files) : files'[i] = files[i]
        /\ files'[Len(files) + 1] = e
    BY <2>1, <2>2, <2>3
  <2>6. /\ DOMAIN dir' = DOMAIN dir \cup {Active}
        /\ dir'[Active] = Len(files) + 1
        /\ \A n \in DOMAIN dir : dir'[n] = dir[n]
        /\ durableDir' = durableDir
    BY <1>4
  <2>a. Active \in Nat \X Nat
    BY DEF Active
  <2>b. dir' \in [DOMAIN dir' -> 1..(Len(files) + 1)]
    <3>1. dir' = [n \in DOMAIN dir' |-> IF n = Active THEN Len(files) + 1 ELSE dir[n]]
      BY <1>4, <2>6
    <3>2. \A n \in DOMAIN dir : dir[n] \in 1..(Len(files) + 1)
      BY <2>2 DEF FileTypes
    <3>. QED BY <2>2, <2>6, <3>1, <3>2
  <2>7. FileTypes'
    BY <2>2, <2>5, <2>6, <2>a, <2>b DEF FileTypes
  <2>8. \A i \in 1..Len(files') : Sizes(Size(i)', Len(Disk(i)'))
    <3>. SUFFICES ASSUME NEW i \in 1..Len(files') PROVE Sizes(Size(i)', Len(Disk(i)'))
      OBVIOUS
    <3>1. CASE i \in 1..Len(files)
      BY <2>5, <3>1 DEF Segments, Size, Disk
    <3>2. CASE i = Len(files) + 1
      <4>1. Len(files'[i].data) = 0 /\ Len(files'[i].durable) = 0
        BY <2>4, <2>5, <3>2
      <4>. QED BY <4>1, FileStoreAssumption DEF Sizes, Size, Disk
    <3>. QED BY <2>2, <2>5, <3>1, <3>2
  <2>9. Archives(dir)' = Archives(dir) /\ Archives(durableDir)' = Archives(durableDir)
    BY <2>6 DEF Archives
  <2>10. /\ \A n \in Archives(dir) : dir'[n] = dir[n] /\ dir[n] \in 1..Len(files)
         /\ \A n \in Archives(durableDir) : durableDir'[n] = durableDir[n]
                                            /\ durableDir[n] \in 1..Len(files)
    BY <2>6 DEF Archives, FileTypes
  <2>11. /\ \A n \in Archives(dir) : Archived(dir[n])'
         /\ \A n \in Archives(durableDir) : Archived(durableDir[n])'
    BY <2>5, <2>10 DEF Segments, Archived, Size
  <2>12. /\ \A n \in Archives(dir) : dir'[n] # dir'[Active]
         /\ \A n \in Archives(durableDir) : durableDir'[n] # dir'[Active]
    BY <2>2, <2>6, <2>10
  <2>13. Segments'
    BY <2>6, <2>8, <2>9, <2>11, <2>12 DEF Segments
  <2>14. Progress'
    BY <1>4, <2>6 DEF Progress, Found, Settled, Opened, callVars, started
  <2>. QED BY <1>1, <1>2, <2>7, <2>13, <2>14
<1>. QED BY <1>3, <1>4

(* The directory is synced after the creation.                             *)
LEMMA StoreSyncsCreated ==
  ASSUME StoreInv, SyncCreated
  PROVE  StoreInv'
<1>. USE DEF StoreInv, SyncCreated
<1>1. FileTypes' /\ Segments'
  BY DirectorySynced
<1>2. CallTypes'
  BY DEF CallTypes, Places, Found, callVars, memberVars, started
<1>3. Progress'
  BY DEF Progress, Found, Settled, Opened, callVars, memberVars, started
<1>4. Cadence'
  BY DEF Cadence, Opened, callVars, memberVars, started
<1>. QED BY <1>1, <1>2, <1>3, <1>4

(* In a running process the segment limit is a number of whole frames, at  *)
(* least one.                                                              *)
LEMMA ValidSegment ==
  ASSUME StoreInv, fpc # "down"
  PROVE  Whole(MaxSegment) /\ MaxSegment >= FrameUnits
<1>1. MaxSegment % FrameUnits = 0 /\ MaxSegment >= FrameUnits
  BY DEF StoreInv, Progress, ValidConfig
<1>2. MaxSegment \in Nat
  BY FileStoreAssumption
<1>3. Whole(MaxSegment - (MaxSegment % FrameUnits))
  BY <1>2, Floor
<1>. QED BY <1>1, <1>2, <1>3

(* Cutting off a partial frame keeps a file that was within the limit      *)
(* within it, and one that was found larger near what was found.           *)
LEMMA CutSizes ==
  ASSUME Whole(MaxSegment), NEW size \in Nat, NEW onDisk \in Nat, Sizes(size, onDisk),
         NEW cut, cut = size - (size % FrameUnits)
  PROVE  Sizes(cut, onDisk)
<1>1. /\ Whole(cut) /\ cut <= size
      /\ \A w : Whole(w) /\ w <= size => w <= cut
  BY Floor
<1>2. cut \in Nat /\ MaxSegment \in Nat
  BY <1>1, WholeIs
<1>3. CASE size <= MaxSegment /\ onDisk <= MaxSegment
  BY <1>1, <1>2, <1>3 DEF Sizes
<1>4. CASE ~(size <= MaxSegment /\ onDisk <= MaxSegment)
  <2>1. PICK found \in InitialSizes :
          /\ found > MaxSegment
          /\ size \in (found - (found % FrameUnits))..found
          /\ onDisk \in (found - (found % FrameUnits))..found
    BY <1>4 DEF Sizes
  <2>. DEFINE low == found - (found % FrameUnits)
  <2>2. found \in Nat
    BY FileStoreAssumption
  <2>3. Whole(low)
    BY <2>2, Floor
  <2>4. low \in Nat
    BY <2>3, WholeIs
  <2>5. low <= cut
    BY <1>1, <2>1, <2>3, <2>4
  <2>6. cut \in low..found
    BY <1>1, <1>2, <2>1, <2>2, <2>4, <2>5
  <2>. QED BY <2>1, <2>6 DEF Sizes
<1>. QED BY <1>3, <1>4

(* recoverPartialFrame(): the size is known now, whole, and what an        *)
(* earlier process left unsynced is counted as inherited.                  *)
LEMMA StoreRecovers ==
  ASSUME StoreInv, RecoverPartialFrame
  PROVE  StoreInv'
<1>. USE DEF StoreInv
<1>. DEFINE size == Len(ActiveData)
            cut == size - (size % FrameUnits)
            onDisk == Len(files[dir[Active]].durable)
            r == [data |-> SubSeq(ActiveData, 1, cut), durable |-> files[dir[Active]].durable]
<1>0. /\ fpc = "recover" /\ currentSize' = cut
      /\ files' = [files EXCEPT ![dir[Active]] = r]
      /\ fpc' \in {"recoverSync", "loop"}
      /\ inherited' = IF onDisk < cut THEN cut - onDisk ELSE 0
      /\ UNCHANGED <<dir, durableDir, started, unsyncedBytes, rotationSequence, entryAtRisk, callVars>>
  BY DEF RecoverPartialFrame
<1>1. Active \in DOMAIN dir
  BY <1>0 DEF Progress, Found
<1>2. /\ ActiveData \in Seq(Nat) /\ size \in Nat /\ onDisk \in Nat
      /\ files[dir[Active]].durable \in Seq(Nat) /\ Sizes(size, onDisk)
  BY <1>1, ActiveIs DEF Disk, Segments
<1>3. Whole(MaxSegment)
  BY <1>0, ValidSegment
<1>4. Whole(cut) /\ cut <= size /\ cut \in Nat
  BY <1>2, Floor, WholeIs
<1>5. Sizes(cut, onDisk)
  BY <1>2, <1>3, CutSizes
<1>. HIDE DEF cut, size
<1>6. SubSeq(ActiveData, 1, cut) \in Seq(Nat) /\ Len(SubSeq(ActiveData, 1, cut)) = cut
  BY <1>2, <1>4 DEF size
<1>7. r \in Inode
  BY <1>2, <1>6 DEF Inode
<1>8. Len(r.data) = cut /\ Len(r.durable) = onDisk
  BY <1>6
<1>. HIDE DEF r
<1>9. Rewritten(r)
  BY <1>0, <1>1, <1>7, RewriteActive
<1>10. FileTypes' /\ Segments'
  BY <1>0, <1>1, <1>5, <1>7, <1>8, <1>9, SegmentsRewritten
<1>11. Size(dir[Active])' = cut /\ Len(Disk(dir[Active])') = onDisk
  BY <1>0, <1>8, <1>9 DEF Rewritten, Size, Disk
<1>. HIDE DEF onDisk
<1>12. unsyncedBytes = 0 /\ chunkBytes = 0 /\ writtenBytes = 0
  BY <1>0 DEF Cadence, Progress, CallTypes
<1>13. inherited' \in Nat /\ cut - onDisk - inherited' <= 0
  BY <1>0, <1>2, <1>4
<1>14. CallTypes'
  BY <1>0, <1>4, <1>13 DEF CallTypes, Places, Found, Settled, Opened, started, callVars
<1>15. Progress'
  BY <1>0, <1>1, <1>4, <1>11, <1>12 DEF Progress, Found, Settled, Opened, started, callVars
<1>16. syncEvery' = syncEvery /\ unsyncedBytes' = 0 /\ chunkBytes' = 0 /\ writtenBytes' = 0
  BY <1>0, <1>12 DEF started, callVars
<1>17. syncEvery \in Nat
  BY DEF CallTypes
<1>18. fpc' \notin {"write", "sync"}
  BY <1>0
<1>19. Size(dir[Active])' - Len(Disk(dir[Active])') - inherited' <= unsyncedBytes' + writtenBytes'
  BY <1>11, <1>13, <1>16
<1>20. Cadence'
  BY <1>0, <1>16, <1>17, <1>18, <1>19 DEF Cadence
<1>. QED BY <1>10, <1>14, <1>15, <1>20

(* A sync resets one counter and changes no other.                         *)
LEMMA SyncedCalls ==
  ASSUME CallTypes, SyncFile, fpc' \in Places,
         UNCHANGED <<started, currentSize, rotationSequence, callVars>>
  PROVE  CallTypes'
  BY DEF CallTypes, SyncFile, started, callVars

(* The four places that sync the active file and go on.                    *)
LEMMA StoreSyncs ==
  ASSUME StoreInv, RecoverSync \/ SyncChunk \/ Sync \/ RotateSync
  PROVE  StoreInv'
<1>. USE DEF StoreInv
<1>0. /\ SyncFile
      /\ \/ fpc = "recoverSync" /\ fpc' = "loop"
         \/ fpc = "sync" /\ fpc' = "loop"
         \/ fpc = "idle" /\ fpc' = "synced"
         \/ fpc = "rotate" /\ fpc' = "rename"
      /\ UNCHANGED <<dir, durableDir, started, currentSize, rotationSequence, entryAtRisk, callVars>>
  BY DEF RecoverSync, SyncChunk, Sync, RotateSync
<1>1. Active \in DOMAIN dir /\ fpc \in Settled /\ fpc # "write" /\ fpc # "down"
  BY <1>0 DEF Progress, Found, Settled, Opened
<1>2. /\ FileTypes' /\ Segments'
      /\ Size(dir[Active])' = Size(dir[Active])
      /\ files'[dir[Active]].data = files'[dir[Active]].durable
      /\ Size(dir[Active])' - Len(Disk(dir[Active])') = 0
      /\ unsyncedBytes' = 0 /\ inherited' = 0
  BY <1>0, <1>1, Synced
<1>3. CallTypes'
  <2>1. fpc' \in Places
    BY <1>0 DEF Places, Found, Settled, Opened
  <2>. QED BY <1>0, <2>1, SyncedCalls
<1>4. chunkBytes' = 0 /\ writtenBytes' = 0 /\ syncEvery' = syncEvery /\ syncEvery \in Nat
  BY <1>0, <1>1 DEF Progress, CallTypes, started, callVars
<1>5. Progress'
  BY <1>0, <1>1, <1>2, <1>4 DEF Progress, started, callVars
<1>6. FrameUnits \in Nat \ {0}
  BY FileStoreAssumption
<1>7. Size(dir[Active])' - Len(Disk(dir[Active])') - inherited' <= unsyncedBytes' + writtenBytes'
  BY <1>2, <1>4
<1>8. Cadence'
  BY <1>0, <1>2, <1>4, <1>6, <1>7 DEF Cadence
<1>. QED BY <1>2, <1>3, <1>5, <1>8

(* appendFrames() takes a batch behind the last one.                       *)
LEMMA StoreTakesBatch ==
  ASSUME StoreInv, NEW n \in 1..MaxBatch, AppendFrames(n)
  PROVE  StoreInv'
<1>. USE DEF StoreInv
<1>0. /\ fpc = "idle" /\ fpc' = "loop"
      /\ batchStart' = batchEnd /\ offset' = batchEnd /\ batchEnd' = batchEnd + n * FrameUnits
      /\ UNCHANGED <<fsVars, memberVars, chunkBytes, writtenBytes>>
  BY DEF AppendFrames
<1>1. FileTypes' /\ Segments'
  BY <1>0, FilesSame DEF fsVars
<1>2. n \in Nat /\ n * FrameUnits \in Nat
  BY FileStoreAssumption
<1>3. Whole(n * FrameUnits)
  BY <1>2 DEF Whole
<1>4. Whole(batchEnd) /\ batchEnd \in Nat
  BY WholeIs DEF CallTypes
<1>5. Whole(batchEnd')
  BY <1>0, <1>3, <1>4, WholeSum
<1>6. chunkBytes = 0
  BY <1>0 DEF Progress
<1>a. batchEnd <= batchEnd' /\ batchEnd + 0 <= batchEnd'
  <2>. DEFINE m == n * FrameUnits
  <2>1. m \in Nat /\ batchEnd' = batchEnd + m
    BY <1>0, <1>2
  <2>. HIDE DEF m
  <2>. QED BY <1>4, <2>1
<1>7. CallTypes'
  BY <1>0, <1>4, <1>5, <1>6, <1>a DEF CallTypes, Places, Found, Settled, Opened, fsVars, started, memberVars
<1>8. Progress'
  BY <1>0 DEF Progress, Found, Settled, Opened, fsVars, started, memberVars, Size
<1>9. Cadence'
  BY <1>0 DEF Cadence, Opened, fsVars, started, memberVars, Size, Disk
<1>. QED BY <1>1, <1>7, <1>8, <1>9

(* The ends of a round of the loop that writes nothing.                    *)
LEMMA StoreLoops ==
  ASSUME StoreInv, AppendDone \/ StartRotation
  PROVE  StoreInv'
<1>. USE DEF StoreInv
<1>0. /\ fpc = "loop" /\ fpc' \in {"idle", "rotate"} /\ (fpc' = "rotate" => currentSize >= MaxSegment)
      /\ UNCHANGED <<fsVars, memberVars, callVars>>
  BY DEF AppendDone, StartRotation
<1>1. FileTypes' /\ Segments'
  BY <1>0, FilesSame DEF fsVars
<1>2. CallTypes'
  BY <1>0 DEF CallTypes, Places, Found, Settled, Opened, fsVars, started, memberVars, callVars
<1>3. Progress'
  BY <1>0 DEF Progress, Found, Settled, Opened, fsVars, started, memberVars, callVars, Size
<1>4. Cadence'
  BY <1>0 DEF Cadence, Opened, fsVars, started, memberVars, callVars, Size, Disk
<1>. QED BY <1>1, <1>2, <1>3, <1>4

(* A chunk is whole frames, fits the batch and the segment, and crosses    *)
(* the sync interval by less than a frame.                                 *)
LEMMA ChunkIs ==
  ASSUME StoreInv, fpc = "loop", offset < batchEnd, currentSize < MaxSegment,
         NEW c, c = Chunk(unsyncedBytes)
  PROVE  /\ Whole(c) /\ offset + c <= batchEnd /\ currentSize + c <= MaxSegment
         /\ syncEvery # 0 => unsyncedBytes + c < syncEvery + FrameUnits
<1>. USE DEF StoreInv
<1>0. /\ FrameUnits \in Nat \ {0} /\ MaxSegment \in Nat
  BY FileStoreAssumption
<1>1. /\ Whole(batchEnd) /\ Whole(offset) /\ Whole(currentSize) /\ Whole(MaxSegment)
      /\ batchEnd \in Nat /\ offset \in Nat /\ currentSize \in Nat
      /\ unsyncedBytes \in Nat /\ syncEvery \in Nat
  BY ValidSegment, WholeIs DEF CallTypes
<1>. DEFINE x == batchEnd - offset
            y == MaxSegment - currentSize
            fits == Min2(x, y)
            untilSync == syncEvery - unsyncedBytes
<1>2. Whole(x) /\ Whole(y)
  <2>1. offset <= batchEnd /\ currentSize <= MaxSegment
    BY <1>0, <1>1
  <2>2. Whole(batchEnd - offset)
    BY <1>1, <2>1, WholeDifference
  <2>3. Whole(MaxSegment - currentSize)
    BY <1>1, <2>1, WholeDifference
  <2>. QED BY <2>2, <2>3
<1>3. fits \in {x, y} /\ fits <= x /\ fits <= y /\ x \in Nat /\ y \in Nat
  BY <1>2, WholeIs DEF Min2
<1>4. c = IF syncEvery # 0 /\ untilSync < fits
            THEN (1 + ((untilSync - 1) \div FrameUnits)) * FrameUnits ELSE fits
  BY DEF Chunk
<1>5. syncEvery # 0 => untilSync \in Nat \ {0}
  BY <1>1 DEF Cadence
<1>. HIDE DEF fits
<1>6. Whole(fits)
  BY <1>2, <1>3
<1>7. CASE syncEvery # 0 /\ untilSync < fits
  <2>1. untilSync \in Nat \ {0} /\ untilSync <= fits
    BY <1>1, <1>3, <1>5, <1>7
  <2>2. c = (1 + ((untilSync - 1) \div FrameUnits)) * FrameUnits
    BY <1>4, <1>7
  <2>t. untilSync = syncEvery - unsyncedBytes
    OBVIOUS
  <2>. HIDE DEF untilSync
  <2>3. /\ Whole(c) /\ c < untilSync + FrameUnits
        /\ \A w : Whole(w) /\ untilSync <= w => c <= w
    BY <2>1, <2>2, RoundUp
  <2>4. c <= fits /\ c \in Nat
    BY <1>6, <2>1, <2>3, WholeIs
  <2>5. c <= x /\ c <= y
    BY <1>3, <2>4
  <2>6. offset + c <= batchEnd /\ currentSize + c <= MaxSegment
    BY <1>0, <1>1, <2>4, <2>5
  <2>7. unsyncedBytes + c < syncEvery + FrameUnits
    BY <1>0, <1>1, <2>t, <2>3, <2>4
  <2>. QED BY <2>3, <2>6, <2>7
<1>8. CASE ~(syncEvery # 0 /\ untilSync < fits)
  <2>1. c = fits
    BY <1>4, <1>8
  <2>2. c \in Nat /\ c <= x /\ c <= y
    BY <1>3, <2>1
  <2>3. offset + c <= batchEnd /\ currentSize + c <= MaxSegment
    BY <1>0, <1>1, <2>2
  <2>4. syncEvery # 0 => unsyncedBytes + c < syncEvery + FrameUnits
    BY <1>0, <1>1, <1>8, <2>1, <2>2
  <2>. QED BY <1>6, <2>1, <2>3, <2>4
<1>. QED BY <1>7, <1>8

(* The next chunk; a sync that is due comes first.                         *)
LEMMA StoreStartsChunk ==
  ASSUME StoreInv, NextChunk
  PROVE  StoreInv'
<1>. USE DEF StoreInv
<1>0. fpc = "loop" /\ offset < batchEnd /\ currentSize < MaxSegment
  BY DEF NextChunk
<1>1. ~(syncEvery # 0 /\ unsyncedBytes >= syncEvery)
  BY <1>0 DEF Cadence, CallTypes
<1>2. /\ UNCHANGED <<files, unsyncedBytes, inherited>> /\ fpc' = "write" /\ writtenBytes' = 0
      /\ UNCHANGED <<dir, durableDir, started, currentSize, rotationSequence, batchStart, batchEnd, offset>>
      /\ chunkBytes' = Chunk(unsyncedBytes')
  BY <1>1 DEF NextChunk
<1>3. chunkBytes' = Chunk(unsyncedBytes)
  BY <1>2 DEF Chunk, started
<1>4. /\ Whole(chunkBytes') /\ offset + chunkBytes' <= batchEnd /\ currentSize + chunkBytes' <= MaxSegment
      /\ syncEvery # 0 => unsyncedBytes + chunkBytes' < syncEvery + FrameUnits
  BY <1>0, <1>3, ChunkIs
<1>5. chunkBytes' \in Nat
  BY <1>4, WholeIs
<1>6. FileTypes' /\ Segments'
  BY <1>2, FilesSame
<1>7. CallTypes'
  BY <1>2, <1>4, <1>5 DEF CallTypes, Places, Found, Settled, Opened, started
<1>8. chunkBytes = 0 /\ writtenBytes = 0
  BY <1>0 DEF Progress, CallTypes
<1>9. Progress'
  BY <1>0, <1>2, <1>4, <1>8 DEF Progress, Found, Settled, Opened, started, Size
<1>10. Cadence'
  BY <1>0, <1>2, <1>4, <1>8 DEF Cadence, Opened, started, Size, Disk
<1>. QED BY <1>6, <1>7, <1>9, <1>10

(* Concatenation.                                                          *)
LEMMA Joined ==
  ASSUME NEW s \in Seq(Nat), NEW t \in Seq(Nat)
  PROVE  s \o t \in Seq(Nat) /\ Len(s \o t) = Len(s) + Len(t)
  OBVIOUS

(* A write raises the unsynced part and the count of written bytes alike.  *)
LEMMA Raised ==
  ASSUME NEW x \in Nat, NEW y \in Nat, NEW z \in Nat, NEW u \in Nat, NEW w \in Nat, NEW n \in Nat,
         x - y - z <= u + w
  PROVE  (x + n) - y - z <= u + (w + n)
  OBVIOUS

(* write(), however much of the rest of the chunk it takes.                *)
LEMMA StoreWrites ==
  ASSUME StoreInv, Write
  PROVE  StoreInv'
<1>. USE DEF StoreInv
<1>0. PICK n \in 1..(chunkBytes - writtenBytes) :
        /\ files' = [files EXCEPT ![dir[Active]] =
                       [data |-> ActiveData \o FileUnits(offset + writtenBytes, n),
                        durable |-> files[dir[Active]].durable]]
        /\ writtenBytes' = writtenBytes + n
  BY DEF Write
<1>1. /\ fpc = "write" /\ writtenBytes < chunkBytes
      /\ UNCHANGED <<dir, durableDir, started, memberVars, fpc, batchStart, batchEnd, offset, chunkBytes>>
  BY DEF Write
<1>2. /\ chunkBytes \in Nat /\ writtenBytes \in Nat /\ offset \in Nat /\ currentSize \in Nat
      /\ MaxSegment \in Nat /\ n \in Nat /\ unsyncedBytes \in Nat /\ inherited \in Nat
      /\ writtenBytes + n <= chunkBytes
  <2>1. /\ chunkBytes \in Nat /\ offset \in Nat /\ currentSize \in Nat
        /\ unsyncedBytes \in Nat /\ inherited \in Nat /\ writtenBytes \in 0..chunkBytes
    BY WholeIs DEF CallTypes
  <2>2. MaxSegment \in Nat
    BY FileStoreAssumption
  <2>. QED BY <2>1, <2>2
<1>3. Active \in DOMAIN dir
  BY <1>1 DEF Progress, Found, Settled, Opened
<1>4. /\ ActiveData \in Seq(Nat) /\ Len(ActiveData) \in Nat
      /\ Len(ActiveData) = currentSize + writtenBytes
      /\ files[dir[Active]].durable \in Seq(Nat) /\ Len(files[dir[Active]].durable) \in Nat
      /\ Sizes(Len(ActiveData), Len(files[dir[Active]].durable))
      /\ currentSize + chunkBytes <= MaxSegment
      /\ Len(ActiveData) - Len(files[dir[Active]].durable) - inherited <= unsyncedBytes + writtenBytes
  BY <1>1, <1>3, ActiveIs DEF Progress, Settled, Opened, Segments, Disk, Cadence
<1>5. FileUnits(offset + writtenBytes, n) \in Seq(Nat) /\ Len(FileUnits(offset + writtenBytes, n)) = n
  BY <1>2 DEF FileUnits
<1>. DEFINE d == ActiveData \o FileUnits(offset + writtenBytes, n)
            e == files[dir[Active]].durable
            r == [data |-> d, durable |-> e]
<1>6. d \in Seq(Nat) /\ Len(d) = Len(ActiveData) + n
  BY <1>4, <1>5, Joined
<1>7. r \in Inode /\ r.data = d /\ r.durable = e
  BY <1>4, <1>6 DEF Inode
<1>8. files' = [files EXCEPT ![dir[Active]] = r]
  BY <1>0
<1>. HIDE DEF r, d, e
<1>9. Len(d) <= MaxSegment /\ Len(ActiveData) < MaxSegment
  BY <1>1, <1>2, <1>4, <1>6
<1>10. Len(e) <= MaxSegment
  <2>. SUFFICES ASSUME ~(Len(e) <= MaxSegment) PROVE FALSE
    OBVIOUS
  <2>1. PICK found \in InitialSizes :
          /\ found > MaxSegment
          /\ Len(ActiveData) \in (found - (found % FrameUnits))..found
    BY <1>4 DEF Sizes, e
  <2>2. found \in Nat
    BY FileStoreAssumption
  <2>3. Whole(MaxSegment)
    BY <1>1, ValidSegment
  <2>4. MaxSegment <= found
    BY <1>2, <2>1, <2>2
  <2>5. MaxSegment <= found - (found % FrameUnits)
    BY <2>2, <2>3, <2>4, Floor
  <2>6. found % FrameUnits \in Nat
    BY <2>2, Floor
  <2>. QED BY <1>2, <1>4, <1>9, <2>1, <2>2, <2>5, <2>6
<1>11. Sizes(Len(r.data), Len(r.durable))
  BY <1>7, <1>9, <1>10 DEF Sizes
<1>12. Rewritten(r)
  BY <1>3, <1>7, <1>8, RewriteActive
<1>13. FileTypes' /\ Segments'
  BY <1>1, <1>3, <1>7, <1>11, <1>12, SegmentsRewritten
<1>14. Size(dir[Active])' = Len(d) /\ Len(Disk(dir[Active])') = Len(e)
  BY <1>1, <1>7, <1>12 DEF Rewritten, Size, Disk
<1>15. CallTypes'
  <2>1. writtenBytes' \in 0..chunkBytes
    BY <1>0, <1>2
  <2>. QED BY <1>1, <2>1 DEF CallTypes, started, memberVars
<1>16. Len(d) = currentSize + writtenBytes'
  BY <1>0, <1>2, <1>4, <1>6
<1>17. Progress'
  BY <1>1, <1>14, <1>16 DEF Progress, Found, Settled, Opened, started, memberVars
<1>18. Len(d) - Len(e) - inherited <= unsyncedBytes + writtenBytes'
  <2>1. Len(ActiveData) - Len(e) - inherited <= unsyncedBytes + writtenBytes /\ Len(e) \in Nat
    BY <1>4 DEF e
  <2>2. (Len(ActiveData) + n) - Len(e) - inherited <= unsyncedBytes + (writtenBytes + n)
    BY <1>2, <1>4, <2>1, Raised
  <2>. QED BY <1>0, <1>6, <2>2
<1>19. Cadence'
  BY <1>1, <1>14, <1>18 DEF Cadence, Opened, started, memberVars
<1>. QED BY <1>13, <1>15, <1>17, <1>19

(* The counters take over the chunk, and the interval is checked.          *)
LEMMA StoreEndsChunk ==
  ASSUME StoreInv, ChunkWritten
  PROVE  StoreInv'
<1>. USE DEF StoreInv
<1>0. /\ fpc = "write" /\ writtenBytes = chunkBytes
      /\ offset' = offset + chunkBytes /\ currentSize' = currentSize + chunkBytes
      /\ unsyncedBytes' = unsyncedBytes + chunkBytes
      /\ chunkBytes' = 0 /\ writtenBytes' = 0
      /\ fpc' = IF syncEvery # 0 /\ unsyncedBytes' >= syncEvery THEN "sync" ELSE "loop"
      /\ UNCHANGED <<fsVars, rotationSequence, inherited, entryAtRisk, batchStart, batchEnd>>
  BY DEF ChunkWritten
<1>1. FileTypes' /\ Segments'
  BY <1>0, FilesSame DEF fsVars
<1>2. Whole(offset') /\ Whole(currentSize') /\ Whole(chunkBytes')
  BY <1>0, WholeSum, WholeZero DEF CallTypes
<1>3. /\ chunkBytes \in Nat /\ offset \in Nat /\ batchEnd \in Nat /\ batchStart \in Nat
      /\ currentSize \in Nat /\ unsyncedBytes \in Nat /\ syncEvery \in Nat
      /\ offset + chunkBytes <= batchEnd /\ batchStart <= offset
  BY WholeIs DEF CallTypes
<1>4. /\ batchStart <= offset' /\ offset' + 0 <= batchEnd /\ unsyncedBytes' \in Nat
  BY <1>0, <1>3
<1>5. CallTypes'
  BY <1>0, <1>2, <1>4 DEF CallTypes, Places, Found, Settled, Opened, fsVars, started
<1>6. fpc' \in {"sync", "loop"} /\ fpc' \notin {"write", "idle"}
  BY <1>0
<1>7. Size(dir[Active]) = currentSize + writtenBytes /\ Active \in DOMAIN dir
      /\ ValidConfig(MaxSegment, syncEvery)
  BY <1>0 DEF Progress, Found, Settled, Opened
<1>8. Size(dir[Active])' = currentSize' + writtenBytes'
  BY <1>0, <1>3, <1>7 DEF Size, fsVars
<1>9. Progress'
  BY <1>0, <1>6, <1>7, <1>8 DEF Progress, fsVars, started
<1>10. /\ Size(dir[Active]) - Len(Disk(dir[Active])) - inherited <= unsyncedBytes + writtenBytes
       /\ syncEvery # 0 => unsyncedBytes + chunkBytes < syncEvery + FrameUnits
  BY <1>0 DEF Cadence, Opened
<1>11. /\ Size(dir[Active])' - Len(Disk(dir[Active])') - inherited' <= unsyncedBytes' + writtenBytes'
       /\ syncEvery' # 0 => unsyncedBytes' + chunkBytes' < syncEvery' + FrameUnits
  <2>1. unsyncedBytes' + writtenBytes' = unsyncedBytes + writtenBytes
    BY <1>0, <1>3
  <2>2. unsyncedBytes' + chunkBytes' = unsyncedBytes + chunkBytes
    BY <1>0, <1>3
  <2>. QED BY <1>0, <1>10, <2>1, <2>2 DEF Size, Disk, fsVars, started
<1>12. syncEvery' # 0 /\ fpc' = "loop" => unsyncedBytes' < syncEvery'
  BY <1>0, <1>3, <1>4 DEF fsVars, started
<1>13. Cadence'
  BY <1>6, <1>11, <1>12 DEF Cadence
<1>. QED BY <1>1, <1>5, <1>9, <1>13

(* The rename turns the active file, which is full and synced, into an     *)
(* archive; a name that was taken would now lead to it.                    *)
LEMMA StoreRenames ==
  ASSUME StoreInv, RotateRename
  PROVE  StoreInv'
<1>. USE DEF StoreInv
<1>0. /\ fpc = "rename" /\ fpc' = "renamed" /\ rotationSequence' = rotationSequence + 1
      /\ dir' = [n \in (DOMAIN dir \ {Active}) \cup {ArchiveName} |->
                   IF n = ArchiveName THEN dir[Active] ELSE dir[n]]
      /\ UNCHANGED <<files, durableDir, started, currentSize, unsyncedBytes, inherited, entryAtRisk, callVars>>
  BY DEF RotateRename
<1>1. Active \in DOMAIN dir /\ dir[Active] \in 1..Len(files) /\ Archived(dir[Active])
  <2>1. Active \in DOMAIN dir
    BY <1>0 DEF Progress, Found, Settled, Opened
  <2>2. dir[Active] \in 1..Len(files)
    BY <2>1, ActiveIs
  <2>3. /\ files[dir[Active]].data = files[dir[Active]].durable
        /\ Size(dir[Active]) = currentSize + writtenBytes /\ currentSize >= MaxSegment
        /\ chunkBytes = 0
    BY <1>0 DEF Progress, Settled, Opened
  <2>4. currentSize \in Nat /\ writtenBytes = 0
    BY <2>3, WholeIs DEF CallTypes
  <2>. QED BY <2>1, <2>2, <2>3, <2>4 DEF Archived
<1>2. ArchiveName \in Nat \X Nat
  BY DEF ArchiveName, CallTypes
<1>. DEFINE new == (DOMAIN dir \ {Active}) \cup {ArchiveName}
<1>3. DOMAIN dir' = new /\ \A n \in new : dir'[n] = IF n = ArchiveName THEN dir[Active] ELSE dir[n]
  BY <1>0
<1>4. dir' \in [new -> 1..Len(files)]
  <2>1. \A n \in DOMAIN dir : dir[n] \in 1..Len(files)
    BY DEF FileTypes
  <2>. QED BY <1>0, <1>1, <2>1
<1>5. FileTypes'
  BY <1>0, <1>2, <1>3, <1>4 DEF FileTypes
<1>6. ArchiveName # Active
  BY <1>0 DEF ArchiveName, Active, CallTypes, Progress
<1>7. Active \notin DOMAIN dir' /\ Archives(dir)' = new /\ Archives(durableDir)' = Archives(durableDir)
  BY <1>0, <1>3, <1>6 DEF Archives
<1>8. \A n \in new : Archived(dir[n])'
  <2>. SUFFICES ASSUME NEW n \in new PROVE Archived(dir'[n])
    BY <1>0 DEF Archived, Size
  <2>1. CASE n = ArchiveName
    BY <1>1, <1>3, <2>1
  <2>2. CASE n # ArchiveName
    BY <1>3, <2>2 DEF Segments, Archives
  <2>. QED BY <2>1, <2>2
<1>9. \A n \in Archives(durableDir) : Archived(durableDir[n])'
  BY <1>0 DEF Segments, Archived, Size
<1>10. \A i \in 1..Len(files') : Sizes(Size(i)', Len(Disk(i)'))
  BY <1>0 DEF Segments, Size, Disk
<1>. HIDE DEF new
<1>11. Segments'
  BY <1>0, <1>7, <1>8, <1>9, <1>10 DEF Segments
<1>12. CallTypes'
  BY <1>0 DEF CallTypes, Places, Found, Settled, Opened, started, callVars
<1>13. Progress'
  BY <1>0 DEF Progress, Found, Settled, Opened, started, callVars
<1>14. Cadence'
  BY <1>0 DEF Cadence, Opened, started, callVars
<1>. QED BY <1>5, <1>11, <1>12, <1>13, <1>14

(* The directory is synced after the rename.                               *)
LEMMA StoreSyncsRename ==
  ASSUME StoreInv, RotateSyncDirectory
  PROVE  StoreInv'
<1>. USE DEF StoreInv, RotateSyncDirectory
<1>1. FileTypes' /\ Segments'
  BY DirectorySynced
<1>2. CallTypes'
  BY WholeZero DEF CallTypes, Places, Found, started, callVars
<1>3. Progress'
  BY DEF Progress, Found, Settled, Opened, started, callVars
<1>4. Cadence'
  BY DEF Cadence, Opened, started, callVars
<1>. QED BY <1>1, <1>2, <1>3, <1>4

(* When the process ends, its call is forgotten.                           *)
LEMMA StoreAbandons ==
  ASSUME CallTypes, Abandon, UNCHANGED <<started, memberVars, batchEnd>>
  PROVE  CallTypes' /\ Progress' /\ Cadence'
<1>1. batchEnd \in Nat
  BY WholeIs DEF CallTypes
<1>2. CallTypes'
  BY <1>1, WholeZero DEF CallTypes, Abandon, Places, started, memberVars
<1>3. Progress'
  BY DEF Progress, Abandon, Found, Settled, Opened
<1>4. Cadence'
  BY DEF Cadence, Abandon, Opened
<1>. QED BY <1>2, <1>3, <1>4

(* The end of a process leaves the files as they are.                      *)
LEMMA StoreDies ==
  ASSUME StoreInv, Die
  PROVE  StoreInv'
<1>1. FileTypes' /\ Segments'
  BY FilesSame DEF StoreInv, Die, fsVars
<1>2. CallTypes' /\ Progress' /\ Cadence'
  BY StoreAbandons DEF StoreInv, Die, fsVars
<1>. QED BY <1>1, <1>2 DEF StoreInv

(* What survives of a file keeps to the limit if both its current and its  *)
(* synced form do.                                                         *)
LEMMA SurvivorIs ==
  ASSUME NEW f \in Inode, NEW x \in Survivors(f), Sizes(Len(f.data), Len(f.durable))
  PROVE  x \in Seq(Nat) /\ Sizes(Len(x), Len(x))
<1>. DEFINE d == f.data
            e == f.durable
            longer == IF Len(d) >= Len(e) THEN d ELSE e
            shorter == Min2(Len(d), Len(e))
<1>1. d \in Seq(Nat) /\ e \in Seq(Nat) /\ Len(d) \in Nat /\ Len(e) \in Nat
  BY DEF Inode
<1>2. PICK n \in shorter..Len(longer) : x = SubSeq(longer, 1, n)
  BY DEF Survivors
<1>s. Sizes(Len(d), Len(e))
  OBVIOUS
<1>. HIDE DEF d, e
<1>3. /\ longer \in Seq(Nat) /\ longer \in {d, e} /\ shorter \in {Len(d), Len(e)}
      /\ Len(longer) \in {Len(d), Len(e)}
  BY <1>1 DEF Min2
<1>. HIDE DEF longer, shorter
<1>4. n \in Nat /\ n <= Len(longer)
  BY <1>1, <1>3
<1>5. x \in Seq(Nat) /\ Len(x) = n
  BY <1>2, <1>3, <1>4
<1>6. CASE Len(d) <= MaxSegment /\ Len(e) <= MaxSegment
  <2>1. n <= MaxSegment
    BY <1>1, <1>3, <1>4, <1>6, FileStoreAssumption
  <2>. QED BY <1>5, <2>1 DEF Sizes
<1>7. CASE ~(Len(d) <= MaxSegment /\ Len(e) <= MaxSegment)
  <2>1. PICK found \in InitialSizes :
          /\ found > MaxSegment
          /\ Len(d) \in (found - (found % FrameUnits))..found
          /\ Len(e) \in (found - (found % FrameUnits))..found
    BY <1>7, <1>s DEF Sizes
  <2>. DEFINE low == found - (found % FrameUnits)
  <2>2. found \in Nat /\ found % FrameUnits \in Nat
    BY Floor, FileStoreAssumption
  <2>3. low \in Int /\ Len(d) \in low..found /\ Len(e) \in low..found
    BY <2>1, <2>2
  <2>. HIDE DEF low
  <2>4. n \in low..found
    BY <1>1, <1>3, <1>4, <2>2, <2>3
  <2>. QED BY <1>5, <2>1, <2>4 DEF Sizes, low
<1>. QED BY <1>6, <1>7

(* A loss of power: archives are synced and survive whole, in whichever of *)
(* the two directories comes back.                                         *)
LEMMA StoreLosesPower ==
  ASSUME StoreInv, PowerLoss
  PROVE  StoreInv'
<1>. USE DEF StoreInv
<1>0. PICK d \in {dir, durableDir} : dir' = d /\ durableDir' = d
  BY DEF PowerLoss
<1>1. PICK left \in [Dirty -> UNION {Survivors(files[i]) : i \in Dirty}] :
        /\ \A i \in Dirty : left[i] \in Survivors(files[i])
        /\ files' = [i \in DOMAIN files |->
                       IF i \in Dirty THEN [data |-> left[i], durable |-> left[i]] ELSE files[i]]
  BY DEF PowerLoss
<1>2. CallTypes' /\ Progress' /\ Cadence'
  BY StoreAbandons DEF PowerLoss
<1>3. files \in Seq(Inode) /\ DOMAIN files = 1..Len(files) /\ Len(files) \in Nat
  BY DEF FileTypes
<1>4. \A i \in 1..Len(files) : files[i] \in Inode /\ Sizes(Len(files[i].data), Len(files[i].durable))
  BY <1>3 DEF Segments, Size, Disk
<1>5. \A i \in Dirty : /\ i \in 1..Len(files) /\ left[i] \in Seq(Nat)
                       /\ Sizes(Len(left[i]), Len(left[i]))
  <2>. SUFFICES ASSUME NEW i \in Dirty
                PROVE  i \in 1..Len(files) /\ left[i] \in Seq(Nat) /\ Sizes(Len(left[i]), Len(left[i]))
    OBVIOUS
  <2>1. i \in 1..Len(files)
    BY <1>3 DEF Dirty
  <2>2. files[i] \in Inode /\ Sizes(Len(files[i].data), Len(files[i].durable)) /\ left[i] \in Survivors(files[i])
    BY <1>1, <1>4, <2>1
  <2>. QED BY <2>1, <2>2, SurvivorIs
<1>6. /\ files' \in Seq(Inode) /\ Len(files') = Len(files)
      /\ \A i \in 1..Len(files) :
           files'[i] = IF i \in Dirty THEN [data |-> left[i], durable |-> left[i]] ELSE files[i]
  <2>1. \A i \in 1..Len(files) :
          (IF i \in Dirty THEN [data |-> left[i], durable |-> left[i]] ELSE files[i]) \in Inode
    BY <1>4, <1>5 DEF Inode
  <2>. DEFINE g(i) == IF i \in Dirty THEN [data |-> left[i], durable |-> left[i]] ELSE files[i]
  <2>2. files' = [i \in 1..Len(files) |-> g(i)] /\ \A i \in 1..Len(files) : g(i) \in Inode
    BY <1>1, <1>3, <2>1
  <2>. HIDE DEF g
  <2>3. files' \in Seq(Inode) /\ Len(files') = Len(files) /\ \A i \in 1..Len(files) : files'[i] = g(i)
    BY <1>3, <2>2
  <2>. QED BY <2>3 DEF g
<1>7. \A i \in 1..Len(files') : Sizes(Size(i)', Len(Disk(i)'))
  <2>. SUFFICES ASSUME NEW i \in 1..Len(files)
                PROVE  Sizes(Len(files'[i].data), Len(files'[i].durable))
    BY <1>6 DEF Size, Disk
  <2>1. CASE i \in Dirty
    <3>1. files'[i] = [data |-> left[i], durable |-> left[i]]
      BY <1>6, <2>1, Zenon
    <3>2. files'[i].data = left[i] /\ files'[i].durable = left[i]
      BY <3>1
    <3>3. Sizes(Len(left[i]), Len(left[i]))
      BY <1>5, <2>1, Zenon
    <3>. QED BY <3>2, <3>3, Zenon
  <2>2. CASE i \notin Dirty
    BY <1>4, <1>6, <2>2
  <2>. QED BY <2>1, <2>2
<1>8. \A i \in 1..Len(files) : Archived(i) => files'[i] = files[i]
  BY <1>3, <1>6 DEF Archived, Dirty
<1>9. /\ d \in [DOMAIN d -> 1..Len(files)] /\ DOMAIN d \subseteq Nat \X Nat
      /\ \A n \in Archives(d) : Archived(d[n])
      /\ Active \in DOMAIN d => \A n \in Archives(d) : d[n] # d[Active]
  <2>1. CASE d = dir
    BY <2>1 DEF FileTypes, Segments
  <2>2. CASE d = durableDir
    BY <2>2 DEF FileTypes, Segments
  <2>. QED BY <2>1, <2>2
<1>10. FileTypes'
  BY <1>0, <1>6, <1>9 DEF FileTypes
<1>11. \A n \in Archives(d) : d[n] \in 1..Len(files)
  BY <1>9 DEF Archives
<1>12. \A n \in Archives(d) : files'[d[n]] = files[d[n]]
  BY <1>8, <1>9, <1>11
<1>13. \A n \in Archives(d) : files'[d[n]].data = files'[d[n]].durable /\ Len(files'[d[n]].data) >= MaxSegment
  BY <1>9, <1>12 DEF Archived, Size
<1>14. Segments'
  BY <1>0, <1>7, <1>9, <1>13 DEF Segments, Archived, Archives, Size
<1>. QED BY <1>2, <1>10, <1>14

(* Stuttering.                                                             *)
LEMMA StoreSame ==
  ASSUME StoreInv, UNCHANGED vars
  PROVE  StoreInv'
<1>. USE DEF StoreInv, vars, fsVars, started, memberVars, callVars
<1>1. FileTypes' /\ Segments'
  BY FilesSame
<1>2. CallTypes'
  BY DEF CallTypes
<1>3. Progress'
  BY DEF Progress, Size
<1>4. Cadence'
  BY DEF Cadence, Size, Disk
<1>. QED BY <1>1, <1>2, <1>3, <1>4

(* A file found at the start.                                              *)
LEMMA FoundFile ==
  ASSUME NEW s \in InitialSizes
  PROVE  FileUnits(0, s) \in Seq(Nat) /\ Len(FileUnits(0, s)) = s /\ Sizes(s, s) /\ s \in Nat
<1>1. s \in Nat /\ MaxSegment \in Nat
  BY FileStoreAssumption
<1>2. FileUnits(0, s) \in Seq(Nat) /\ Len(FileUnits(0, s)) = s
  BY <1>1 DEF FileUnits
<1>3. s % FrameUnits \in Nat
  BY <1>1, Floor
<1>4. Sizes(s, s)
  BY <1>1, <1>3 DEF Sizes
<1>. QED BY <1>1, <1>2, <1>4

(* The invariant holds at first.                                           *)
LEMMA StoreInit == Init => StoreInv
<1>. SUFFICES ASSUME Init PROVE StoreInv
  OBVIOUS
<1>1. PICK s \in InitialSizes :
        /\ files = IF s = 0 THEN <<>>
                   ELSE <<[data |-> FileUnits(0, s), durable |-> FileUnits(0, s)]>>
        /\ dir = [n \in IF s = 0 THEN {} ELSE {Active} |-> 1]
        /\ offset = ((s + FrameUnits - 1) \div FrameUnits) * FrameUnits
  BY DEF Init
<1>2. FileUnits(0, s) \in Seq(Nat) /\ Len(FileUnits(0, s)) = s /\ Sizes(s, s) /\ s \in Nat
  BY FoundFile
<1>. DEFINE f == [data |-> FileUnits(0, s), durable |-> FileUnits(0, s)]
<1>3. f \in Inode /\ f.data = FileUnits(0, s) /\ f.durable = FileUnits(0, s)
  BY <1>2 DEF Inode
<1>4. durableDir = dir /\ Active \in Nat \X Nat
  BY DEF Init, Active
<1>5. FileTypes /\ Segments
  <2>1. CASE s = 0
    <3>1. files = <<>> /\ DOMAIN dir = {} /\ dir \in [DOMAIN dir -> 1..Len(files)]
      BY <1>1, <2>1
    <3>. QED BY <1>4, <3>1 DEF FileTypes, Segments, Archives
  <2>2. CASE s # 0
    <3>1. files = <<f>> /\ DOMAIN dir = {Active} /\ dir[Active] = 1
          /\ dir = [n \in {Active} |-> 1]
      BY <1>1, <2>2
    <3>. HIDE DEF f
    <3>2. files \in Seq(Inode) /\ Len(files) = 1 /\ files[1] = f
      BY <1>3, <3>1
    <3>3. dir \in [DOMAIN dir -> 1..Len(files)]
      BY <3>1, <3>2
    <3>4. FileTypes
      BY <1>4, <3>1, <3>2, <3>3 DEF FileTypes
    <3>5. \A i \in 1..Len(files) : Sizes(Size(i), Len(Disk(i)))
      BY <1>2, <1>3, <3>2 DEF Size, Disk
    <3>6. Archives(dir) = {} /\ Archives(durableDir) = {}
      BY <1>4, <3>1 DEF Archives
    <3>. QED BY <3>4, <3>5, <3>6 DEF Segments
  <2>. QED BY <2>1, <2>2
<1>6. Whole(offset)
  <2>1. s + FrameUnits - 1 \in Nat /\ FrameUnits \in Nat \ {0}
    BY <1>2, FileStoreAssumption
  <2>. DEFINE k == (s + FrameUnits - 1) \div FrameUnits
  <2>2. k \in Nat /\ offset = k * FrameUnits
    BY <1>1, <2>1, DivMod
  <2>. HIDE DEF k
  <2>3. k * FrameUnits \in Nat
    BY <2>1, <2>2, Product
  <2>. QED BY <2>2, <2>3 DEF Whole
<1>7. offset \in Nat /\ MaxStarts \in Nat
  BY <1>6, WholeIs, FileStoreAssumption
<1>8. CallTypes
  BY <1>6, <1>7, WholeZero DEF Init, CallTypes, Places
<1>9. Progress
  BY DEF Init, Progress, Found, Settled, Opened
<1>10. Cadence
  BY DEF Init, Cadence, Opened
<1>. QED BY <1>5, <1>8, <1>9, <1>10 DEF StoreInv

(* Every step keeps the invariant.                                         *)
LEMMA StoreNext ==
  ASSUME StoreInv, [Next]_vars
  PROVE  StoreInv'
<1>1. CASE Step
  BY <1>1, StoreCreates, StoreSyncsCreated, StoreRecovers, StoreSyncs, StoreLoops,
     StoreStartsChunk, StoreWrites, StoreEndsChunk, StoreRenames, StoreSyncsRename DEF Step
<1>2. CASE OpenFile
  BY <1>2, StoreOpens
<1>3. CASE Sync
  BY <1>3, StoreSyncs
<1>4. CASE \E n \in 1..MaxBatch : AppendFrames(n)
  BY <1>4, StoreTakesBatch
<1>5. CASE Die
  BY <1>5, StoreDies
<1>6. CASE PowerLoss
  BY <1>6, StoreLosesPower
<1>7. CASE UNCHANGED vars
  BY <1>7, StoreSame
<1>. QED BY <1>1, <1>2, <1>3, <1>4, <1>5, <1>6, <1>7 DEF Next

(* Whatever the process was doing when it or the machine stopped, the      *)
(* files, the directory on the disk and the store's counters agree         *)
(* (openFile(), appendFrames(), sync() and rotate()).                      *)
THEOREM StoreInvariant == Spec => []StoreInv
  BY StoreInit, StoreNext, PTL DEF Spec

(* Every variable of the file store keeps its type, names lead to files,   *)
(* and a write in progress stays within its chunk and its batch.           *)
THEOREM StoreTypesHold == Spec => []TypeOK
<1>1. ASSUME StoreInv PROVE TypeOK
  <2>. USE <1>1 DEF StoreInv
  <2>1. \A i \in DOMAIN files : files[i].data \in Seq(Nat) /\ files[i].durable \in Seq(Nat)
    <3>1. \A i \in DOMAIN files : files[i] \in Inode
      BY DEF FileTypes
    <3>. QED BY <3>1 DEF Inode
  <2>2. /\ \A n \in DOMAIN dir : n \in Nat \X Nat /\ dir[n] \in DOMAIN files
        /\ DOMAIN durableDir \subseteq Nat \X Nat
    BY DEF FileTypes
  <2>3. fpc \in {"down", "open", "created", "recover", "recoverSync", "idle", "loop", "write",
                 "sync", "rotate", "rename", "renamed", "synced"}
    BY DEF CallTypes, Places, Found, Settled, Opened
  <2>4. /\ clock \in 0..MaxStarts /\ unsyncedBytes \in Nat /\ rotationSequence \in Nat
        /\ currentSize \in Nat /\ offset \in Nat /\ batchEnd \in Nat /\ chunkBytes \in Nat
        /\ batchStart <= offset /\ offset + chunkBytes <= batchEnd
        /\ writtenBytes \in 0..chunkBytes
    BY WholeIs DEF CallTypes
  <2>5. offset + writtenBytes <= batchEnd /\ chunkBytes \in 0..(batchEnd - offset)
    BY <2>4
  <2>. QED BY <2>1, <2>2, <2>3, <2>4, <2>5 DEF TypeOK
<1>. QED BY <1>1, StoreInvariant, PTL

(* rotate() archives only full segments and appendFrames() grows no file   *)
(* beyond the limit, through every crash and restart, also with an active  *)
(* file that was larger or ended in a partial frame when it was found.     *)
THEOREM SegmentLimitHolds == Spec => []SegmentLimit
<1>1. ASSUME StoreInv PROVE SegmentLimit
  <2>. SUFFICES ASSUME NEW n \in DOMAIN dir
                PROVE  /\ n # Active => Size(dir[n]) >= MaxSegment
                       /\ \/ Size(dir[n]) <= MaxSegment
                          \/ \E found \in InitialSizes :
                               Size(dir[n]) \in (found - (found % FrameUnits))..found
    BY DEF SegmentLimit, Size
  <2>1. dir[n] \in 1..Len(files)
    BY <1>1 DEF StoreInv, FileTypes
  <2>2. Sizes(Size(dir[n]), Len(Disk(dir[n])))
    BY <1>1, <2>1 DEF StoreInv, Segments
  <2>3. n # Active => Size(dir[n]) >= MaxSegment
    BY <1>1 DEF StoreInv, Segments, Archives, Archived
  <2>. QED BY <2>2, <2>3 DEF Sizes
<1>. QED BY <1>1, StoreInvariant, PTL

(* Between calls less than one interval of what this process appended is   *)
(* not on the disk, and within a call less than the interval plus one      *)
(* frame, for every interval, whether or not it is a multiple of a frame.  *)
THEOREM SyncCadenceHolds == Spec => []SyncCadence
<1>1. ASSUME StoreInv PROVE SyncCadence
  <2>. SUFFICES ASSUME syncEvery # 0, fpc \in {"idle", "loop", "write", "sync"}
                PROVE  /\ Size(dir[Active]) - Len(Disk(dir[Active])) - inherited < syncEvery + FrameUnits
                       /\ fpc = "idle" =>
                            Size(dir[Active]) - Len(Disk(dir[Active])) - inherited < syncEvery
    BY DEF SyncCadence, Size, Disk, ActiveData
  <2>0. Active \in DOMAIN dir /\ FileTypes
    BY <1>1 DEF StoreInv, Progress, Found, Settled, Opened
  <2>1. /\ Size(dir[Active]) \in Nat /\ Len(Disk(dir[Active])) \in Nat
    BY <2>0, ActiveIs
  <2>2. /\ syncEvery \in Nat /\ inherited \in Nat /\ unsyncedBytes \in Nat
        /\ chunkBytes \in Nat /\ writtenBytes \in 0..chunkBytes /\ FrameUnits \in Nat \ {0}
    BY <1>1, WholeIs, FileStoreAssumption DEF StoreInv, CallTypes
  <2>3. Size(dir[Active]) - Len(Disk(dir[Active])) - inherited <= unsyncedBytes + writtenBytes
    BY <1>1 DEF StoreInv, Cadence, Opened
  <2>4. fpc \in {"idle", "loop"} => unsyncedBytes < syncEvery /\ chunkBytes = 0
    BY <1>1 DEF StoreInv, Cadence, Progress
  <2>5. fpc \in {"write", "sync"} => unsyncedBytes + chunkBytes < syncEvery + FrameUnits
    BY <1>1 DEF StoreInv, Cadence
  <2>. DEFINE x == Size(dir[Active]) - Len(Disk(dir[Active])) - inherited
  <2>6. x \in Int
    BY <2>1, <2>2
  <2>. HIDE DEF x
  <2>7. x <= unsyncedBytes + writtenBytes
    BY <2>3 DEF x
  <2>8. x < syncEvery + FrameUnits /\ (fpc = "idle" => x < syncEvery)
    BY <2>2, <2>4, <2>5, <2>6, <2>7
  <2>. QED BY <2>8 DEF x
<1>. QED BY <1>1, StoreInvariant, PTL

-----------------------------------------------------------------------------
(* The first unit not written yet.                                         *)
End == offset + writtenBytes

(* The files a directory leads to.                                         *)
Reach(d) == {d[n] : n \in DOMAIN d}

(* The units in a file, by its content s.                                  *)
Held(s) == {s[p] : p \in 1..Len(s)}

(* The units of file i, in the page cache or on the disk.                  *)
Units(i) == Held(files[i].data) \cup Held(files[i].durable)

(* Every unit of file i comes before every unit of file j.                 *)
Below(i, j) == \A u \in Units(i), v \in Units(j) : u < v

(* The units of a file rise.                                               *)
Rising(s) == \A p, q \in 1..Len(s) : p < q => s[p] < s[q]

(* Each frame of a file, the partial one at its end included, holds units  *)
(* of one frame from its start on.                                         *)
Framed(s) ==
  \A i \in Nat : \E n \in Nat :
    \A k \in 1..FrameUnits : i * FrameUnits + k <= Len(s) => s[i * FrameUnits + k] = n * FrameUnits + k - 1

(* The page cache holds all the whole frames on the disk.                  *)
Kept(data, durable) ==
  \A w \in Nat : Whole(w) /\ w <= Len(durable) =>
    w <= Len(data) /\ \A p \in 1..w : data[p] = durable[p]

(* Older names lead to older files.                                        *)
NameOrder(d) == \A m, n \in DOMAIN d : Older(m, n) => d[m] < d[n]

(* An archive's name is older than the one rotate() would give next.       *)
NamedBefore(n) == n[1] < clock \/ (n[1] = clock /\ n[2] < rotationSequence)

(* The directory and the one on the disk: what only the former leads to is *)
(* newer than all of the latter; they are the same once the active file's  *)
(* entry is on the disk.                                                   *)
Entries ==
  /\ \A n \in DOMAIN durableDir : durableDir[n] \in Reach(dir)
  /\ \A i \in Reach(dir) \ Reach(durableDir), j \in Reach(durableDir) : j < i
  /\ NameOrder(dir) /\ NameOrder(durableDir)
  /\ \A n \in Archives(dir) \cup Archives(durableDir) : NamedBefore(n)
  /\ Active \in DOMAIN dir /\ Active \in DOMAIN durableDir /\ dir[Active] = durableDir[Active] =>
       dir = durableDir
  /\ fpc \in Found \ {"created"} /\ ~entryAtRisk => dir = durableDir

(* A file: whole frames in order, none of them beyond what was written.    *)
Content(i) ==
  /\ Framed(files[i].data) /\ Framed(files[i].durable)
  /\ Rising(files[i].data) /\ Rising(files[i].durable)
  /\ Kept(files[i].data, files[i].durable)
  /\ \A u \in Units(i) : u < End

(* All the files: an older one holds earlier units.                        *)
Contents ==
  /\ \A i \in Reach(dir) : Content(i)
  /\ \A i, j \in Reach(dir) : i < j => Below(i, j)

(* What holds at each place: a file just created is empty, so that a       *)
(* recovery within appendFrames() cuts nothing off; sync() leaves nothing  *)
(* unsynced; and the chunk in progress stands behind the size known.       *)
InCall ==
  /\ fpc = "down" => batchStart = offset
  /\ fpc = "renamed" => Active \notin DOMAIN dir
  /\ fpc = "open" /\ batchStart < offset => Active \notin DOMAIN dir
  /\ fpc = "created" => ActiveData = <<>> /\ Disk(dir[Active]) = <<>>
  /\ fpc = "recover" /\ batchStart < offset => ActiveData = <<>>
  /\ fpc = "synced" => ActiveData = Disk(dir[Active])
  /\ fpc = "write" => \A w \in 1..writtenBytes : ActiveData[currentSize + w] = offset + w - 1

(* Every unit of the batch that counts as written is in a file.            *)
Present == \A u \in batchStart..(End - 1) : \E i \in Reach(dir) : u \in Held(files[i].data)

(* The second inductive invariant, for the log: the files hold the frames  *)
(* offered in order, by the age of the names and by the age of the files,  *)
(* in the current directory and in the one a loss of power would bring     *)
(* back.                                                                   *)
LogInv == Entries /\ Contents /\ InCall /\ Present

-----------------------------------------------------------------------------
(* A step that leaves both directories and the next name alone.            *)
LEMMA EntriesSame ==
  ASSUME Entries, UNCHANGED <<dir, durableDir, clock, rotationSequence, entryAtRisk>>,
         fpc' \in Found \ {"created"} => fpc \in Found \ {"created"}
  PROVE  Entries'
<1>1. \A n : NamedBefore(n)' <=> NamedBefore(n)
  BY DEF NamedBefore
<1>2. NameOrder(dir)' <=> NameOrder(dir)
  BY DEF NameOrder
<1>3. NameOrder(durableDir)' <=> NameOrder(durableDir)
  BY DEF NameOrder
<1>. QED BY <1>1, <1>2, <1>3 DEF Entries, Reach, Archives

(* A later process has a later clock.                                      *)
LEMMA EntriesOpen ==
  ASSUME StoreInv, Entries, OpenFile
  PROVE  Entries'
<1>0. /\ clock' = clock + 1 /\ clock \in Nat /\ fpc' \notin Found
      /\ UNCHANGED <<dir, durableDir>>
  BY FileStoreAssumption DEF OpenFile, StoreInv, CallTypes, Found, Settled, Opened
<1>1. \A n \in Archives(dir) \cup Archives(durableDir) : n[1] \in Nat /\ n[2] \in Nat
  BY DEF StoreInv, FileTypes, Archives
<1>2. \A n \in Archives(dir) \cup Archives(durableDir) : NamedBefore(n)'
  BY <1>0, <1>1 DEF NamedBefore, Entries
<1>3. NameOrder(dir)' /\ NameOrder(durableDir)'
  BY <1>0 DEF NameOrder, Entries
<1>. QED BY <1>0, <1>2, <1>3 DEF Entries, Reach, Archives

(* What a directory leads to.                                              *)
LEMMA ReachIs ==
  ASSUME FileTypes
  PROVE  /\ \A i \in Reach(dir) : i \in 1..Len(files)
         /\ \A i \in Reach(durableDir) : i \in 1..Len(files)
         /\ Active \in DOMAIN dir => dir[Active] \in Reach(dir)
         /\ \A n \in DOMAIN dir : dir[n] \in Reach(dir)
         /\ \A n \in DOMAIN durableDir : durableDir[n] \in Reach(durableDir)
         /\ Len(files) \in Nat
  BY DEF FileTypes, Reach

(* A directory with a new file of the active name.                         *)
Created ==
  /\ Active \notin DOMAIN dir
  /\ DOMAIN dir' = DOMAIN dir \cup {Active}
  /\ dir'[Active] = Len(files) + 1
  /\ \A n \in DOMAIN dir : dir'[n] = dir[n]
  /\ durableDir' = durableDir
  /\ files' \in Seq(Inode) /\ Len(files') = Len(files) + 1
  /\ \A i \in 1..Len(files) : files'[i] = files[i]
  /\ files'[Len(files) + 1].data = <<>> /\ files'[Len(files) + 1].durable = <<>>

(* What openActiveFile() does when there is no active file.                *)
LEMMA CreatedIs ==
  ASSUME FileTypes, OpenActiveFile, Active \notin DOMAIN dir
  PROVE  Created
<1>. DEFINE e == [data |-> <<>>, durable |-> <<>>]
<1>1. e \in Inode
  BY DEF Inode
<1>2. files \in Seq(Inode) /\ Len(files) \in Nat
  BY DEF FileTypes
<1>3. files' = files \o <<e>>
  BY DEF OpenActiveFile
<1>4. e.data = <<>> /\ e.durable = <<>>
  OBVIOUS
<1>. HIDE DEF e
<1>5. /\ files' \in Seq(Inode) /\ Len(files') = Len(files) + 1
      /\ \A i \in 1..Len(files) : files'[i] = files[i]
      /\ files'[Len(files) + 1] = e
  BY <1>1, <1>2, <1>3
<1>6. /\ DOMAIN dir' = DOMAIN dir \cup {Active}
      /\ dir'[Active] = Len(files) + 1
      /\ \A n \in DOMAIN dir : dir'[n] = dir[n]
      /\ durableDir' = durableDir
  BY DEF OpenActiveFile
<1>. QED BY <1>4, <1>5, <1>6 DEF Created

(* The new file is all that is added to what the directory leads to.       *)
LEMMA CreatedReach ==
  ASSUME FileTypes, Created
  PROVE  Reach(dir)' = Reach(dir) \cup {Len(files) + 1} /\ Reach(durableDir)' = Reach(durableDir)
  BY DEF Created, Reach

(* A new file is the newest; an existing one is at risk unless its entry   *)
(* is on the disk.                                                         *)
LEMMA EntriesCreate ==
  ASSUME StoreInv, Entries, OpenActiveFile
  PROVE  Entries'
<1>0. /\ UNCHANGED <<durableDir, clock, rotationSequence>> /\ fpc' \in {"recover", "created"}
      /\ FileTypes
  BY DEF OpenActiveFile, StoreInv, started
<1>1. CASE Active \in DOMAIN dir
  <2>1. dir' = dir /\ (~entryAtRisk' => Active \in DOMAIN durableDir /\ durableDir[Active] = dir[Active])
    BY <1>1 DEF OpenActiveFile
  <2>2. ~entryAtRisk' => dir = durableDir
    BY <1>1, <2>1 DEF Entries
  <2>3. \A n : NamedBefore(n)' <=> NamedBefore(n)
    BY <1>0 DEF NamedBefore
  <2>4. NameOrder(dir)' <=> NameOrder(dir)
    BY <2>1 DEF NameOrder
  <2>5. NameOrder(durableDir)' <=> NameOrder(durableDir)
    BY <1>0 DEF NameOrder
  <2>. QED BY <1>0, <2>1, <2>2, <2>3, <2>4, <2>5 DEF Entries, Reach, Archives
<1>2. CASE Active \notin DOMAIN dir
  <2>1. Created
    BY <1>0, <1>2, CreatedIs
  <2>2. /\ Reach(dir)' = Reach(dir) \cup {Len(files) + 1} /\ Reach(durableDir)' = Reach(durableDir)
    BY <1>0, <2>1, CreatedReach
  <2>3. /\ \A i \in Reach(dir) : i \in 1..Len(files)
        /\ \A i \in Reach(durableDir) : i \in 1..Len(files)
        /\ \A n \in DOMAIN dir : dir[n] \in 1..Len(files)
        /\ \A n \in DOMAIN durableDir : durableDir[n] \in 1..Len(files)
        /\ Len(files) \in Nat
    BY <1>0, ReachIs
  <2>4. \A n \in DOMAIN durableDir' : durableDir'[n] \in Reach(dir)'
    BY <1>0, <2>2 DEF Entries
  <2>5. \A i \in Reach(dir)' \ Reach(durableDir)', j \in Reach(durableDir)' : j < i
    BY <2>2, <2>3 DEF Entries
  <2>6. NameOrder(dir)'
    <3>. SUFFICES ASSUME NEW m \in DOMAIN dir', NEW n \in DOMAIN dir', Older(m, n)
                  PROVE  dir'[m] < dir'[n]
      BY DEF NameOrder
    <3>1. m # Active
      BY DEF Older
    <3>2. m \in DOMAIN dir /\ dir'[m] = dir[m]
      BY <2>1, <3>1 DEF Created
    <3>3. CASE n = Active
      BY <2>1, <2>3, <3>2, <3>3 DEF Created
    <3>4. CASE n # Active
      BY <2>1, <3>2, <3>4 DEF Created, Entries, NameOrder
    <3>. QED BY <3>3, <3>4
  <2>7. NameOrder(durableDir)'
    BY <1>0 DEF NameOrder, Entries
  <2>8. Archives(dir)' = Archives(dir) /\ Archives(durableDir)' = Archives(durableDir)
    BY <2>1 DEF Archives, Created
  <2>9. \A n \in Archives(dir)' \cup Archives(durableDir)' : NamedBefore(n)'
    BY <1>0, <2>8 DEF NamedBefore, Entries
  <2>10. ~(Active \in DOMAIN durableDir' /\ dir'[Active] = durableDir'[Active])
    BY <1>0, <2>1, <2>3 DEF Created
  <2>11. fpc' = "created"
    BY <1>2 DEF OpenActiveFile
  <2>. QED BY <2>4, <2>5, <2>6, <2>7, <2>9, <2>10, <2>11 DEF Entries
<1>. QED BY <1>1, <1>2

(* fsync() of the directory.                                               *)
LEMMA EntriesSync ==
  ASSUME Entries, SyncDirectory, UNCHANGED <<dir, clock, rotationSequence>>
  PROVE  Entries'
<1>0. durableDir' = dir /\ dir' = dir
  BY DEF SyncDirectory
<1>1. \A n : NamedBefore(n)' <=> NamedBefore(n)
  BY DEF NamedBefore
<1>2. NameOrder(dir)' /\ NameOrder(durableDir)'
  BY <1>0 DEF NameOrder, Entries
<1>. QED BY <1>0, <1>1, <1>2 DEF Entries, Reach, Archives

(* A directory in which the active file has become the newest archive.     *)
Renamed ==
  /\ Active \in DOMAIN dir /\ ArchiveName # Active /\ ArchiveName \notin DOMAIN dir
  /\ ArchiveName \in Nat \X Nat
  /\ DOMAIN dir' = (DOMAIN dir \ {Active}) \cup {ArchiveName}
  /\ dir'[ArchiveName] = dir[Active]
  /\ \A n \in DOMAIN dir \ {Active} : dir'[n] = dir[n]
  /\ UNCHANGED <<files, durableDir, started, callVars>>
  /\ fpc' = "renamed" /\ rotationSequence' = rotationSequence + 1

(* makeArchiveName(): the name is not taken, so the rename replaces        *)
(* nothing.                                                                *)
LEMMA RenamedIs ==
  ASSUME StoreInv, Entries, RotateRename
  PROVE  Renamed
<1>0. fpc = "rename" /\ clock > 0 /\ clock \in Nat /\ rotationSequence \in Nat
  BY FileStoreAssumption DEF RotateRename, StoreInv, Progress, CallTypes
<1>1. ArchiveName # Active /\ ArchiveName \in Nat \X Nat
  BY <1>0 DEF ArchiveName, Active
<1>2. ArchiveName \notin Archives(dir)
  <2>1. ~NamedBefore(ArchiveName)
    BY <1>0 DEF NamedBefore, ArchiveName
  <2>. QED BY <2>1 DEF Entries
<1>3. Active \in DOMAIN dir
  BY <1>0 DEF StoreInv, Progress, Found, Settled, Opened
<1>. QED BY <1>1, <1>2, <1>3 DEF RotateRename, Renamed, Archives

(* The rename leads to the same files.                                     *)
LEMMA RenamedReach ==
  ASSUME Renamed
  PROVE  Reach(dir)' = Reach(dir) /\ Reach(durableDir)' = Reach(durableDir)
<1>1. ASSUME NEW i \in Reach(dir) PROVE i \in Reach(dir)'
  <2>1. PICK n \in DOMAIN dir : i = dir[n]
    BY <1>1 DEF Reach
  <2>2. CASE n = Active
    BY <2>1, <2>2 DEF Renamed, Reach
  <2>3. CASE n # Active
    BY <2>1, <2>3 DEF Renamed, Reach
  <2>. QED BY <2>2, <2>3
<1>2. ASSUME NEW i \in Reach(dir)' PROVE i \in Reach(dir)
  <2>1. PICK n \in DOMAIN dir' : i = dir'[n]
    BY <1>2 DEF Reach
  <2>2. CASE n = ArchiveName
    BY <2>1, <2>2 DEF Renamed, Reach
  <2>3. CASE n # ArchiveName
    BY <2>1, <2>3 DEF Renamed, Reach
  <2>. QED BY <2>2, <2>3
<1>. QED BY <1>1, <1>2 DEF Renamed, Reach

(* The new archive is the newest, by its name and by its file.             *)
LEMMA EntriesRename ==
  ASSUME StoreInv, Entries, RotateRename
  PROVE  Entries'
<1>0. Renamed
  BY RenamedIs
<1>1. Reach(dir)' = Reach(dir) /\ Reach(durableDir)' = Reach(durableDir)
  BY <1>0, RenamedReach
<1>2. /\ clock \in Nat /\ rotationSequence \in Nat /\ clock' = clock
      /\ rotationSequence' = rotationSequence + 1
  BY <1>0, FileStoreAssumption DEF StoreInv, CallTypes, Renamed, started
<1>3. /\ DOMAIN dir \subseteq Nat \X Nat /\ DOMAIN durableDir \subseteq Nat \X Nat
  BY DEF StoreInv, FileTypes
<1>4. \A n \in Archives(dir) \cup Archives(durableDir) : NamedBefore(n)'
  BY <1>2, <1>3 DEF NamedBefore, Entries, Archives
<1>5. \A n : n = ArchiveName => NamedBefore(n)'
  <2>. SUFFICES ASSUME NEW n, n = <<clock, rotationSequence>> PROVE NamedBefore(n)'
    BY DEF ArchiveName
  <2>1. n[1] = clock /\ n[2] = rotationSequence
    OBVIOUS
  <2>. QED BY <1>2, <2>1 DEF NamedBefore
<1>6. \A n \in Archives(dir)' \cup Archives(durableDir)' : NamedBefore(n)'
  BY <1>0, <1>4, <1>5 DEF Renamed, Archives
<1>7. NameOrder(dir)'
  <2>. SUFFICES ASSUME NEW m \in DOMAIN dir', NEW n \in DOMAIN dir', Older(m, n)
                PROVE  dir'[m] < dir'[n]
    BY DEF NameOrder
  <2>1. m # Active /\ n # Active
    BY <1>0 DEF Renamed
  <2>2. CASE m = ArchiveName
    <3>1. n # m
      <4>1. m[1] \in Nat /\ m[2] \in Nat
        BY <1>2, <2>2 DEF ArchiveName
      <4>. QED BY <2>1, <4>1 DEF Older
    <3>2. n \in Archives(dir)
      BY <1>0, <2>2, <3>1 DEF Renamed, Archives
    <3>3. NamedBefore(n) /\ n[1] \in Nat /\ n[2] \in Nat
      BY <1>3, <3>2 DEF Entries, Archives
    <3>4. m[1] = clock /\ m[2] = rotationSequence
      BY <2>2 DEF ArchiveName
    <3>. QED BY <1>2, <2>1, <3>3, <3>4 DEF Older, NamedBefore
  <2>3. CASE m # ArchiveName
    <3>1. m \in DOMAIN dir /\ dir'[m] = dir[m]
      BY <1>0, <2>1, <2>3 DEF Renamed
    <3>2. CASE n = ArchiveName
      <4>1. Older(m, Active)
        BY <2>1 DEF Older
      <4>. QED BY <1>0, <3>1, <3>2, <4>1 DEF Renamed, Entries, NameOrder
    <3>3. CASE n # ArchiveName
      BY <1>0, <2>1, <3>1, <3>3 DEF Renamed, Entries, NameOrder
    <3>. QED BY <3>2, <3>3
  <2>. QED BY <2>2, <2>3
<1>8. NameOrder(durableDir)'
  BY <1>0 DEF Renamed, NameOrder, Entries
<1>9. \A n \in DOMAIN durableDir' : durableDir'[n] \in Reach(dir)'
  BY <1>0, <1>1 DEF Renamed, Entries
<1>10. Active \notin DOMAIN dir' /\ fpc' \notin Found
  BY <1>0 DEF Renamed, Found, Settled, Opened
<1>. QED BY <1>1, <1>6, <1>7, <1>8, <1>9, <1>10 DEF Entries

(* After a loss of power both directories are the same.                    *)
LEMMA EntriesPower ==
  ASSUME Entries, PowerLoss
  PROVE  Entries'
<1>0. PICK d \in {dir, durableDir} : dir' = d /\ durableDir' = d
  BY DEF PowerLoss
<1>1. clock' = clock /\ rotationSequence' = rotationSequence /\ fpc' = "down"
  BY DEF PowerLoss, Abandon, started, memberVars
<1>2. \A n : NamedBefore(n)' <=> NamedBefore(n)
  BY <1>1 DEF NamedBefore
<1>3. NameOrder(d) /\ \A n \in Archives(d) : NamedBefore(n)
  BY DEF Entries
<1>4. NameOrder(dir)' /\ NameOrder(durableDir)'
  BY <1>0, <1>3 DEF NameOrder
<1>5. fpc' \notin Found
  BY <1>1 DEF Found, Settled, Opened
<1>. QED BY <1>0, <1>2, <1>3, <1>4, <1>5 DEF Entries, Reach, Archives

(* Every step keeps the directories in order.                              *)
LEMMA EntriesNext ==
  ASSUME StoreInv, Entries, [Next]_vars
  PROVE  Entries'
<1>. USE DEF Found, Settled, Opened
<1>. USE DEF fsVars, started, memberVars
<1>1. CASE OpenActiveFile
  BY <1>1, EntriesCreate
<1>2. CASE OpenFile
  BY <1>2, EntriesOpen
<1>3. CASE SyncCreated
  <2>1. SyncDirectory /\ UNCHANGED <<dir, clock, rotationSequence>>
    BY <1>3 DEF SyncCreated
  <2>. QED BY <2>1, EntriesSync
<1>4. CASE RotateSyncDirectory
  <2>1. SyncDirectory /\ UNCHANGED <<dir, clock, rotationSequence>>
    BY <1>4 DEF RotateSyncDirectory
  <2>. QED BY <2>1, EntriesSync
<1>5. CASE RotateRename
  BY <1>5, EntriesRename
<1>6. CASE PowerLoss
  BY <1>6, EntriesPower
<1>7. CASE \/ RecoverPartialFrame \/ RecoverSync \/ AppendDone \/ StartRotation \/ NextChunk \/ Write
           \/ ChunkWritten \/ SyncChunk \/ RotateSync \/ Sync \/ Die
           \/ \E n \in 1..MaxBatch : AppendFrames(n)
  <2>1. UNCHANGED <<dir, durableDir, clock, rotationSequence, entryAtRisk>>
    BY <1>7 DEF RecoverPartialFrame, RecoverSync, AppendDone, StartRotation, NextChunk, Write,
                ChunkWritten, SyncChunk, RotateSync, Sync, Die, AppendFrames
  <2>2. fpc' \in Found \ {"created"} => fpc \in Found \ {"created"}
    BY <1>7 DEF RecoverPartialFrame, RecoverSync, AppendDone, StartRotation, NextChunk, Write,
                ChunkWritten, SyncChunk, RotateSync, Sync, Die, Abandon, AppendFrames
  <2>. QED BY <2>1, <2>2, EntriesSame
<1>8. CASE UNCHANGED vars
  BY <1>8, EntriesSame DEF vars
<1>. QED BY <1>1, <1>2, <1>3, <1>4, <1>5, <1>6, <1>7, <1>8 DEF Next, Step

-----------------------------------------------------------------------------
(* A prefix of a file is as well formed as the file.                       *)
LEMMA PrefixIs ==
  ASSUME NEW s \in Seq(Nat), NEW n \in 0..Len(s), NEW t, t = SubSeq(s, 1, n),
         Framed(s), Rising(s)
  PROVE  Framed(t) /\ Rising(t) /\ Held(t) \subseteq Held(s)
<1>1. t \in Seq(Nat) /\ Len(t) = n /\ \A p \in 1..n : t[p] = s[p]
  OBVIOUS
<1>2. Framed(t)
  <2>. SUFFICES ASSUME NEW i \in Nat
                PROVE  \E m \in Nat : \A k \in 1..FrameUnits :
                         i * FrameUnits + k <= Len(t) => t[i * FrameUnits + k] = m * FrameUnits + k - 1
    BY DEF Framed
  <2>0. FrameUnits \in Nat /\ i * FrameUnits \in Nat
    BY FileStoreAssumption, Product
  <2>1. PICK m \in Nat : \A k \in 1..FrameUnits :
          i * FrameUnits + k <= Len(s) => s[i * FrameUnits + k] = m * FrameUnits + k - 1
    BY DEF Framed
  <2>. DEFINE x == i * FrameUnits
              y == m * FrameUnits
  <2>2. x \in Nat /\ \A k \in 1..FrameUnits : x + k <= Len(s) => s[x + k] = y + k - 1
    BY <2>0, <2>1
  <2>. HIDE DEF x, y
  <2>3. \A k \in 1..FrameUnits : x + k <= Len(t) => t[x + k] = y + k - 1
    BY <1>1, <2>0, <2>2
  <2>. QED BY <2>3 DEF x, y
<1>3. Rising(t)
  BY <1>1 DEF Rising
<1>4. Held(t) \subseteq Held(s)
  BY <1>1 DEF Held
<1>. QED BY <1>2, <1>3, <1>4

(* An empty file.                                                          *)
LEMMA EmptyIs ==
  Framed(<<>>) /\ Rising(<<>>) /\ Held(<<>>) = {} /\ Kept(<<>>, <<>>)
<1>1. Len(<<>>) = 0
  OBVIOUS
<1>2. Rising(<<>>) /\ Held(<<>>) = {} /\ Kept(<<>>, <<>>)
  BY <1>1 DEF Rising, Held, Kept
<1>3. Framed(<<>>)
  <2>. SUFFICES ASSUME NEW i \in Nat, NEW k \in 1..FrameUnits PROVE ~(i * FrameUnits + k <= 0)
    BY <1>1 DEF Framed
  <2>1. i * FrameUnits \in Nat /\ FrameUnits \in Nat
    BY FileStoreAssumption, Product
  <2>. QED BY <2>1
<1>. QED BY <1>2, <1>3

(* Whole frames of a file followed by units from the start of a frame on.  *)
LEMMA FramedGrows ==
  ASSUME NEW s \in Seq(Nat), NEW t \in Seq(Nat), Framed(s),
         NEW c, NEW o, Whole(c), Whole(o), c <= Len(s), c <= Len(t),
         \A p \in 1..c : t[p] = s[p],
         \A w \in 1..(Len(t) - c) : t[c + w] = o + w - 1
  PROVE  Framed(t)
<1>0. FrameUnits \in Nat \ {0} /\ c \in Nat /\ o \in Nat /\ Len(s) \in Nat /\ Len(t) \in Nat
  BY FileStoreAssumption, WholeIs
<1>1. PICK a \in Nat : c = a * FrameUnits
  BY WholeIs
<1>2. PICK b \in Nat : o = b * FrameUnits
  BY WholeIs
<1>. SUFFICES ASSUME NEW i \in Nat
              PROVE  \E m \in Nat : \A k \in 1..FrameUnits :
                       i * FrameUnits + k <= Len(t) => t[i * FrameUnits + k] = m * FrameUnits + k - 1
  BY DEF Framed
<1>3. i * FrameUnits \in Nat
  BY <1>0, Product
<1>4. CASE i < a
  <2>1. PICK m \in Nat : \A k \in 1..FrameUnits :
          i * FrameUnits + k <= Len(s) => s[i * FrameUnits + k] = m * FrameUnits + k - 1
    BY DEF Framed
  <2>2. i * FrameUnits + FrameUnits <= c
    <3>1. a - i - 1 \in Nat /\ (a - i - 1) * FrameUnits \in Nat
      BY <1>0, <1>4, Product
    <3>2. (a - i - 1) * FrameUnits = a * FrameUnits - i * FrameUnits - FrameUnits
      BY <1>0
    <3>. QED BY <1>0, <1>1, <1>3, <3>1, <3>2
  <2>. DEFINE x == i * FrameUnits
              y == m * FrameUnits
  <2>3. /\ x \in Nat /\ x + FrameUnits <= c
        /\ \A k \in 1..FrameUnits : x + k <= Len(s) => s[x + k] = y + k - 1
    BY <1>3, <2>1, <2>2
  <2>. HIDE DEF x, y
  <2>4. \A k \in 1..FrameUnits : t[x + k] = y + k - 1
    <3>. SUFFICES ASSUME NEW k \in 1..FrameUnits PROVE t[x + k] = y + k - 1
      OBVIOUS
    <3>1. x + k \in 1..c /\ x + k <= Len(s)
      BY <1>0, <2>3
    <3>. QED BY <2>3, <3>1
  <2>. QED BY <2>4 DEF x, y
<1>5. CASE i >= a
  <2>. DEFINE m == b + (i - a)
              x == i * FrameUnits
              y == m * FrameUnits
              z == (i - a) * FrameUnits
  <2>1. i - a \in Nat /\ m \in Nat
    BY <1>5
  <2>2. z \in Nat /\ z = i * FrameUnits - a * FrameUnits
    BY <1>0, <1>5, <2>1, Product
  <2>3. y = b * FrameUnits + z
    BY <1>0, <2>1, Product
  <2>4. x = c + z /\ y = o + z /\ x \in Nat /\ z \in Nat
    BY <1>0, <1>1, <1>2, <1>3, <2>2, <2>3
  <2>. HIDE DEF x, y, z
  <2>5. \A k \in 1..FrameUnits : x + k <= Len(t) => t[x + k] = y + k - 1
    <3>. SUFFICES ASSUME NEW k \in 1..FrameUnits, x + k <= Len(t) PROVE t[x + k] = y + k - 1
      OBVIOUS
    <3>1. z + k \in 1..(Len(t) - c) /\ x + k = c + (z + k) /\ o + (z + k) - 1 = y + k - 1
      BY <1>0, <2>4
    <3>2. t[c + (z + k)] = o + (z + k) - 1
      BY <3>1
    <3>. QED BY <3>1, <3>2
  <2>. QED BY <2>1, <2>5 DEF x, y
<1>. QED BY <1>0, <1>1, <1>4, <1>5

(* What the store has written is a number of units.                        *)
LEMMA EndIs ==
  ASSUME CallTypes
  PROVE  End \in Nat /\ offset \in Nat /\ batchStart \in Nat /\ batchEnd \in Nat /\ End <= batchEnd
         /\ batchStart <= End /\ offset <= End /\ writtenBytes \in Nat
<1>1. /\ chunkBytes \in Nat /\ writtenBytes \in 0..chunkBytes /\ offset \in Nat /\ batchStart \in Nat
      /\ batchEnd \in Nat /\ batchStart <= offset /\ offset + chunkBytes <= batchEnd
  BY WholeIs DEF CallTypes
<1>. QED BY <1>1 DEF End

(* The end of what is written lies behind the start of the batch.          *)
LEMMA Sums ==
  ASSUME NEW b \in Nat, NEW o \in Nat, NEW c \in Nat, NEW w \in 0..c, b <= o
  PROVE  o + w \in Nat /\ b <= o + w
  OBVIOUS

(* A range that ends before its start.                                     *)
LEMMA EmptyRange ==
  ASSUME NEW e \in Nat
  PROVE  e..(e - 1) = {}
  OBVIOUS

(* EndIs after a step.                                                     *)
LEMMA EndNext ==
  ASSUME CallTypes'
  PROVE  End' \in Nat /\ offset' \in Nat /\ batchStart' \in Nat /\ batchStart' <= End'
<1>1. /\ chunkBytes' \in Nat /\ writtenBytes' \in 0..chunkBytes' /\ offset' \in Nat
      /\ batchStart' \in Nat /\ batchStart' <= offset'
  BY WholeIs DEF CallTypes
<1>2. End' = offset' + writtenBytes'
  BY DEF End
<1>3. offset' + writtenBytes' \in Nat /\ batchStart' <= offset' + writtenBytes'
  BY <1>1, Sums
<1>. QED BY <1>1, <1>2, <1>3

(* The units in the files are numbers.                                     *)
LEMMA UnitsAre ==
  ASSUME FileTypes, NEW i \in 1..Len(files)
  PROVE  /\ files[i].data \in Seq(Nat) /\ files[i].durable \in Seq(Nat)
         /\ Units(i) \subseteq Nat
<1>1. files[i] \in Inode
  BY DEF FileTypes
<1>2. files[i].data \in Seq(Nat) /\ files[i].durable \in Seq(Nat)
  BY <1>1 DEF Inode
<1>. QED BY <1>2 DEF Units, Held

(* The active file is the newest of the directory.                         *)
LEMMA ActiveNewest ==
  ASSUME FileTypes, Entries, Active \in DOMAIN dir, NEW i \in Reach(dir), i # dir[Active]
  PROVE  i < dir[Active] /\ \E n \in Archives(dir) : i = dir[n]
<1>1. PICK n \in DOMAIN dir : i = dir[n]
  BY DEF Reach
<1>2. n # Active /\ Older(n, Active)
  BY <1>1 DEF Older
<1>. QED BY <1>1, <1>2 DEF Entries, NameOrder, Archives

(* A step that leaves the files alone and takes no unit back.              *)
LEMMA ContentsSame ==
  ASSUME StoreInv, Contents, UNCHANGED files, Reach(dir)' = Reach(dir), End' \in Nat, End <= End'
  PROVE  Contents'
<1>0. FileTypes /\ End \in Nat
  BY EndIs DEF StoreInv
<1>1. \A i : Units(i)' = Units(i)
  BY DEF Units
<1>2. \A i \in Reach(dir) : \A u \in Units(i) : u < End'
  <2>. SUFFICES ASSUME NEW i \in Reach(dir), NEW u \in Units(i) PROVE u < End'
    OBVIOUS
  <2>1. u \in Nat
    BY <1>0, ReachIs, UnitsAre
  <2>2. u < End
    BY DEF Contents, Content
  <2>. QED BY <1>0, <2>1, <2>2
<1>3. \A i \in Reach(dir) : Content(i)'
  BY <1>1, <1>2 DEF Contents, Content
<1>4. \A i, j \in Reach(dir) : i < j => Below(i, j)'
  BY <1>1 DEF Contents, Below
<1>. QED BY <1>3, <1>4 DEF Contents

(* A rewrite of the active file that adds only units beyond all others.    *)
LEMMA ContentsRewritten ==
  ASSUME StoreInv, Entries, Contents, Active \in DOMAIN dir, NEW r \in Inode, Rewritten(r),
         UNCHANGED dir, End' \in Nat, End <= End',
         Framed(r.data), Framed(r.durable), Rising(r.data), Rising(r.durable), Kept(r.data, r.durable),
         \A u \in Held(r.data) \cup Held(r.durable) :
           u \in Units(dir[Active]) \/ (u \in Nat /\ End <= u /\ u < End')
  PROVE  Contents'
<1>. DEFINE a == dir[Active]
<1>0. /\ FileTypes /\ End \in Nat /\ a \in Reach(dir) /\ a \in 1..Len(files)
      /\ \A i \in Reach(dir) : i \in 1..Len(files)
  BY EndIs, ReachIs DEF StoreInv
<1>1. Reach(dir)' = Reach(dir)
  BY DEF Reach
<1>2. /\ files'[a] = r
      /\ \A i \in Reach(dir) : i # a => files'[i] = files[i]
  BY <1>0 DEF Rewritten
<1>3. /\ Units(a)' = Held(r.data) \cup Held(r.durable)
      /\ \A i \in Reach(dir) : i # a => Units(i)' = Units(i)
  <2>1. dir'[Active] = dir[Active]
    OBVIOUS
  <2>. QED BY <1>2, <2>1 DEF Units
<1>4. \A i \in Reach(dir) : \A u \in Units(i) : u \in Nat /\ u < End
  BY <1>0, UnitsAre DEF Contents, Content
<1>5. \A i \in Reach(dir) : \A u \in Units(i)' : u \in Nat /\ u < End'
  <2>. SUFFICES ASSUME NEW i \in Reach(dir), NEW u \in Units(i)' PROVE u \in Nat /\ u < End'
    OBVIOUS
  <2>1. u \in Units(i) \/ (u \in Nat /\ u < End')
    BY <1>0, <1>3
  <2>. QED BY <1>0, <1>4, <2>1
<1>6. \A i \in Reach(dir) : Content(i)'
  <2>. SUFFICES ASSUME NEW i \in Reach(dir) PROVE Content(i)'
    OBVIOUS
  <2>1. CASE i = a
    BY <1>2, <1>5, <2>1 DEF Content
  <2>2. CASE i # a
    BY <1>2, <1>5, <2>2 DEF Contents, Content
  <2>. QED BY <2>1, <2>2
<1>7. \A i, j \in Reach(dir) : i < j => Below(i, j)'
  <2>. SUFFICES ASSUME NEW i \in Reach(dir), NEW j \in Reach(dir), i < j,
                       NEW u \in Units(i)', NEW v \in Units(j)'
                PROVE  u < v
    BY DEF Below
  <2>1. i # a
    <3>. SUFFICES ASSUME i = a PROVE FALSE
      OBVIOUS
    <3>1. j # a /\ j \in Nat /\ a \in Nat
      BY <1>0
    <3>2. j < a
      BY <1>0, <3>1, ActiveNewest
    <3>. QED BY <3>1, <3>2
  <2>2. u \in Units(i) /\ u \in Nat /\ u < End
    BY <1>3, <1>4, <2>1
  <2>3. CASE v \in Units(j)
    BY <2>2, <2>3 DEF Contents, Below
  <2>4. CASE v \notin Units(j)
    <3>1. v \in Nat /\ End <= v
      BY <1>3, <2>4
    <3>. QED BY <1>0, <2>2, <3>1
  <2>. QED BY <2>3, <2>4
<1>. QED BY <1>1, <1>6, <1>7 DEF Contents

(* Steps that leave the files and their names alone.                       *)
LEMMA QuietStep ==
  ASSUME StoreInv, StoreInv', Contents, Present, UNCHANGED files, Reach(dir)' = Reach(dir), End <= End',
         \/ batchStart' = End'
         \/ batchStart' = batchStart /\ End' = End
  PROVE  Contents' /\ Present'
<1>1. End' \in Nat
  BY EndNext DEF StoreInv
<1>2. Contents'
  BY <1>1, ContentsSame
<1>3. Present'
  <2>1. CASE batchStart' = End'
    <3>1. batchStart'..(End' - 1) = {}
      BY <1>1, <2>1, EmptyRange
    <3>. QED BY <3>1 DEF Present
  <2>2. CASE batchStart' = batchStart /\ End' = End
    BY <2>2 DEF Present
  <2>. QED BY <2>1, <2>2
<1>. QED BY <1>2, <1>3

(* openFile(): no batch is in progress.                                    *)
LEMMA LogOpens ==
  ASSUME StoreInv, StoreInv', Contents, InCall, Present, OpenFile
  PROVE  Contents' /\ InCall' /\ Present'
<1>0. fpc = "down" /\ fpc' = "open" /\ UNCHANGED <<files, dir, callVars>>
  BY DEF OpenFile
<1>1. Reach(dir)' = Reach(dir) /\ End' = End /\ batchStart' = batchStart /\ offset' = offset
  BY <1>0 DEF Reach, End, callVars
<1>2. End \in Nat /\ offset \in Nat
  BY EndIs DEF StoreInv
<1>3. Contents' /\ Present'
  BY <1>0, <1>1, <1>2, QuietStep
<1>4. InCall'
  BY <1>0, <1>1, <1>2 DEF InCall
<1>. QED BY <1>3, <1>4

(* openActiveFile()                                                        *)
LEMMA LogCreates ==
  ASSUME StoreInv, StoreInv', Contents, InCall, Present, OpenActiveFile
  PROVE  Contents' /\ InCall' /\ Present'
<1>0. /\ fpc = "open" /\ UNCHANGED callVars /\ FileTypes /\ End' = End
      /\ batchStart' = batchStart /\ offset' = offset
  BY DEF OpenActiveFile, StoreInv, End, callVars
<1>1. End \in Nat /\ offset \in Nat /\ batchStart \in Nat
  BY EndIs DEF StoreInv
<1>2. CASE Active \in DOMAIN dir
  <2>1. UNCHANGED <<files, dir>> /\ fpc' = "recover"
    BY <1>2 DEF OpenActiveFile
  <2>2. Reach(dir)' = Reach(dir)
    BY <2>1 DEF Reach
  <2>3. Contents' /\ Present'
    BY <1>0, <1>1, <2>1, <2>2, QuietStep
  <2>4. InCall'
    BY <1>0, <1>2, <2>1 DEF InCall
  <2>. QED BY <2>3, <2>4
<1>3. CASE Active \notin DOMAIN dir
  <2>0. PICK new : new = Len(files) + 1
    OBVIOUS
  <2>1. Created /\ fpc' = "created"
    BY <1>0, <1>3, CreatedIs DEF OpenActiveFile
  <2>2. Reach(dir)' = Reach(dir) \cup {new}
    BY <1>0, <2>0, <2>1, CreatedReach
  <2>3. /\ \A i \in Reach(dir) : i \in 1..Len(files) /\ files'[i] = files[i] /\ i < new
        /\ Len(files) \in Nat
    BY <1>0, <2>0, <2>1, ReachIs DEF Created
  <2>4. files'[new].data = <<>> /\ files'[new].durable = <<>> /\ dir'[Active] = new
    BY <2>0, <2>1 DEF Created
  <2>5. Units(new)' = {} /\ \A i \in Reach(dir) : Units(i)' = Units(i)
    <3>1. \A i \in Reach(dir) : Units(i)' = Units(i)
      BY <2>3 DEF Units
    <3>2. Units(new)' = {}
      BY <2>4, EmptyIs DEF Units
    <3>. QED BY <3>1, <3>2
  <2>6. Content(new)'
    BY <2>4, <2>5, EmptyIs DEF Content
  <2>7. \A i \in Reach(dir) : Content(i)'
    BY <1>0, <2>3, <2>5 DEF Contents, Content
  <2>8. \A i, j \in Reach(dir)' : i < j => Below(i, j)'
    BY <2>2, <2>3, <2>5 DEF Contents, Below
  <2>9. Contents'
    BY <2>2, <2>6, <2>7, <2>8 DEF Contents
  <2>10. Present'
    BY <1>0, <2>2, <2>3 DEF Present
  <2>11. InCall'
    BY <2>1, <2>4 DEF InCall, ActiveData, Disk
  <2>. QED BY <2>9, <2>10, <2>11
<1>. QED BY <1>2, <1>3

(* The steps between the system calls, the syncs of the directory, and the *)
(* end of the process.                                                     *)
LEMMA LogQuiet ==
  ASSUME StoreInv, StoreInv', Contents, InCall, Present,
         \/ SyncCreated \/ AppendDone \/ StartRotation \/ RotateSyncDirectory \/ Die
  PROVE  Contents' /\ InCall' /\ Present'
<1>1. UNCHANGED <<files, dir>> /\ Reach(dir)' = Reach(dir)
  BY DEF SyncCreated, AppendDone, StartRotation, RotateSyncDirectory, Die, fsVars, Reach
<1>2. /\ End \in Nat /\ offset \in Nat /\ batchStart \in Nat /\ batchEnd \in Nat /\ End <= batchEnd
  BY EndIs DEF StoreInv
<1>3. CASE Die
  <2>1. batchStart' = batchEnd /\ offset' = batchEnd /\ End' = batchEnd /\ fpc' = "down"
    BY <1>2, <1>3 DEF Die, Abandon, End
  <2>2. Contents' /\ Present'
    BY <1>1, <1>2, <2>1, QuietStep
  <2>. QED BY <2>1, <2>2 DEF InCall
<1>4. CASE SyncCreated \/ AppendDone \/ StartRotation \/ RotateSyncDirectory
  <2>1. batchStart' = batchStart /\ offset' = offset /\ End' = End
    BY <1>4 DEF SyncCreated, AppendDone, StartRotation, RotateSyncDirectory, callVars, End
  <2>2. Contents' /\ Present'
    BY <1>1, <1>2, <2>1, QuietStep
  <2>3. \/ fpc = "created" /\ fpc' = "recover"
        \/ fpc = "renamed" /\ fpc' = "open"
        \/ fpc' \in {"idle", "rotate"}
    BY <1>4 DEF SyncCreated, AppendDone, StartRotation, RotateSyncDirectory
  <2>4. InCall'
    BY <1>1, <2>1, <2>3 DEF InCall, ActiveData
  <2>. QED BY <2>2, <2>4
<1>. QED BY <1>3, <1>4

(* appendFrames() starts with an empty part of the batch.                  *)
LEMMA LogTakesBatch ==
  ASSUME StoreInv, StoreInv', Contents, InCall, Present, NEW n \in 1..MaxBatch, AppendFrames(n)
  PROVE  Contents' /\ InCall' /\ Present'
<1>0. /\ fpc = "idle" /\ fpc' = "loop" /\ batchStart' = batchEnd /\ offset' = batchEnd
      /\ UNCHANGED <<files, dir, writtenBytes, chunkBytes>>
  BY DEF AppendFrames, fsVars
<1>1. Reach(dir)' = Reach(dir)
  BY <1>0 DEF Reach
<1>2. chunkBytes = 0
  BY <1>0 DEF StoreInv, Progress
<1>3. writtenBytes = 0
  BY <1>2 DEF StoreInv, CallTypes
<1>4. /\ End \in Nat /\ batchEnd \in Nat /\ End <= batchEnd
  BY EndIs DEF StoreInv
<1>5. End' = batchEnd
  BY <1>0, <1>3, <1>4 DEF End
<1>6. Contents' /\ Present'
  BY <1>0, <1>1, <1>4, <1>5, QuietStep
<1>7. InCall'
  BY <1>0 DEF InCall
<1>. QED BY <1>6, <1>7

(* The next chunk, of which nothing is written yet, and the end of a       *)
(* chunk, all of which is.                                                 *)
LEMMA LogChunks ==
  ASSUME StoreInv, StoreInv', Contents, InCall, Present, NextChunk \/ ChunkWritten
  PROVE  Contents' /\ InCall' /\ Present'
<1>0. /\ End \in Nat /\ offset \in Nat /\ writtenBytes \in Nat
  BY EndIs DEF StoreInv
<1>1. CASE NextChunk
  <2>1. fpc = "loop" /\ ~(syncEvery # 0 /\ unsyncedBytes >= syncEvery)
    BY <1>1 DEF NextChunk, StoreInv, Cadence, CallTypes
  <2>2. /\ UNCHANGED <<files, dir, batchStart, offset>> /\ fpc' = "write" /\ writtenBytes' = 0
    BY <1>1, <2>1 DEF NextChunk
  <2>3. chunkBytes = 0
    BY <2>1 DEF StoreInv, Progress
  <2>4. writtenBytes = 0
    BY <2>3 DEF StoreInv, CallTypes
  <2>5. End' = End /\ Reach(dir)' = Reach(dir)
    BY <2>2, <2>4 DEF End, Reach
  <2>6. Contents' /\ Present'
    BY <1>0, <2>2, <2>5, QuietStep
  <2>7. InCall'
    BY <2>2 DEF InCall
  <2>. QED BY <2>6, <2>7
<1>2. CASE ChunkWritten
  <2>1. /\ UNCHANGED <<files, dir, batchStart>> /\ fpc' \in {"sync", "loop"}
        /\ writtenBytes' = 0 /\ offset' = offset + chunkBytes /\ writtenBytes = chunkBytes
    BY <1>2 DEF ChunkWritten, fsVars
  <2>2. End' = End /\ Reach(dir)' = Reach(dir)
    BY <1>0, <2>1 DEF End, Reach
  <2>3. Contents' /\ Present'
    BY <1>0, <2>1, <2>2, QuietStep
  <2>4. InCall'
    BY <2>1 DEF InCall
  <2>. QED BY <2>3, <2>4
<1>. QED BY <1>1, <1>2

(* The rename changes a name and no file.                                  *)
LEMMA LogRenames ==
  ASSUME StoreInv, StoreInv', Entries, Contents, InCall, Present, RotateRename
  PROVE  Contents' /\ InCall' /\ Present'
<1>0. Renamed
  BY RenamedIs
<1>1. Reach(dir)' = Reach(dir)
  BY <1>0, RenamedReach
<1>2. /\ UNCHANGED files /\ End' = End /\ batchStart' = batchStart /\ fpc' = "renamed"
      /\ Active \notin DOMAIN dir'
  BY <1>0 DEF Renamed, End, callVars
<1>3. End \in Nat
  BY EndIs DEF StoreInv
<1>4. Contents' /\ Present'
  BY <1>1, <1>2, <1>3, QuietStep
<1>5. InCall'
  BY <1>2 DEF InCall
<1>. QED BY <1>4, <1>5

(* recoverPartialFrame(): the cut takes no whole frame, and within a call  *)
(* it takes nothing.                                                       *)
LEMMA LogRecovers ==
  ASSUME StoreInv, StoreInv', Entries, Contents, InCall, Present, RecoverPartialFrame
  PROVE  Contents' /\ InCall' /\ Present'
<1>. DEFINE size == Len(ActiveData)
            cut == size - (size % FrameUnits)
            d == SubSeq(ActiveData, 1, cut)
            e == files[dir[Active]].durable
            r == [data |-> d, durable |-> e]
<1>0. /\ fpc = "recover" /\ files' = [files EXCEPT ![dir[Active]] = r]
      /\ fpc' \in {"recoverSync", "loop"} /\ UNCHANGED <<dir, callVars>>
  BY DEF RecoverPartialFrame
<1>1. Active \in DOMAIN dir /\ FileTypes
  BY <1>0 DEF StoreInv, Progress, Found
<1>2. /\ ActiveData \in Seq(Nat) /\ size \in Nat /\ e \in Seq(Nat) /\ dir[Active] \in Reach(dir)
      /\ Len(e) \in Nat
  BY <1>1, ActiveIs, ReachIs DEF Disk
<1>3. /\ Whole(cut) /\ cut <= size /\ cut \in Nat
      /\ \A w : Whole(w) /\ w <= size => w <= cut
  BY <1>2, Floor, WholeIs
<1>4. /\ Framed(ActiveData) /\ Rising(ActiveData) /\ Framed(e) /\ Rising(e) /\ Kept(ActiveData, e)
      /\ Units(dir[Active]) = Held(ActiveData) \cup Held(e)
  BY <1>2 DEF Contents, Content, ActiveData, Units
<1>. HIDE DEF cut, size
<1>5. cut \in 0..Len(ActiveData)
  BY <1>2, <1>3 DEF size
<1>6. Framed(d) /\ Rising(d) /\ Held(d) \subseteq Held(ActiveData)
  BY <1>2, <1>4, <1>5, PrefixIs
<1>7. d \in Seq(Nat) /\ Len(d) = cut /\ \A p \in 1..cut : d[p] = ActiveData[p]
  BY <1>2, <1>5
<1>. HIDE DEF d, e
<1>8. Kept(d, e)
  <2>. SUFFICES ASSUME NEW w \in Nat, Whole(w), w <= Len(e)
                PROVE  w <= Len(d) /\ \A p \in 1..w : d[p] = e[p]
    BY DEF Kept
  <2>1. w <= size /\ \A p \in 1..w : ActiveData[p] = e[p]
    BY <1>4 DEF Kept, size
  <2>2. w <= cut
    BY <1>3, <2>1
  <2>. QED BY <1>3, <1>7, <2>1, <2>2
<1>9. r \in Inode /\ r.data = d /\ r.durable = e
  BY <1>2, <1>7 DEF Inode
<1>. HIDE DEF r
<1>10. Rewritten(r)
  BY <1>0, <1>1, <1>9, RewriteActive
<1>11. End' = End /\ batchStart' = batchStart /\ Reach(dir)' = Reach(dir)
  BY <1>0 DEF End, callVars, Reach
<1>12. End \in Nat /\ batchStart \in Nat /\ batchStart <= End
  BY EndIs DEF StoreInv
<1>13. Contents'
  <2>1. \A u \in Held(r.data) \cup Held(r.durable) :
           u \in Units(dir[Active]) \/ (u \in Nat /\ End <= u /\ u < End')
    BY <1>4, <1>6, <1>9
  <2>2. End' \in Nat /\ End <= End'
    BY <1>11, <1>12
  <2>3. UNCHANGED dir
    BY <1>0
  <2>4. /\ Framed(r.data) /\ Framed(r.durable) /\ Rising(r.data) /\ Rising(r.durable)
        /\ Kept(r.data, r.durable)
    BY <1>4, <1>6, <1>8, <1>9
  <2>. QED BY <1>1, <1>9, <1>10, <2>1, <2>2, <2>3, <2>4, ContentsRewritten
<1>14. InCall'
  BY <1>0 DEF InCall
<1>15. Present'
  <2>. SUFFICES ASSUME NEW u \in batchStart..(End - 1)
                PROVE  \E i \in Reach(dir) : u \in Held(files'[i].data)
    BY <1>11 DEF Present
  <2>1. chunkBytes = 0
    BY <1>0 DEF StoreInv, Progress
  <2>2. writtenBytes = 0 /\ offset \in Nat
    BY <2>1, WholeIs DEF StoreInv, CallTypes
  <2>3. batchStart < offset
    BY <1>12, <2>2 DEF End
  <2>4. ActiveData = <<>>
    BY <1>0, <2>3 DEF InCall
  <2>5. PICK i \in Reach(dir) : u \in Held(files[i].data)
    BY DEF Present
  <2>6. i # dir[Active]
    BY <2>4, <2>5, EmptyIs DEF ActiveData
  <2>7. files'[i] = files[i]
    BY <1>1, <1>10, <2>6, ReachIs DEF Rewritten
  <2>. QED BY <2>5, <2>7
<1>. QED BY <1>13, <1>14, <1>15

(* The four places that sync the active file.                              *)
LEMMA LogSyncs ==
  ASSUME StoreInv, StoreInv', Entries, Contents, InCall, Present,
         RecoverSync \/ SyncChunk \/ Sync \/ RotateSync
  PROVE  Contents' /\ InCall' /\ Present'
<1>. DEFINE r == [data |-> ActiveData, durable |-> ActiveData]
<1>0. /\ files' = [files EXCEPT ![dir[Active]] = r] /\ UNCHANGED <<dir, callVars>>
      /\ fpc \in {"recoverSync", "sync", "idle", "rotate"}
      /\ fpc' \in {"loop", "synced", "rename"}
  BY DEF RecoverSync, SyncChunk, Sync, RotateSync, SyncFile
<1>1. Active \in DOMAIN dir /\ FileTypes
  BY <1>0 DEF StoreInv, Progress, Found, Settled, Opened
<1>2. /\ ActiveData \in Seq(Nat) /\ dir[Active] \in Reach(dir)
  BY <1>1, ActiveIs, ReachIs
<1>3. /\ Framed(ActiveData) /\ Rising(ActiveData) /\ Held(ActiveData) \subseteq Units(dir[Active])
  BY <1>2 DEF Contents, Content, ActiveData, Units
<1>4. Kept(ActiveData, ActiveData)
  BY DEF Kept
<1>5. r \in Inode /\ r.data = ActiveData /\ r.durable = ActiveData
  BY <1>2 DEF Inode
<1>. HIDE DEF r
<1>6. Rewritten(r)
  BY <1>0, <1>1, <1>5, RewriteActive
<1>7. End' = End /\ batchStart' = batchStart /\ Reach(dir)' = Reach(dir) /\ UNCHANGED dir
  BY <1>0 DEF End, callVars, Reach
<1>8. End \in Nat
  BY EndIs DEF StoreInv
<1>9. Contents'
  <2>1. \A u \in Held(r.data) \cup Held(r.durable) :
           u \in Units(dir[Active]) \/ (u \in Nat /\ End <= u /\ u < End')
    BY <1>3, <1>5
  <2>2. End' \in Nat /\ End <= End'
    BY <1>7, <1>8
  <2>3. /\ Framed(r.data) /\ Framed(r.durable) /\ Rising(r.data) /\ Rising(r.durable)
        /\ Kept(r.data, r.durable)
    BY <1>3, <1>4, <1>5
  <2>. QED BY <1>1, <1>5, <1>6, <1>7, <2>1, <2>2, <2>3, ContentsRewritten
<1>10. files'[dir[Active]].data = ActiveData /\ files'[dir[Active]].durable = ActiveData
  BY <1>5, <1>6 DEF Rewritten
<1>11. InCall'
  BY <1>0, <1>7, <1>10 DEF InCall, ActiveData, Disk
<1>12. \A i \in Reach(dir) : files'[i].data = files[i].data
  <2>. SUFFICES ASSUME NEW i \in Reach(dir) PROVE files'[i].data = files[i].data
    OBVIOUS
  <2>1. CASE i = dir[Active]
    BY <1>10, <2>1 DEF ActiveData
  <2>2. CASE i # dir[Active]
    BY <1>1, <1>6, <2>2, ReachIs DEF Rewritten
  <2>. QED BY <2>1, <2>2
<1>13. Present'
  BY <1>7, <1>12 DEF Present
<1>. QED BY <1>9, <1>11, <1>13

(* Units behind rising ones that they exceed.                              *)
LEMMA AppendedRises ==
  ASSUME NEW s \in Seq(Nat), NEW o \in Nat, NEW n \in Nat, Rising(s), \A u \in Held(s) : u < o,
         NEW t \in Seq(Nat), Len(t) = Len(s) + n,
         \A p \in 1..Len(s) : t[p] = s[p],
         \A k \in 1..n : t[Len(s) + k] = o + k - 1
  PROVE  /\ Rising(t)
         /\ \A u \in Held(t) : u \in Held(s) \/ (u \in Nat /\ o <= u /\ u < o + n)
         /\ Held(s) \subseteq Held(t) /\ \A u \in o..(o + n - 1) : u \in Held(t)
<1>. DEFINE l == Len(s)
<1>1. l \in Nat /\ Len(t) = l + n /\ (\A p \in 1..l : t[p] = s[p])
      /\ \A k \in 1..n : t[l + k] = o + k - 1
  OBVIOUS
<1>2. \A p \in 1..l : s[p] \in Nat /\ s[p] < o
  BY DEF Held
<1>r. \A p, q \in 1..l : p < q => s[p] < s[q]
  BY DEF Rising
<1>. HIDE DEF l
<1>3. \A p \in 1..Len(t) : p > l => t[p] = o + (p - l) - 1
  <2>. SUFFICES ASSUME NEW p \in 1..Len(t), p > l PROVE t[p] = o + (p - l) - 1
    OBVIOUS
  <2>1. p - l \in 1..n /\ l + (p - l) = p
    BY <1>1
  <2>. QED BY <1>1, <2>1
<1>4. Rising(t)
  <2>. SUFFICES ASSUME NEW p \in 1..Len(t), NEW q \in 1..Len(t), p < q PROVE t[p] < t[q]
    BY DEF Rising
  <2>1. CASE q <= l
    BY <1>1, <1>r, <2>1
  <2>2. CASE q > l /\ p <= l
    <3>1. t[p] = s[p] /\ s[p] \in Nat /\ s[p] < o
      BY <1>1, <1>2, <2>2
    <3>2. t[q] = o + (q - l) - 1 /\ q - l >= 1 /\ q - l \in Nat
      BY <1>1, <1>3, <2>2
    <3>. QED BY <3>1, <3>2
  <2>3. CASE q > l /\ p > l
    BY <1>1, <1>3, <2>3
  <2>. QED BY <1>1, <2>1, <2>2, <2>3
<1>5. \A u \in Held(t) : u \in Held(s) \/ (u \in Nat /\ o <= u /\ u < o + n)
  <2>. SUFFICES ASSUME NEW p \in 1..Len(t)
                PROVE  t[p] \in Held(s) \/ (t[p] \in Nat /\ o <= t[p] /\ t[p] < o + n)
    BY DEF Held
  <2>1. CASE p <= l
    BY <1>1, <2>1 DEF Held, l
  <2>2. CASE p > l
    BY <1>1, <1>3, <2>2
  <2>. QED BY <1>1, <2>1, <2>2
<1>6. Held(s) \subseteq Held(t)
  <2>. SUFFICES ASSUME NEW p \in 1..l PROVE s[p] \in Held(t)
    BY DEF Held, l
  <2>1. p \in 1..Len(t) /\ t[p] = s[p]
    BY <1>1
  <2>. QED BY <2>1 DEF Held
<1>7. \A u \in o..(o + n - 1) : u \in Held(t)
  <2>. SUFFICES ASSUME NEW u \in o..(o + n - 1) PROVE u \in Held(t)
    OBVIOUS
  <2>1. u - o + 1 \in 1..n /\ l + (u - o + 1) \in 1..Len(t) /\ o + (u - o + 1) - 1 = u
    BY <1>1
  <2>2. t[l + (u - o + 1)] = u
    BY <1>1, <2>1
  <2>. QED BY <2>1, <2>2 DEF Held
<1>. QED BY <1>4, <1>5, <1>6, <1>7

(* write(): the file keeps what it had and gets the next units, n of them. *)
Written(n, r) ==
  /\ Rewritten(r) /\ writtenBytes' = writtenBytes + n
  /\ r.durable = files[dir[Active]].durable
  /\ Len(r.data) = Len(ActiveData) + n
  /\ \A p \in 1..Len(ActiveData) : r.data[p] = ActiveData[p]
  /\ \A k \in 1..n : r.data[Len(ActiveData) + k] = End + k - 1

(* What a write does, without the concatenation.                           *)
LEMMA WriteIs ==
  ASSUME StoreInv, Write
  PROVE  /\ Active \in DOMAIN dir /\ FileTypes
         /\ \E n \in 1..(chunkBytes - writtenBytes) : \E r \in Inode : Written(n, r)
<1>0. PICK n \in 1..(chunkBytes - writtenBytes) :
        /\ files' = [files EXCEPT ![dir[Active]] =
                       [data |-> ActiveData \o FileUnits(offset + writtenBytes, n),
                        durable |-> files[dir[Active]].durable]]
        /\ writtenBytes' = writtenBytes + n
  BY DEF Write
<1>1. Active \in DOMAIN dir /\ FileTypes
  BY DEF Write, StoreInv, Progress, Found, Settled, Opened
<1>. DEFINE s == ActiveData
            f == FileUnits(End, n)
            d == s \o f
            e == files[dir[Active]].durable
            r == [data |-> d, durable |-> e]
<1>2. s \in Seq(Nat) /\ e \in Seq(Nat) /\ Len(s) \in Nat
  BY <1>1, ActiveIs DEF Disk
<1>3. End \in Nat /\ n \in Nat
  <2>1. End \in Nat /\ writtenBytes \in Nat /\ chunkBytes \in Nat
    BY EndIs, WholeIs DEF StoreInv, CallTypes
  <2>. QED BY <2>1
<1>4. files' = [files EXCEPT ![dir[Active]] = r]
  BY <1>0 DEF End
<1>5. f \in Seq(Nat) /\ Len(f) = n /\ \A k \in 1..n : f[k] = End + k - 1
  BY <1>3 DEF FileUnits
<1>6. d = s \o f
  OBVIOUS
<1>. HIDE DEF s, d, f
<1>7. /\ d \in Seq(Nat) /\ Len(d) = Len(s) + n
      /\ \A p \in 1..Len(s) : d[p] = s[p]
      /\ \A k \in 1..n : d[Len(s) + k] = End + k - 1
  <2>1. /\ s \o f \in Seq(Nat) /\ Len(s \o f) = Len(s) + Len(f)
        /\ \A i \in 1..Len(s) + Len(f) : (s \o f)[i] = IF i <= Len(s) THEN s[i] ELSE f[i - Len(s)]
    BY <1>2, <1>5, ConcatProperties
  <2>. DEFINE m == Len(s)
  <2>2. /\ d \in Seq(Nat) /\ Len(d) = m + n /\ m \in Nat
        /\ \A i \in 1..(m + n) : d[i] = IF i <= m THEN s[i] ELSE f[i - m]
    BY <1>2, <1>5, <1>6, <2>1
  <2>. HIDE DEF m
  <2>3. ASSUME NEW p \in 1..m PROVE d[p] = s[p]
    <3>1. p \in 1..(m + n) /\ p <= m
      BY <1>3, <2>2
    <3>. QED BY <2>2, <3>1
  <2>4. ASSUME NEW k \in 1..n PROVE d[m + k] = End + k - 1
    <3>1. m + k \in 1..(m + n) /\ ~(m + k <= m) /\ (m + k) - m = k
      BY <1>3, <2>2
    <3>2. d[m + k] = f[(m + k) - m]
      BY <2>2, <3>1
    <3>. QED BY <1>5, <3>1, <3>2
  <2>. QED BY <2>2, <2>3, <2>4 DEF m
<1>8. r \in Inode /\ r.data = d /\ r.durable = e
  BY <1>2, <1>7 DEF Inode
<1>. HIDE DEF r, e
<1>9. Rewritten(r)
  BY <1>1, <1>4, <1>8, RewriteActive
<1>10. Written(n, r)
  BY <1>0, <1>7, <1>8, <1>9 DEF Written, s, e
<1>. QED BY <1>1, <1>8, <1>10

(* write(): the units follow those of the chunk, which follow whole        *)
(* frames.                                                                 *)
LEMMA LogWrites ==
  ASSUME StoreInv, StoreInv', Entries, Contents, InCall, Present, Write
  PROVE  Contents' /\ InCall' /\ Present'
<1>0. PICK n \in 1..(chunkBytes - writtenBytes), r \in Inode : Written(n, r)
  BY WriteIs
<1>1. /\ fpc = "write" /\ fpc' = "write"
      /\ UNCHANGED <<dir, currentSize, batchStart, offset>>
  BY DEF Write, memberVars
<1>2. /\ chunkBytes \in Nat /\ writtenBytes \in Nat /\ offset \in Nat /\ currentSize \in Nat
      /\ n \in Nat /\ batchStart \in Nat /\ Whole(offset) /\ Whole(currentSize)
  <2>1. /\ chunkBytes \in Nat /\ writtenBytes \in 0..chunkBytes /\ offset \in Nat /\ currentSize \in Nat
        /\ batchStart \in Nat /\ Whole(offset) /\ Whole(currentSize)
    BY WholeIs DEF StoreInv, CallTypes
  <2>. QED BY <2>1
<1>3. Active \in DOMAIN dir /\ FileTypes
  BY WriteIs
<1>4. /\ ActiveData \in Seq(Nat) /\ dir[Active] \in Reach(dir)
      /\ Len(ActiveData) = currentSize + writtenBytes
  BY <1>1, <1>3, ActiveIs, ReachIs DEF StoreInv, Progress, Settled, Opened
<1>. DEFINE s == ActiveData
            d == r.data
            e == r.durable
<1>5. End \in Nat /\ End = offset + writtenBytes /\ End' = End + n
  BY <1>0, <1>1, <1>2 DEF End, Written
<1>6. /\ Framed(s) /\ Rising(s) /\ Framed(e) /\ Rising(e) /\ Kept(s, e)
      /\ Units(dir[Active]) = Held(s) \cup Held(e) /\ \A u \in Held(s) : u < End
  BY <1>0, <1>4 DEF Contents, Content, ActiveData, Units, Written
<1>7. /\ Rewritten(r) /\ writtenBytes' = writtenBytes + n /\ d \in Seq(Nat)
  BY <1>0 DEF Written, Inode
<1>8. /\ Len(d) = Len(s) + n /\ \A p \in 1..Len(s) : d[p] = s[p]
      /\ \A k \in 1..n : d[Len(s) + k] = End + k - 1
  BY <1>0 DEF Written
<1>l. s \in Seq(Nat) /\ Len(s) = currentSize + writtenBytes /\ Len(s) \in Nat
  BY <1>4
<1>w. \A w \in 1..writtenBytes : s[currentSize + w] = offset + w - 1
  BY <1>1 DEF InCall
<1>. HIDE DEF d, e, s
<1>9. /\ Rising(d)
      /\ \A u \in Held(d) : u \in Held(s) \/ (u \in Nat /\ End <= u /\ u < End + n)
      /\ Held(s) \subseteq Held(d) /\ \A u \in End..(End + n - 1) : u \in Held(d)
  <2>1. /\ s \in Seq(Nat) /\ d \in Seq(Nat) /\ End \in Nat /\ n \in Nat /\ Rising(s)
        /\ \A u \in Held(s) : u < End
    BY <1>2, <1>5, <1>6, <1>7, <1>l
  <2>. QED BY <1>8, <2>1, AppendedRises
<1>10. \A w \in 1..(writtenBytes + n) : d[currentSize + w] = offset + w - 1
  <2>. SUFFICES ASSUME NEW w \in 1..(writtenBytes + n) PROVE d[currentSize + w] = offset + w - 1
    OBVIOUS
  <2>1. CASE w <= writtenBytes
    <3>1. w \in 1..writtenBytes /\ currentSize + w \in 1..Len(s)
      BY <1>2, <1>l, <2>1
    <3>. QED BY <1>8, <1>w, <3>1
  <2>2. CASE w > writtenBytes
    <3>1. /\ w - writtenBytes \in 1..n /\ Len(s) + (w - writtenBytes) = currentSize + w
          /\ End + (w - writtenBytes) - 1 = offset + w - 1
      BY <1>2, <1>5, <1>l, <2>2
    <3>2. d[Len(s) + (w - writtenBytes)] = End + (w - writtenBytes) - 1
      BY <1>8, <3>1
    <3>. QED BY <3>1, <3>2
  <2>. QED BY <1>2, <2>1, <2>2
<1>11. Framed(d)
  <2>1. currentSize <= Len(s) /\ currentSize <= Len(d) /\ Len(d) - currentSize = writtenBytes + n
    BY <1>2, <1>8, <1>l
  <2>2. \A p \in 1..currentSize : d[p] = s[p]
    BY <1>2, <1>8, <1>l
  <2>3. \A w \in 1..(Len(d) - currentSize) : d[currentSize + w] = offset + w - 1
    BY <1>10, <2>1
  <2>4. s \in Seq(Nat) /\ d \in Seq(Nat) /\ Framed(s) /\ Whole(currentSize) /\ Whole(offset)
    BY <1>2, <1>6, <1>7, <1>l
  <2>. QED BY <2>1, <2>2, <2>3, <2>4, FramedGrows
<1>12. Kept(d, e)
  <2>. SUFFICES ASSUME NEW w \in Nat, Whole(w), w <= Len(e)
                PROVE  w <= Len(d) /\ \A p \in 1..w : d[p] = e[p]
    BY DEF Kept
  <2>1. w <= Len(s) /\ \A p \in 1..w : s[p] = e[p]
    BY <1>6 DEF Kept
  <2>. QED BY <1>2, <1>8, <1>l, <2>1
<1>14. Contents'
  <2>1. \A u \in Held(r.data) \cup Held(r.durable) :
           u \in Units(dir[Active]) \/ (u \in Nat /\ End <= u /\ u < End')
    BY <1>5, <1>6, <1>9 DEF d, e
  <2>2. End' \in Nat /\ End <= End'
    BY <1>2, <1>5
  <2>3. /\ Framed(r.data) /\ Framed(r.durable) /\ Rising(r.data) /\ Rising(r.durable)
        /\ Kept(r.data, r.durable)
    BY <1>6, <1>9, <1>11, <1>12 DEF d, e
  <2>4. UNCHANGED dir
    BY <1>1
  <2>. QED BY <1>3, <1>7, <2>1, <2>2, <2>3, <2>4, ContentsRewritten
<1>15. files'[dir[Active]].data = d
  BY <1>7 DEF Rewritten, d
<1>16. InCall'
  <2>1. ActiveData' = d
    BY <1>1, <1>15 DEF ActiveData
  <2>. QED BY <1>1, <1>7, <1>10, <2>1 DEF InCall
<1>17. Present'
  <2>. SUFFICES ASSUME NEW u \in batchStart..(End + n - 1)
                PROVE  \E i \in Reach(dir) : u \in Held(files'[i].data)
    BY <1>1, <1>5 DEF Present, Reach
  <2>1. CASE u < End
    <3>1. u \in batchStart..(End - 1)
      BY <1>2, <1>5, <2>1
    <3>2. PICK i \in Reach(dir) : u \in Held(files[i].data)
      BY <3>1 DEF Present
    <3>3. CASE i = dir[Active]
      <4>1. u \in Held(s)
        BY <3>2, <3>3 DEF s, ActiveData
      <4>. QED BY <1>4, <1>9, <1>15, <4>1
    <3>4. CASE i # dir[Active]
      BY <1>3, <1>7, <3>2, <3>4, ReachIs DEF Rewritten
    <3>. QED BY <3>3, <3>4
  <2>2. CASE u >= End
    <3>1. u \in End..(End + n - 1)
      BY <1>2, <1>5, <2>2
    <3>. QED BY <1>4, <1>9, <1>15, <3>1
  <2>. QED BY <1>2, <1>5, <2>1, <2>2
<1>. QED BY <1>14, <1>16, <1>17

(* What survives of a file lies between what the disk held and what the    *)
(* page cache held, counted in whole frames.                               *)
LEMMA SurvivorContent ==
  ASSUME NEW f \in Inode, NEW x \in Survivors(f), Kept(f.data, f.durable),
         Framed(f.data), Framed(f.durable), Rising(f.data), Rising(f.durable)
  PROVE  /\ x \in Seq(Nat) /\ Framed(x) /\ Rising(x)
         /\ Held(x) \subseteq Held(f.data) \cup Held(f.durable)
         /\ Kept(x, f.durable) /\ Kept(f.data, x)
<1>. DEFINE d == f.data
            e == f.durable
            longer == IF Len(d) >= Len(e) THEN d ELSE e
            shorter == Min2(Len(d), Len(e))
<1>1. d \in Seq(Nat) /\ e \in Seq(Nat) /\ Len(d) \in Nat /\ Len(e) \in Nat
  BY DEF Inode
<1>2. PICK n \in shorter..Len(longer) : x = SubSeq(longer, 1, n)
  BY DEF Survivors
<1>3. Framed(d) /\ Framed(e) /\ Rising(d) /\ Rising(e) /\ Kept(d, e)
  OBVIOUS
<1>. HIDE DEF d, e
<1>4. CASE Len(d) >= Len(e)
  <2>1. longer = d /\ shorter = Len(e)
    BY <1>1, <1>4 DEF Min2
  <2>2. n \in 0..Len(d) /\ Len(e) <= n /\ x = SubSeq(d, 1, n)
    BY <1>1, <1>2, <2>1
  <2>. HIDE DEF longer, shorter
  <2>3. Framed(x) /\ Rising(x) /\ Held(x) \subseteq Held(d)
    BY <1>1, <1>3, <2>2, PrefixIs
  <2>4. x \in Seq(Nat) /\ Len(x) = n /\ \A p \in 1..n : x[p] = d[p]
    BY <1>1, <2>2
  <2>5. Kept(x, e)
    <3>. SUFFICES ASSUME NEW w \in Nat, Whole(w), w <= Len(e)
                  PROVE  w <= Len(x) /\ \A p \in 1..w : x[p] = e[p]
      BY DEF Kept
    <3>1. w <= n /\ \A p \in 1..w : d[p] = e[p]
      BY <1>1, <1>3, <2>2 DEF Kept
    <3>. QED BY <2>2, <2>4, <3>1
  <2>6. Kept(d, x)
    BY <1>1, <2>2, <2>4 DEF Kept
  <2>. QED BY <2>3, <2>4, <2>5, <2>6 DEF d, e
<1>5. CASE ~(Len(d) >= Len(e))
  <2>1. longer = e /\ shorter = Len(d)
    BY <1>1, <1>5 DEF Min2
  <2>2. n \in 0..Len(e) /\ Len(d) <= n /\ x = SubSeq(e, 1, n)
    BY <1>1, <1>2, <2>1
  <2>. HIDE DEF longer, shorter
  <2>3. Framed(x) /\ Rising(x) /\ Held(x) \subseteq Held(e)
    BY <1>1, <1>3, <2>2, PrefixIs
  <2>4. x \in Seq(Nat) /\ Len(x) = n /\ \A p \in 1..n : x[p] = e[p]
    BY <1>1, <2>2
  <2>5. Kept(x, e)
    <3>. SUFFICES ASSUME NEW w \in Nat, Whole(w), w <= Len(e)
                  PROVE  w <= Len(x) /\ \A p \in 1..w : x[p] = e[p]
      BY DEF Kept
    <3>1. w <= Len(d)
      BY <1>3 DEF Kept
    <3>. QED BY <1>1, <2>2, <2>4, <3>1
  <2>6. Kept(d, x)
    <3>. SUFFICES ASSUME NEW w \in Nat, Whole(w), w <= Len(x)
                  PROVE  w <= Len(d) /\ \A p \in 1..w : d[p] = x[p]
      BY DEF Kept
    <3>1. w <= Len(e)
      BY <1>1, <2>2, <2>4
    <3>2. w <= Len(d) /\ \A p \in 1..w : d[p] = e[p]
      BY <1>3, <3>1 DEF Kept
    <3>. QED BY <2>2, <2>4, <3>2
  <2>. QED BY <2>3, <2>4, <2>5, <2>6 DEF d, e
<1>. QED BY <1>4, <1>5

(* The state after a loss of power, file by file.                          *)
Lost(d) ==
  /\ dir' = d /\ durableDir' = d /\ d \in {dir, durableDir}
  /\ Reach(d) \subseteq Reach(dir) /\ Reach(dir)' = Reach(d) /\ Reach(durableDir)' = Reach(d)
  /\ \A i \in Reach(dir) :
       /\ files'[i].data = files'[i].durable
       /\ files[i].data = files[i].durable => files'[i].data = files[i].data
       /\ files'[i].data \in Seq(Nat) /\ Framed(files'[i].data) /\ Rising(files'[i].data)
       /\ Held(files'[i].data) \subseteq Units(i)
       /\ Kept(files'[i].data, files[i].durable) /\ Kept(files[i].data, files'[i].data)

(* A loss of power leaves such a state.                                    *)
LEMMA LostIs ==
  ASSUME StoreInv, Entries, Contents, PowerLoss
  PROVE  \E d \in {dir, durableDir} : Lost(d)
<1>0. PICK d \in {dir, durableDir} : dir' = d /\ durableDir' = d
  BY DEF PowerLoss
<1>1. PICK left \in [Dirty -> UNION {Survivors(files[i]) : i \in Dirty}] :
        /\ \A i \in Dirty : left[i] \in Survivors(files[i])
        /\ files' = [i \in DOMAIN files |->
                       IF i \in Dirty THEN [data |-> left[i], durable |-> left[i]] ELSE files[i]]
  BY DEF PowerLoss
<1>2. /\ FileTypes /\ files \in Seq(Inode) /\ DOMAIN files = 1..Len(files)
      /\ \A i \in Reach(dir) : i \in 1..Len(files)
  BY ReachIs DEF StoreInv, FileTypes
<1>3. Reach(d) \subseteq Reach(dir) /\ Reach(dir)' = Reach(d) /\ Reach(durableDir)' = Reach(d)
  BY <1>0 DEF Entries, Reach
<1>4. ASSUME NEW i \in Reach(dir)
      PROVE  /\ files'[i].data = files'[i].durable
             /\ files[i].data = files[i].durable => files'[i].data = files[i].data
             /\ files'[i].data \in Seq(Nat) /\ Framed(files'[i].data) /\ Rising(files'[i].data)
             /\ Held(files'[i].data) \subseteq Units(i)
             /\ Kept(files'[i].data, files[i].durable) /\ Kept(files[i].data, files'[i].data)
  <2>0. i \in DOMAIN files /\ files[i] \in Inode /\ Content(i)
    BY <1>2, <1>4 DEF Contents
  <2>1. CASE i \in Dirty
    <3>1. files'[i] = [data |-> left[i], durable |-> left[i]]
      BY <1>1, <2>0, <2>1
    <3>2. files'[i].data = left[i] /\ files'[i].durable = left[i]
      BY <3>1
    <3>3. left[i] \in Survivors(files[i])
      BY <1>1, <2>1
    <3>4. /\ Kept(files[i].data, files[i].durable) /\ Framed(files[i].data) /\ Framed(files[i].durable)
          /\ Rising(files[i].data) /\ Rising(files[i].durable)
      BY <2>0 DEF Content
    <3>5. /\ left[i] \in Seq(Nat) /\ Framed(left[i]) /\ Rising(left[i])
          /\ Held(left[i]) \subseteq Held(files[i].data) \cup Held(files[i].durable)
          /\ Kept(left[i], files[i].durable) /\ Kept(files[i].data, left[i])
      BY <2>0, <3>3, <3>4, SurvivorContent
    <3>6. files[i].data # files[i].durable
      BY <2>1 DEF Dirty
    <3>. QED BY <3>2, <3>5, <3>6 DEF Units
  <2>2. CASE i \notin Dirty
    <3>1. files'[i] = files[i] /\ files[i].data = files[i].durable
      BY <1>1, <2>0, <2>2 DEF Dirty
    <3>2. files[i].data \in Seq(Nat)
      BY <2>0 DEF Inode
    <3>3. Kept(files[i].data, files[i].data)
      BY DEF Kept
    <3>. QED BY <2>0, <3>1, <3>2, <3>3 DEF Content, Units
  <2>. QED BY <2>1, <2>2
<1>. QED BY <1>0, <1>3, <1>4 DEF Lost

(* A loss of power leaves files of the same form.                          *)
LEMMA LogLosesPower ==
  ASSUME StoreInv, StoreInv', Entries, Contents, InCall, Present, PowerLoss
  PROVE  Contents' /\ InCall' /\ Present'
<1>0. PICK d \in {dir, durableDir} : Lost(d)
  BY LostIs
<1>1. /\ End \in Nat /\ batchEnd \in Nat /\ End <= batchEnd
  BY EndIs DEF StoreInv
<1>2. fpc' = "down" /\ batchStart' = batchEnd /\ offset' = batchEnd /\ End' = batchEnd
  BY <1>1 DEF PowerLoss, Abandon, End
<1>3. \A i \in Reach(dir)' : Units(i)' \subseteq Units(i) /\ i \in Reach(dir)
  BY <1>0 DEF Lost, Units
<1>4. \A i \in Reach(dir)' : \A u \in Units(i)' : u < End'
  <2>. SUFFICES ASSUME NEW i \in Reach(dir), NEW u \in Units(i) PROVE u < batchEnd
    BY <1>2, <1>3
  <2>1. u \in Nat
    BY ReachIs, UnitsAre DEF StoreInv
  <2>2. u < End
    BY DEF Contents, Content
  <2>. QED BY <1>1, <2>1, <2>2
<1>5. \A i \in Reach(dir)' : Content(i)'
  <2>1. \A s : Kept(s, s)
    BY DEF Kept
  <2>. QED BY <1>0, <1>3, <1>4, <2>1 DEF Lost, Content
<1>6. \A i, j \in Reach(dir)' : i < j => Below(i, j)'
  BY <1>3 DEF Contents, Below
<1>7. Present'
  <2>1. batchStart'..(End' - 1) = {}
    BY <1>1, <1>2, EmptyRange
  <2>. QED BY <2>1 DEF Present
<1>8. InCall'
  BY <1>2 DEF InCall
<1>. QED BY <1>5, <1>6, <1>7, <1>8 DEF Contents

(* The invariant holds at first: the file found is units in order.         *)
LEMMA LogInit == Init => LogInv
<1>. SUFFICES ASSUME Init PROVE LogInv
  OBVIOUS
<1>0. StoreInv
  BY StoreInit
<1>1. PICK s \in InitialSizes :
        /\ files = IF s = 0 THEN <<>>
                   ELSE <<[data |-> FileUnits(0, s), durable |-> FileUnits(0, s)]>>
        /\ dir = [n \in IF s = 0 THEN {} ELSE {Active} |-> 1]
        /\ offset = ((s + FrameUnits - 1) \div FrameUnits) * FrameUnits
  BY DEF Init
<1>2. s \in Nat /\ FrameUnits \in Nat \ {0}
  BY FileStoreAssumption
<1>. DEFINE k == (s + FrameUnits - 1) \div FrameUnits
            f == FileUnits(0, s)
<1>3. s <= offset /\ offset \in Nat
  <2>1. s + FrameUnits - 1 \in Nat
    BY <1>2
  <2>2. /\ s + FrameUnits - 1 = k * FrameUnits + ((s + FrameUnits - 1) % FrameUnits)
        /\ (s + FrameUnits - 1) % FrameUnits \in 0..(FrameUnits - 1) /\ k \in Nat
    BY <1>2, <2>1, DivMod
  <2>3. offset = k * FrameUnits
    BY <1>1
  <2>. DEFINE m == k * FrameUnits
              q == (s + FrameUnits - 1) % FrameUnits
  <2>4. m \in Nat /\ s + FrameUnits - 1 = m + q /\ q \in 0..(FrameUnits - 1) /\ offset = m
    BY <1>2, <2>2, <2>3, Product
  <2>. HIDE DEF m, q
  <2>. QED BY <1>2, <2>4
<1>4. End = offset /\ batchStart = offset /\ fpc = "down" /\ durableDir = dir
  BY <1>3 DEF Init, End
<1>5. Present /\ InCall
  <2>1. batchStart..(End - 1) = {}
    BY <1>3, <1>4, EmptyRange
  <2>. QED BY <1>4, <2>1 DEF Present, InCall
<1>6. DOMAIN dir \subseteq {Active} /\ Archives(dir) = {} /\ Archives(durableDir) = {}
  BY <1>1, <1>4 DEF Archives
<1>7. Entries
  <2>1. NameOrder(dir)
    BY <1>6 DEF NameOrder, Older
  <2>2. fpc \notin Found
    BY <1>4 DEF Found, Settled, Opened
  <2>. QED BY <1>4, <1>6, <2>1, <2>2 DEF Entries, Reach
<1>8. Contents
  <2>1. CASE s = 0
    <3>1. Reach(dir) = {}
      BY <1>1, <2>1 DEF Reach
    <3>. QED BY <3>1 DEF Contents
  <2>2. CASE s # 0
    <3>1. Reach(dir) = {1} /\ files = <<[data |-> f, durable |-> f]>>
      BY <1>1, <2>2 DEF Reach
    <3>2. f \in Seq(Nat) /\ Len(f) = s /\ \A p \in 1..s : f[p] = p - 1
      BY <1>2 DEF FileUnits
    <3>. HIDE DEF f
    <3>3. files[1].data = f /\ files[1].durable = f
      BY <3>1
    <3>4. Rising(f) /\ Kept(f, f) /\ \A u \in Held(f) : u < s
      <4>1. Rising(f)
        BY <1>2, <3>2 DEF Rising
      <4>2. Kept(f, f)
        BY DEF Kept
      <4>3. \A p \in 1..s : f[p] < s
        BY <1>2, <3>2
      <4>. QED BY <3>2, <4>1, <4>2, <4>3 DEF Held
    <3>5. Framed(f)
      <4>. SUFFICES ASSUME NEW i \in Nat
                    PROVE  \E n \in Nat : \A j \in 1..FrameUnits :
                             i * FrameUnits + j <= Len(f) => f[i * FrameUnits + j] = n * FrameUnits + j - 1
        BY DEF Framed
      <4>. DEFINE x == i * FrameUnits
      <4>1. x \in Nat
        BY <1>2, Product
      <4>. HIDE DEF x
      <4>2. \A j \in 1..FrameUnits : x + j <= Len(f) => f[x + j] = x + j - 1
        BY <1>2, <3>2, <4>1
      <4>. QED BY <4>2 DEF x
    <3>6. Units(1) = Held(f)
      BY <3>3 DEF Units
    <3>7. \A u \in Units(1) : u < End
      <4>1. \A u \in Held(f) : u \in Nat
        BY <3>2 DEF Held
      <4>. QED BY <1>2, <1>3, <1>4, <3>4, <3>6, <4>1
    <3>8. Content(1)
      BY <3>3, <3>4, <3>5, <3>7 DEF Content
    <3>. QED BY <3>1, <3>8 DEF Contents
  <2>. QED BY <2>1, <2>2
<1>. QED BY <1>5, <1>7, <1>8 DEF LogInv

(* Every step keeps the invariant.                                         *)
LEMMA LogNext ==
  ASSUME StoreInv, StoreInv', LogInv, [Next]_vars
  PROVE  LogInv'
<1>. USE DEF LogInv
<1>0. Entries'
  BY EntriesNext
<1>1. CASE OpenActiveFile
  BY <1>0, <1>1, LogCreates
<1>2. CASE OpenFile
  BY <1>0, <1>2, LogOpens
<1>3. CASE SyncCreated \/ AppendDone \/ StartRotation \/ RotateSyncDirectory \/ Die
  BY <1>0, <1>3, LogQuiet
<1>4. CASE RecoverPartialFrame
  BY <1>0, <1>4, LogRecovers
<1>5. CASE RecoverSync \/ SyncChunk \/ Sync \/ RotateSync
  BY <1>0, <1>5, LogSyncs
<1>6. CASE NextChunk \/ ChunkWritten
  BY <1>0, <1>6, LogChunks
<1>7. CASE Write
  BY <1>0, <1>7, LogWrites
<1>8. CASE RotateRename
  BY <1>0, <1>8, LogRenames
<1>9. CASE PowerLoss
  BY <1>0, <1>9, LogLosesPower
<1>10. CASE \E n \in 1..MaxBatch : AppendFrames(n)
  BY <1>0, <1>10, LogTakesBatch
<1>11. CASE UNCHANGED vars
  <2>1. /\ UNCHANGED <<files, dir, batchStart, offset, writtenBytes, fpc, currentSize>>
    BY <1>11 DEF vars, fsVars, memberVars, callVars
  <2>2. Contents'
    BY <2>1 DEF Contents, Content, Below, Units, Reach, End
  <2>3. InCall'
    BY <2>1 DEF InCall, ActiveData, Disk
  <2>4. Present'
    BY <2>1 DEF Present, Reach, End
  <2>. QED BY <1>0, <2>2, <2>3, <2>4
<1>. QED BY <1>1, <1>2, <1>3, <1>4, <1>5, <1>6, <1>7, <1>8, <1>9, <1>10, <1>11 DEF Next, Step

(* Whatever was lost with a process or with the power, the files hold the  *)
(* frames offered in order, by the names of the archives and by their age, *)
(* in the current directory and in the one on the disk.                    *)
THEOREM LogInvariant == Spec => [](StoreInv /\ LogInv)
<1>1. Init => StoreInv /\ LogInv
  BY StoreInit, LogInit
<1>2. StoreInv /\ LogInv /\ [Next]_vars => (StoreInv /\ LogInv)'
  <2>. SUFFICES ASSUME StoreInv, LogInv, [Next]_vars PROVE StoreInv' /\ LogInv'
    OBVIOUS
  <2>1. StoreInv'
    BY StoreNext
  <2>. QED BY <2>1, LogNext
<1>. QED BY <1>1, <1>2, PTL DEF Spec

(* The archives by age and then the active file hold the units in the      *)
(* order they were offered in and none of them twice: makeArchiveName()    *)
(* sorts segments in the order in which rotate() closed them, and neither  *)
(* a restart nor a loss of power brings a unit back behind a later one.    *)
THEOREM FilesInOrderHolds == Spec => []FilesInOrder
<1>1. ASSUME StoreInv, LogInv PROVE FilesInOrder
  <2>. SUFFICES ASSUME NEW m \in DOMAIN dir, NEW n \in DOMAIN dir,
                       NEW p \in DOMAIN files[dir[m]].data, NEW q \in DOMAIN files[dir[n]].data,
                       Older(m, n) \/ (m = n /\ p < q)
                PROVE  files[dir[m]].data[p] < files[dir[n]].data[q]
    BY DEF FilesInOrder
  <2>. DEFINE i == dir[m]
              j == dir[n]
  <2>0. FileTypes /\ i \in Reach(dir) /\ j \in Reach(dir) /\ i \in 1..Len(files) /\ j \in 1..Len(files)
    BY <1>1, ReachIs DEF StoreInv
  <2>1. files[i].data \in Seq(Nat) /\ files[j].data \in Seq(Nat)
    BY <2>0, UnitsAre
  <2>2. p \in 1..Len(files[i].data) /\ q \in 1..Len(files[j].data)
    BY <2>1
  <2>3. CASE Older(m, n)
    <3>1. i < j
      BY <1>1, <2>3 DEF LogInv, Entries, NameOrder
    <3>2. Below(i, j)
      BY <1>1, <2>0, <3>1 DEF LogInv, Contents
    <3>3. files[i].data[p] \in Units(i) /\ files[j].data[q] \in Units(j)
      BY <2>2 DEF Units, Held
    <3>. QED BY <3>2, <3>3 DEF Below
  <2>4. CASE m = n /\ p < q
    <3>1. Rising(files[i].data)
      BY <1>1, <2>0 DEF LogInv, Contents, Content
    <3>. QED BY <2>2, <2>4, <3>1 DEF Rising
  <2>. QED BY <2>3, <2>4
<1>. QED BY <1>1, LogInvariant, PTL

(* And every unit appendFrames() counts as written is in a file, whatever *)
(* the lengths of the writes and wherever the rotations fell, and no file  *)
(* holds a unit beyond.                                                    *)
THEOREM AppendExactHolds == Spec => []AppendExact
<1>1. ASSUME StoreInv, LogInv PROVE EndExact
  <2>. DEFINE units == UNION {{files[dir[n]].data[p] : p \in DOMAIN files[dir[n]].data} : n \in DOMAIN dir}
  <2>0. FileTypes /\ \A i \in Reach(dir) : i \in 1..Len(files)
    BY <1>1, ReachIs DEF StoreInv
  <2>1. \A i \in Reach(dir) : DOMAIN files[i].data = 1..Len(files[i].data)
    <3>1. \A i \in Reach(dir) : files[i].data \in Seq(Nat)
      BY <2>0, UnitsAre
    <3>. QED BY <3>1
  <2>2. ASSUME NEW u \in units PROVE u < End
    <3>1. PICK n \in DOMAIN dir : u \in {files[dir[n]].data[p] : p \in DOMAIN files[dir[n]].data}
      BY <2>2
    <3>2. dir[n] \in Reach(dir)
      BY DEF Reach
    <3>3. u \in Units(dir[n])
      BY <2>1, <3>1, <3>2 DEF Units, Held
    <3>. QED BY <1>1, <3>2, <3>3 DEF LogInv, Contents, Content
  <2>3. ASSUME NEW u \in batchStart..(End - 1) PROVE u \in units
    <3>1. PICK i \in Reach(dir) : u \in Held(files[i].data)
      BY <1>1 DEF LogInv, Present
    <3>2. PICK n \in DOMAIN dir : i = dir[n]
      BY DEF Reach
    <3>. QED BY <2>1, <3>1, <3>2 DEF Held
  <2>. HIDE DEF units
  <2>4. batchStart..(End - 1) \subseteq units /\ \A u \in units : u < End
    BY <2>2, <2>3
  <2>. QED BY <2>4 DEF EndExact, units, End
<1>2. FilesInOrder /\ EndExact => AppendExact
  BY DEF AppendExact
<1>. QED BY <1>1, <1>2, FilesInOrderHolds, LogInvariant, PTL

(* Once the directory entry of the active file is on the disk, sync()      *)
(* leaves every frame of every file on the disk, under a name that is      *)
(* there too; an entry left behind by another process is the only          *)
(* exception.                                                              *)
THEOREM SyncCoversHolds == Spec => []SyncCovers
<1>1. ASSUME StoreInv, LogInv PROVE SyncCovers
  <2>. SUFFICES ASSUME ~entryAtRisk, fpc = "synced" PROVE OnDisk = Visible
    BY DEF SyncCovers, SyncSurvives
  <2>1. fpc \in Found \ {"created"} /\ Active \in DOMAIN dir
    BY <1>1 DEF Found, Settled, Opened, StoreInv, Progress
  <2>2. dir = durableDir
    BY <1>1, <2>1 DEF LogInv, Entries
  <2>3. ASSUME NEW n \in DOMAIN dir PROVE files[dir[n]].data = files[dir[n]].durable
    <3>1. CASE n = Active
      BY <1>1, <3>1 DEF LogInv, InCall, ActiveData, Disk
    <3>2. CASE n # Active
      BY <1>1, <3>2 DEF StoreInv, Segments, Archives, Archived
    <3>. QED BY <3>1, <3>2
  <2>4. \A n \in DOMAIN dir : FramesOf(files[dir[n]].data) = FramesOf(files[durableDir[n]].durable)
    BY <2>2, <2>3
  <2>. QED BY <2>2, <2>4 DEF OnDisk, Visible
<1>. QED BY <1>1, LogInvariant, PTL

-----------------------------------------------------------------------------
(* The frames of a file are those that fit in its length.                  *)
LEMMA FrameCount ==
  ASSUME NEW s \in Seq(Nat), NEW i \in Nat \ {0}
  PROVE  /\ i \in 1..(Len(s) \div FrameUnits) <=> i * FrameUnits <= Len(s)
         /\ Whole(i * FrameUnits) /\ i * FrameUnits \in Nat
<1>0. FrameUnits \in Nat \ {0} /\ Len(s) \in Nat
  BY FileStoreAssumption
<1>. DEFINE q == Len(s) \div FrameUnits
            r == Len(s) % FrameUnits
            x == q * FrameUnits
            y == i * FrameUnits
<1>1. Len(s) = x + r /\ r \in 0..(FrameUnits - 1) /\ q \in Nat
  BY <1>0, DivMod
<1>2. x \in Nat /\ y \in Nat /\ (q >= i => (q - i) * FrameUnits = x - y) /\ (y < x + FrameUnits => i <= q)
  BY <1>0, <1>1, Product
<1>3. q >= i => (q - i) * FrameUnits \in Nat
  BY <1>0, <1>1, Product
<1>4. Whole(y)
  BY <1>2 DEF Whole
<1>. HIDE DEF q, r, x, y
<1>5. i <= q <=> y <= Len(s)
  <2>1. ASSUME i <= q PROVE y <= Len(s)
    <3>1. x - y \in Nat
      BY <1>1, <1>2, <1>3, <2>1
    <3>. QED BY <1>0, <1>1, <1>2, <3>1
  <2>2. ASSUME y <= Len(s) PROVE i <= q
    BY <1>0, <1>1, <1>2, <2>2
  <2>. QED BY <2>1, <2>2
<1>6. i \in 1..q <=> y <= Len(s)
  BY <1>1, <1>5
<1>. QED BY <1>2, <1>4, <1>6 DEF q, y

(* A whole frame divided by its length is its number.                      *)
LEMMA DivExact ==
  ASSUME NEW n \in Nat
  PROVE  (n * FrameUnits) \div FrameUnits = n
<1>0. FrameUnits \in Nat \ {0} /\ n * FrameUnits \in Nat
  BY FileStoreAssumption, Product
<1>. DEFINE x == n * FrameUnits
            q == x \div FrameUnits
            r == x % FrameUnits
            y == q * FrameUnits
<1>1. x = y + r /\ r \in 0..(FrameUnits - 1) /\ q \in Nat
  BY <1>0, DivMod
<1>2. y \in Nat /\ (x < y + FrameUnits => n <= q) /\ (y < x + FrameUnits => q <= n)
  BY <1>0, <1>1, Product
<1>3. x \in Nat
  BY <1>0
<1>. HIDE DEF x, y, r, q
<1>4. n <= q /\ q <= n
  BY <1>0, <1>1, <1>2, <1>3
<1>5. q = n
  BY <1>1, <1>4
<1>. QED BY <1>5 DEF q, x

(* Frames are ordered as their first units are.                            *)
LEMMA FrameOrder ==
  ASSUME NEW f \in Nat, NEW g \in Nat
  PROVE  /\ f * FrameUnits \in Nat /\ g * FrameUnits \in Nat
         /\ f * FrameUnits < g * FrameUnits <=> f < g
<1>0. FrameUnits \in Nat \ {0}
  BY FileStoreAssumption
<1>. DEFINE x == f * FrameUnits
            y == g * FrameUnits
<1>1. /\ x \in Nat /\ y \in Nat /\ (x < y + FrameUnits => f <= g)
      /\ (y < x + FrameUnits => g <= f) /\ (f = g => x = y)
  BY <1>0, Product
<1>. HIDE DEF x, y
<1>2. x < y <=> f < g
  BY <1>0, <1>1
<1>. QED BY <1>1, <1>2 DEF x, y

(* Where the i-th frame starts and ends.                                   *)
LEMMA FramePlace ==
  ASSUME NEW i \in Nat \ {0}
  PROVE  /\ (i - 1) * FrameUnits \in Nat
         /\ (i - 1) * FrameUnits + FrameUnits = i * FrameUnits
<1>0. FrameUnits \in Nat \ {0} /\ i - 1 \in Nat
  BY FileStoreAssumption
<1>1. ((i - 1) + 1) * FrameUnits = (i - 1) * FrameUnits + 1 * FrameUnits
  BY <1>0, Product
<1>2. (i - 1) + 1 = i /\ 1 * FrameUnits = FrameUnits
  BY <1>0
<1>. QED BY <1>0, <1>1, <1>2, Product

(* A frame within the length of a file is whole and has the units of its   *)
(* number.                                                                 *)
LEMMA FrameIs ==
  ASSUME NEW s \in Seq(Nat), Framed(s), NEW i \in Nat \ {0}, i * FrameUnits <= Len(s)
  PROVE  /\ FrameAt(s, i) \in Nat
         /\ \A k \in 1..FrameUnits :
              /\ (i - 1) * FrameUnits + k \in 1..Len(s)
              /\ s[(i - 1) * FrameUnits + k] = FrameAt(s, i) * FrameUnits + k - 1
<1>0. FrameUnits \in Nat \ {0} /\ Len(s) \in Nat /\ i - 1 \in Nat
  BY FileStoreAssumption
<1>. DEFINE b == (i - 1) * FrameUnits
<1>1. b \in Nat /\ b + FrameUnits = i * FrameUnits
  BY FramePlace
<1>2. PICK n \in Nat : \A k \in 1..FrameUnits : b + k <= Len(s) => s[b + k] = n * FrameUnits + k - 1
  BY <1>0 DEF Framed
<1>. HIDE DEF b
<1>3. \A k \in 1..FrameUnits : b + k \in 1..Len(s) /\ b + k <= Len(s)
  BY <1>0, <1>1
<1>4. \A k \in 1..FrameUnits : s[b + k] = n * FrameUnits + k - 1
  BY <1>2, <1>3
<1>5. n * FrameUnits \in Nat /\ (n * FrameUnits) \div FrameUnits = n
  BY <1>0, Product, DivExact
<1>6. s[b + 1] = n * FrameUnits
  <2>. DEFINE z == n * FrameUnits
  <2>1. s[b + 1] = z + 1 - 1 /\ z \in Nat
    BY <1>0, <1>4, <1>5
  <2>. HIDE DEF z
  <2>2. s[b + 1] = z
    BY <2>1
  <2>. QED BY <2>2 DEF z
<1>7. s[b + 1] \div FrameUnits = n
  BY <1>5, <1>6
<1>8. FrameAt(s, i) = n
  BY <1>4, <1>7 DEF FrameAt, b
<1>. QED BY <1>3, <1>4, <1>8 DEF b

(* Files that agree up to a frame have that frame in common.               *)
LEMMA FrameSame ==
  ASSUME NEW s, NEW t, NEW i \in Nat \ {0}, \A p \in 1..(i * FrameUnits) : t[p] = s[p]
  PROVE  FrameAt(t, i) = FrameAt(s, i)
<1>0. FrameUnits \in Nat \ {0}
  BY FileStoreAssumption
<1>. DEFINE b == (i - 1) * FrameUnits
            e == i * FrameUnits
<1>1. b \in Nat /\ b + FrameUnits = e
  BY FramePlace
<1>2. \A p \in 1..e : t[p] = s[p]
  OBVIOUS
<1>. HIDE DEF b, e
<1>3. \A k \in 1..FrameUnits : b + k \in 1..e
  BY <1>0, <1>1
<1>4. \A k \in 1..FrameUnits : t[b + k] = s[b + k]
  BY <1>2, <1>3
<1>5. t[b + 1] = s[b + 1]
  BY <1>0, <1>4
<1>. QED BY <1>4, <1>5 DEF FrameAt, b

(* A file that keeps the whole frames of another has all its frames.       *)
LEMMA FramesKept ==
  ASSUME NEW s \in Seq(Nat), NEW t \in Seq(Nat), Kept(s, t), NEW i \in 1..(Len(t) \div FrameUnits)
  PROVE  i \in 1..(Len(s) \div FrameUnits) /\ FrameAt(t, i) = FrameAt(s, i)
<1>0. i \in Nat \ {0}
  <2>1. Len(t) \div FrameUnits \in Nat
    BY DivMod, FileStoreAssumption
  <2>. QED BY <2>1
<1>. DEFINE w == i * FrameUnits
<1>1. w \in Nat /\ Whole(w) /\ w <= Len(t)
  BY <1>0, FrameCount
<1>2. w <= Len(s) /\ \A p \in 1..w : s[p] = t[p]
  BY <1>1 DEF Kept
<1>3. i \in 1..(Len(s) \div FrameUnits)
  BY <1>0, <1>2, FrameCount
<1>4. \A p \in 1..(i * FrameUnits) : t[p] = s[p]
  BY <1>2
<1>. HIDE DEF w
<1>. QED BY <1>0, <1>3, <1>4, FrameSame

(* The same, of all the frames.                                            *)
LEMMA FramesWithin ==
  ASSUME NEW s \in Seq(Nat), NEW t \in Seq(Nat), Kept(s, t)
  PROVE  FramesOf(t) \subseteq FramesOf(s)
<1>. SUFFICES ASSUME NEW i \in 1..(Len(t) \div FrameUnits) PROVE FrameAt(t, i) \in FramesOf(s)
  BY DEF FramesOf
<1>1. i \in 1..(Len(s) \div FrameUnits) /\ FrameAt(t, i) = FrameAt(s, i)
  BY FramesKept
<1>. QED BY <1>1 DEF FramesOf

(* The frames of a file, by their place.                                   *)
LEMMA FramesAre ==
  ASSUME NEW s \in Seq(Nat), Framed(s), NEW f \in FramesOf(s)
  PROVE  \E i \in Nat \ {0} :
           /\ f = FrameAt(s, i) /\ i * FrameUnits <= Len(s) /\ f \in Nat
           /\ \A k \in 1..FrameUnits :
                /\ (i - 1) * FrameUnits + k \in 1..Len(s)
                /\ s[(i - 1) * FrameUnits + k] = f * FrameUnits + k - 1
<1>1. PICK i \in 1..(Len(s) \div FrameUnits) : f = FrameAt(s, i)
  BY DEF FramesOf
<1>2. i \in Nat \ {0}
  <2>1. Len(s) \div FrameUnits \in Nat
    BY DivMod, FileStoreAssumption
  <2>. QED BY <2>1
<1>3. i * FrameUnits <= Len(s)
  BY <1>2, FrameCount
<1>. QED BY <1>1, <1>2, <1>3, FrameIs

(* A frame's first and last units are in its file.                         *)
LEMMA FrameHeld ==
  ASSUME NEW s \in Seq(Nat), Framed(s), NEW f \in FramesOf(s)
  PROVE  f \in Nat /\ f * FrameUnits \in Held(s) /\ f * FrameUnits + FrameUnits - 1 \in Held(s)
<1>0. FrameUnits \in Nat \ {0}
  BY FileStoreAssumption
<1>1. PICK i \in Nat \ {0} :
        /\ f = FrameAt(s, i) /\ i * FrameUnits <= Len(s) /\ f \in Nat
        /\ \A k \in 1..FrameUnits :
             /\ (i - 1) * FrameUnits + k \in 1..Len(s)
             /\ s[(i - 1) * FrameUnits + k] = f * FrameUnits + k - 1
  BY FramesAre
<1>. DEFINE b == (i - 1) * FrameUnits
            z == f * FrameUnits
<1>2. z \in Nat
  BY <1>0, <1>1, Product
<1>3. \A k \in 1..FrameUnits : b + k \in 1..Len(s) /\ s[b + k] = z + k - 1
  BY <1>1
<1>. HIDE DEF b, z
<1>4. z + 1 - 1 \in Held(s) /\ z + FrameUnits - 1 \in Held(s)
  <2>1. 1 \in 1..FrameUnits /\ FrameUnits \in 1..FrameUnits
    BY <1>0
  <2>. QED BY <1>3, <2>1 DEF Held
<1>5. z \in Held(s)
  BY <1>2, <1>4
<1>. QED BY <1>1, <1>4, <1>5 DEF z

(* A file without units has no frames.                                     *)
LEMMA NoFrames == FramesOf(<<>>) = {}
<1>1. 0 \div FrameUnits = 0
  <2>1. (0 * FrameUnits) \div FrameUnits = 0
    BY DivExact
  <2>2. 0 * FrameUnits = 0
    BY FileStoreAssumption
  <2>. QED BY <2>1, <2>2
<1>2. 1..(Len(<<>>) \div FrameUnits) = {}
  BY <1>1
<1>. QED BY <1>2 DEF FramesOf

-----------------------------------------------------------------------------
(* The log by files rather than by names.                                  *)
LEMMA LogFiles ==
  /\ \A f : f \in Visible <=> \E i \in Reach(dir) : f \in FramesOf(files[i].data)
  /\ \A f : f \in OnDisk <=> \E i \in Reach(durableDir) : f \in FramesOf(files[i].durable)
  BY DEF Visible, OnDisk, Reach

(* The same after a step.                                                  *)
LEMMA LogFilesNext ==
  /\ \A f : f \in Visible' <=> \E i \in Reach(dir)' : f \in FramesOf(files'[i].data)
  /\ \A f : f \in OnDisk' <=> \E i \in Reach(durableDir)' : f \in FramesOf(files'[i].durable)
  BY DEF Visible, OnDisk, Reach

(* The log is unchanged when the frames of the files led to are.           *)
LEMMA LogVisibleSame ==
  ASSUME Reach(dir)' = Reach(dir),
         \A i \in Reach(dir) : FramesOf(files'[i].data) = FramesOf(files[i].data)
  PROVE  Visible' = Visible
<1>1. \A f : f \in Visible' <=> f \in Visible
  BY LogFiles, LogFilesNext
<1>. QED BY <1>1

(* So is its part on the disk.                                             *)
LEMMA LogOnDiskSame ==
  ASSUME Reach(durableDir)' = Reach(durableDir),
         \A i \in Reach(durableDir) : files'[i].durable = files[i].durable
  PROVE  OnDisk' = OnDisk
<1>1. \A f : f \in OnDisk' <=> f \in OnDisk
  BY LogFiles, LogFilesNext
<1>. QED BY <1>1

(* A step after which the disk holds all the page cache held.              *)
LEMMA LogSynced ==
  ASSUME Reach(dir)' = Reach(dir), Reach(durableDir)' = Reach(dir),
         \A i \in Reach(dir) : files'[i].data = files[i].data /\ files'[i].durable = files[i].data
  PROVE  Log!Sync
<1>1. Visible' = Visible
  BY LogVisibleSame
<1>2. \A f : f \in OnDisk' <=> f \in Visible
  BY LogFiles, LogFilesNext
<1>3. OnDisk' = Visible
  BY <1>2
<1>. QED BY <1>1, <1>3 DEF Log!Sync

(* Steps that touch no file and lead to the same ones are invisible.       *)
LEMMA LogUntouched ==
  ASSUME UNCHANGED files, Reach(dir)' = Reach(dir), Reach(durableDir)' = Reach(durableDir)
  PROVE  UNCHANGED <<Visible, OnDisk>>
<1>1. Visible' = Visible
  BY LogVisibleSame
<1>2. OnDisk' = OnDisk
  BY LogOnDiskSame
<1>. QED BY <1>1, <1>2

(* A file just created adds no frame.                                      *)
LEMMA CreationInvisible ==
  ASSUME StoreInv, OpenActiveFile
  PROVE  UNCHANGED <<Visible, OnDisk>>
<1>0. FileTypes /\ durableDir' = durableDir
  BY DEF StoreInv, OpenActiveFile
<1>1. CASE Active \in DOMAIN dir
  <2>1. UNCHANGED <<files, dir>>
    BY <1>1 DEF OpenActiveFile
  <2>2. Reach(dir)' = Reach(dir) /\ Reach(durableDir)' = Reach(durableDir)
    BY <1>0, <2>1 DEF Reach
  <2>. QED BY <2>1, <2>2, LogUntouched
<1>2. CASE Active \notin DOMAIN dir
  <2>0. PICK new : new = Len(files) + 1
    OBVIOUS
  <2>1. Created
    BY <1>0, <1>2, CreatedIs
  <2>2. Reach(dir)' = Reach(dir) \cup {new} /\ Reach(durableDir)' = Reach(durableDir)
    BY <1>0, <2>0, <2>1, CreatedReach
  <2>3. /\ \A i \in Reach(dir) : files'[i] = files[i]
        /\ \A i \in Reach(durableDir) : files'[i] = files[i]
        /\ files'[new].data = <<>>
    BY <1>0, <2>0, <2>1, ReachIs DEF Created
  <2>4. FramesOf(files'[new].data) = {}
    BY <2>3, NoFrames
  <2>5. \A f : f \in Visible' <=> f \in Visible
    BY <2>2, <2>3, <2>4, LogFiles, LogFilesNext
  <2>6. Visible' = Visible
    BY <2>5
  <2>7. OnDisk' = OnDisk
    BY <2>2, <2>3, LogOnDiskSame
  <2>. QED BY <2>6, <2>7
<1>. QED BY <1>1, <1>2

(* recoverPartialFrame() cuts off no whole frame.                          *)
LEMMA RecoveryInvisible ==
  ASSUME StoreInv, RecoverPartialFrame
  PROVE  UNCHANGED <<Visible, OnDisk>>
<1>. DEFINE size == Len(ActiveData)
            cut == size - (size % FrameUnits)
            s == ActiveData
            d == SubSeq(s, 1, cut)
            e == files[dir[Active]].durable
            r == [data |-> d, durable |-> e]
<1>0. /\ fpc = "recover" /\ files' = [files EXCEPT ![dir[Active]] = r]
      /\ UNCHANGED <<dir, durableDir>>
  BY DEF RecoverPartialFrame
<1>1. Active \in DOMAIN dir /\ FileTypes
  BY <1>0 DEF StoreInv, Progress, Found, Settled, Opened
<1>2. s \in Seq(Nat) /\ e \in Seq(Nat) /\ size \in Nat
  BY <1>1, ActiveIs DEF Disk
<1>3. cut \in 0..size /\ \A w : Whole(w) /\ w <= size => w <= cut
  <2>1. Whole(cut) /\ cut <= size /\ \A w : Whole(w) /\ w <= size => w <= cut
    BY <1>2, Floor
  <2>2. cut \in Nat
    BY <2>1, WholeIs
  <2>. HIDE DEF size, cut
  <2>. QED BY <1>2, <2>1, <2>2
<1>4. size = Len(s)
  OBVIOUS
<1>. HIDE DEF cut
<1>5. d \in Seq(Nat) /\ Len(d) = cut /\ \A p \in 1..cut : d[p] = s[p]
  BY <1>2, <1>3
<1>6. r \in Inode /\ r.data = d /\ r.durable = e
  BY <1>2, <1>5 DEF Inode
<1>. HIDE DEF d, e, r, s, size
<1>7. Rewritten(r)
  BY <1>0, <1>1, <1>6, RewriteActive
<1>8. Kept(s, d) /\ Kept(d, s)
  <2>1. ASSUME NEW w \in Nat, Whole(w), w <= Len(d)
        PROVE  w <= Len(s) /\ \A p \in 1..w : s[p] = d[p]
    BY <1>2, <1>3, <1>4, <1>5, <2>1
  <2>2. ASSUME NEW w \in Nat, Whole(w), w <= Len(s)
        PROVE  w <= Len(d) /\ \A p \in 1..w : d[p] = s[p]
    <3>1. w <= cut
      BY <1>3, <1>4, <2>2
    <3>. QED BY <1>3, <1>5, <3>1
  <2>. QED BY <2>1, <2>2 DEF Kept
<1>9. FramesOf(d) = FramesOf(s)
  <2>1. FramesOf(d) \subseteq FramesOf(s) /\ FramesOf(s) \subseteq FramesOf(d)
    BY <1>2, <1>5, <1>8, FramesWithin
  <2>. QED BY <2>1
<1>10. Reach(dir)' = Reach(dir) /\ Reach(durableDir)' = Reach(durableDir)
  BY <1>0 DEF Reach
<1>11. Visible' = Visible
  <2>1. ASSUME NEW i \in Reach(dir) PROVE FramesOf(files'[i].data) = FramesOf(files[i].data)
    <3>1. CASE i = dir[Active]
      BY <1>6, <1>7, <1>9, <3>1 DEF Rewritten, s, ActiveData
    <3>2. CASE i # dir[Active]
      BY <1>1, <1>7, <3>2, ReachIs DEF Rewritten
    <3>. QED BY <3>1, <3>2
  <2>. QED BY <1>10, <2>1, LogVisibleSame
<1>12. OnDisk' = OnDisk
  <2>1. ASSUME NEW i \in Reach(durableDir) PROVE files'[i].durable = files[i].durable
    <3>1. CASE i = dir[Active]
      BY <1>6, <1>7, <3>1 DEF Rewritten, e
    <3>2. CASE i # dir[Active]
      BY <1>1, <1>7, <3>2, ReachIs DEF Rewritten
    <3>. QED BY <3>1, <3>2
  <2>. QED BY <1>10, <2>1, LogOnDiskSame
<1>. QED BY <1>11, <1>12

(* fdatasync(): all of the log is on the disk, if the directory on the     *)
(* disk leads to the active file; if it does not, nothing changes for the  *)
(* disk.                                                                   *)
LEMMA FileSyncs ==
  ASSUME StoreInv, LogInv, RecoverSync \/ SyncChunk \/ Sync \/ RotateSync
  PROVE  Log!Sync \/ UNCHANGED <<Visible, OnDisk>>
<1>. DEFINE s == ActiveData
            a == dir[Active]
            r == [data |-> s, durable |-> s]
<1>0. /\ files' = [files EXCEPT ![dir[Active]] = r] /\ UNCHANGED <<dir, durableDir>>
      /\ fpc \in {"recoverSync", "sync", "idle", "rotate"}
  BY DEF RecoverSync, SyncChunk, Sync, RotateSync, SyncFile
<1>1. Active \in DOMAIN dir /\ FileTypes /\ Segments /\ Entries
  BY <1>0 DEF StoreInv, LogInv, Progress, Found, Settled, Opened
<1>2. r \in Inode /\ r.data = s /\ r.durable = s
  BY <1>1, ActiveIs DEF Inode
<1>. HIDE DEF r, s
<1>3. Rewritten(r)
  BY <1>0, <1>1, <1>2, RewriteActive
<1>4. Reach(dir)' = Reach(dir) /\ Reach(durableDir)' = Reach(durableDir)
  BY <1>0 DEF Reach
<1>5. \A i \in 1..Len(files) : files'[i].data = files[i].data
  BY <1>2, <1>3 DEF Rewritten, s, ActiveData
<1>6. CASE a \in Reach(durableDir)
  <2>1. PICK n \in DOMAIN durableDir : durableDir[n] = a
    BY <1>6 DEF Reach
  <2>2. n = Active
    BY <1>1, <2>1 DEF Segments, Archives
  <2>3. dir = durableDir
    BY <1>1, <2>1, <2>2 DEF Entries
  <2>4. ASSUME NEW i \in Reach(dir) PROVE files'[i].durable = files[i].data
    <3>1. CASE i = a
      BY <1>2, <1>3, <3>1 DEF Rewritten, s, ActiveData
    <3>2. CASE i # a
      <4>1. PICK m \in Archives(dir) : i = dir[m]
        BY <1>1, <3>2, ActiveNewest
      <4>2. files[i].data = files[i].durable
        BY <1>1, <4>1 DEF Segments, Archived
      <4>. QED BY <1>1, <1>3, <3>2, <4>2, ReachIs DEF Rewritten
    <3>. QED BY <3>1, <3>2
  <2>5. \A i \in Reach(dir) : files'[i].data = files[i].data
    BY <1>1, <1>5, ReachIs
  <2>6. Reach(durableDir)' = Reach(dir)
    BY <1>4, <2>3
  <2>. QED BY <1>4, <2>4, <2>5, <2>6, LogSynced
<1>7. CASE a \notin Reach(durableDir)
  <2>1. Visible' = Visible
    BY <1>1, <1>4, <1>5, ReachIs, LogVisibleSame
  <2>2. \A i \in Reach(durableDir) : files'[i].durable = files[i].durable
    BY <1>1, <1>3, <1>7, ReachIs DEF Rewritten
  <2>3. OnDisk' = OnDisk
    BY <1>4, <2>2, LogOnDiskSame
  <2>. QED BY <2>1, <2>3
<1>. QED BY <1>6, <1>7

(* fsync() of the directory, which comes when every file is synced: the    *)
(* archives are, and the active file has just been created or renamed.     *)
LEMMA DirectorySyncs ==
  ASSUME StoreInv, LogInv, SyncCreated \/ RotateSyncDirectory
  PROVE  Log!Sync
<1>0. UNCHANGED <<files, dir>> /\ durableDir' = dir /\ fpc \in {"created", "renamed"}
  BY DEF SyncCreated, RotateSyncDirectory, SyncDirectory
<1>1. Reach(dir)' = Reach(dir) /\ Reach(durableDir)' = Reach(dir)
  BY <1>0 DEF Reach
<1>2. ASSUME NEW i \in Reach(dir) PROVE files[i].durable = files[i].data
  <2>1. PICK n \in DOMAIN dir : i = dir[n]
    BY DEF Reach
  <2>2. CASE n = Active
    BY <1>0, <2>1, <2>2 DEF LogInv, InCall, ActiveData, Disk
  <2>3. CASE n # Active
    BY <2>1, <2>3 DEF StoreInv, Segments, Archives, Archived
  <2>. QED BY <2>2, <2>3
<1>. QED BY <1>0, <1>1, <1>2, LogSynced

(* The log holds whole frames.                                             *)
LEMMA VisibleNat ==
  ASSUME StoreInv, LogInv
  PROVE  Visible \subseteq Nat
<1>. SUFFICES ASSUME NEW i \in Reach(dir), NEW f \in FramesOf(files[i].data) PROVE f \in Nat
  BY LogFiles
<1>1. files[i].data \in Seq(Nat)
  BY ReachIs, UnitsAre DEF StoreInv
<1>2. Framed(files[i].data)
  BY DEF LogInv, Contents, Content
<1>. QED BY <1>1, <1>2, FrameHeld

(* Frames by their last units.                                             *)
LEMMA LastUnits ==
  ASSUME NEW f \in Nat, NEW g \in Nat, NEW e \in Nat,
         f * FrameUnits + FrameUnits - 1 < e, e <= g * FrameUnits + FrameUnits - 1
  PROVE  f < g
<1>0. FrameUnits \in Nat \ {0}
  BY FileStoreAssumption
<1>. DEFINE x == f * FrameUnits
            y == g * FrameUnits
<1>1. x \in Nat /\ y \in Nat /\ (x < y <=> f < g)
  BY FrameOrder
<1>2. x + FrameUnits - 1 < e /\ e <= y + FrameUnits - 1
  OBVIOUS
<1>. HIDE DEF x, y
<1>. QED BY <1>0, <1>1, <1>2

(* write(): a frame that becomes whole is later than all the others.       *)
LEMMA WriteExtends ==
  ASSUME StoreInv, LogInv, LogInv', Write
  PROVE  Log!Extend
<1>0. PICK n \in 1..(chunkBytes - writtenBytes), r \in Inode : Written(n, r)
  BY WriteIs
<1>1. Active \in DOMAIN dir /\ FileTypes /\ UNCHANGED <<dir, durableDir>>
  BY WriteIs DEF Write
<1>. DEFINE s == ActiveData
            d == r.data
<1>2. s \in Seq(Nat) /\ d \in Seq(Nat) /\ Len(s) \in Nat /\ dir[Active] \in Reach(dir)
  BY <1>1, ActiveIs, ReachIs DEF Inode
<1>3. Rewritten(r) /\ r.durable = files[dir[Active]].durable
  BY <1>0 DEF Written
<1>4. /\ Len(d) = Len(s) + n /\ (\A p \in 1..Len(s) : d[p] = s[p])
      /\ \A k \in 1..n : d[Len(s) + k] = End + k - 1
  BY <1>0 DEF Written
<1>5. End \in Nat /\ n \in Nat
  <2>1. End \in Nat /\ writtenBytes \in Nat /\ chunkBytes \in Nat
    BY EndIs, WholeIs DEF StoreInv, CallTypes
  <2>. QED BY <2>1
<1>6. Reach(dir)' = Reach(dir) /\ Reach(durableDir)' = Reach(durableDir)
  BY <1>1 DEF Reach
<1>7. Framed(d)
  BY <1>2, <1>3, <1>6 DEF LogInv, Contents, Content, Rewritten
<1>8. \A i \in Reach(dir) : i # dir[Active] => files'[i] = files[i]
  BY <1>1, <1>3, ReachIs DEF Rewritten
<1>9. files[dir[Active]].data = s /\ files'[dir[Active]].data = d
  BY <1>3 DEF Rewritten, ActiveData
<1>. HIDE DEF s, d
<1>10. FramesOf(s) \subseteq FramesOf(d)
  <2>1. Kept(d, s)
    BY <1>2, <1>4, <1>5 DEF Kept
  <2>. QED BY <1>2, <2>1, FramesWithin
<1>11. OnDisk' = OnDisk
  <2>1. ASSUME NEW i \in Reach(durableDir) PROVE files'[i].durable = files[i].durable
    <3>1. CASE i = dir[Active]
      BY <1>3, <3>1 DEF Rewritten
    <3>2. CASE i # dir[Active]
      BY <1>1, <1>3, <3>2, ReachIs DEF Rewritten
    <3>. QED BY <3>1, <3>2
  <2>. QED BY <1>6, <2>1, LogOnDiskSame
<1>12. Visible \subseteq Visible'
  BY <1>6, <1>8, <1>9, <1>10, LogFiles, LogFilesNext
<1>13. ASSUME NEW g \in Visible', g \notin Visible
       PROVE  g \in FramesOf(d) /\ g \notin FramesOf(s)
  <2>1. PICK i \in Reach(dir) : g \in FramesOf(files'[i].data)
    BY <1>6, LogFilesNext
  <2>2. i = dir[Active]
    BY <1>8, <1>13, <2>1, LogFiles
  <2>. QED BY <1>2, <1>9, <1>13, <2>1, <2>2, LogFiles
<1>14. ASSUME NEW g \in FramesOf(d), g \notin FramesOf(s)
       PROVE  g \in Nat /\ End <= g * FrameUnits + FrameUnits - 1
  <2>0. FrameUnits \in Nat \ {0}
    BY FileStoreAssumption
  <2>1. PICK i \in Nat \ {0} :
          /\ g = FrameAt(d, i) /\ i * FrameUnits <= Len(d) /\ g \in Nat
          /\ \A k \in 1..FrameUnits :
               /\ (i - 1) * FrameUnits + k \in 1..Len(d)
               /\ d[(i - 1) * FrameUnits + k] = g * FrameUnits + k - 1
    BY <1>2, <1>7, FramesAre
  <2>2. ~(i * FrameUnits <= Len(s))
    <3>. SUFFICES ASSUME i * FrameUnits <= Len(s) PROVE FALSE
      OBVIOUS
    <3>1. i \in 1..(Len(s) \div FrameUnits) /\ i * FrameUnits \in Nat
      BY <1>2, FrameCount
    <3>2. \A p \in 1..(i * FrameUnits) : d[p] = s[p]
      <4>. DEFINE w == i * FrameUnits
      <4>1. w \in Nat /\ w <= Len(s)
        BY <3>1
      <4>. HIDE DEF w
      <4>2. \A p \in 1..w : p \in 1..Len(s)
        BY <1>2, <4>1
      <4>. QED BY <1>4, <4>2 DEF w
    <3>3. FrameAt(d, i) = FrameAt(s, i)
      BY <3>2, FrameSame
    <3>4. g \in FramesOf(s)
      BY <2>1, <3>1, <3>3 DEF FramesOf
    <3>. QED BY <1>14, <3>4
  <2>. DEFINE w == i * FrameUnits
              b == (i - 1) * FrameUnits
              z == g * FrameUnits
  <2>3. w \in Nat /\ w <= Len(s) + n /\ w > Len(s)
    BY <1>2, <1>4, <2>1, <2>2, FrameCount
  <2>4. b \in Nat /\ b + FrameUnits = w
    BY FramePlace
  <2>a. \A k \in 1..FrameUnits : d[b + k] = z + k - 1
    BY <2>1
  <2>. HIDE DEF w, b, z
  <2>5. d[b + FrameUnits] = z + FrameUnits - 1
    BY <2>0, <2>a
  <2>6. w - Len(s) \in 1..n /\ Len(s) + (w - Len(s)) = w
    BY <1>2, <1>5, <2>3
  <2>7. d[w] = End + (w - Len(s)) - 1
    BY <1>4, <2>6
  <2>8. End <= z + FrameUnits - 1
    BY <1>2, <1>5, <2>3, <2>4, <2>5, <2>6, <2>7
  <2>. QED BY <2>1, <2>8 DEF z
<1>15. ASSUME NEW f \in Visible PROVE f \in Nat /\ f * FrameUnits + FrameUnits - 1 < End
  <2>1. PICK i \in Reach(dir) : f \in FramesOf(files[i].data)
    BY LogFiles
  <2>2. files[i].data \in Seq(Nat)
    BY <1>1, ReachIs, UnitsAre
  <2>3. Framed(files[i].data) /\ \A u \in Held(files[i].data) : u < End
    BY DEF LogInv, Contents, Content, Units
  <2>4. f \in Nat /\ f * FrameUnits + FrameUnits - 1 \in Held(files[i].data)
    BY <2>1, <2>2, <2>3, FrameHeld
  <2>. QED BY <2>3, <2>4
<1>16. Visible' \subseteq Nat
  BY <1>13, <1>14, <1>15
<1>17. \A f \in Visible, g \in Visible' \ Visible : f < g
  <2>. SUFFICES ASSUME NEW f \in Visible, NEW g \in Visible' \ Visible PROVE f < g
    OBVIOUS
  <2>1. f \in Nat /\ f * FrameUnits + FrameUnits - 1 < End
    BY <1>15
  <2>2. g \in Nat /\ End <= g * FrameUnits + FrameUnits - 1
    BY <1>13, <1>14
  <2>. QED BY <1>5, <2>1, <2>2, LastUnits
<1>. QED BY <1>11, <1>12, <1>16, <1>17 DEF Log!Extend, Log!Before

(* Frames of one file are in the order of their places.                    *)
LEMMA PlacesRise ==
  ASSUME NEW s \in Seq(Nat), Framed(s), Rising(s), NEW k \in Nat \ {0}, NEW l \in Nat \ {0}, k < l,
         k * FrameUnits <= Len(s), l * FrameUnits <= Len(s)
  PROVE  FrameAt(s, k) < FrameAt(s, l)
<1>0. FrameUnits \in Nat \ {0}
  BY FileStoreAssumption
<1>. DEFINE x == (k - 1) * FrameUnits
            y == (l - 1) * FrameUnits
            f == FrameAt(s, k)
            g == FrameAt(s, l)
            u == f * FrameUnits
            v == g * FrameUnits
<1>1. f \in Nat /\ \A j \in 1..FrameUnits : x + j \in 1..Len(s) /\ s[x + j] = u + j - 1
  BY FrameIs
<1>2. g \in Nat /\ \A j \in 1..FrameUnits : y + j \in 1..Len(s) /\ s[y + j] = v + j - 1
  BY FrameIs
<1>3. x \in Nat /\ y \in Nat /\ x < y
  <2>1. k - 1 \in Nat /\ l - 1 \in Nat /\ k - 1 < l - 1
    OBVIOUS
  <2>. QED BY <2>1, FrameOrder
<1>4. u \in Nat /\ v \in Nat /\ (u < v <=> f < g)
  BY <1>1, <1>2, FrameOrder
<1>. HIDE DEF x, y, f, g, u, v
<1>5. /\ x + 1 \in 1..Len(s) /\ y + 1 \in 1..Len(s) /\ s[x + 1] = u + 1 - 1 /\ s[y + 1] = v + 1 - 1
  BY <1>0, <1>1, <1>2
<1>6. s[x + 1] < s[y + 1]
  BY <1>3, <1>5 DEF Rising
<1>7. f < g
  BY <1>4, <1>5, <1>6
<1>. QED BY <1>7 DEF f, g

(* Of one file a shorter version loses only later frames.                  *)
LEMMA TailLost ==
  ASSUME NEW s \in Seq(Nat), NEW t \in Seq(Nat), Framed(s), Rising(s), Kept(s, t),
         NEW f \in FramesOf(t), NEW g \in FramesOf(s), g \notin FramesOf(t)
  PROVE  f < g
<1>0. Len(s) \in Nat /\ Len(t) \in Nat
  OBVIOUS
<1>1. PICK k \in 1..(Len(t) \div FrameUnits) : f = FrameAt(t, k)
  BY DEF FramesOf
<1>2. PICK l \in Nat \ {0} : g = FrameAt(s, l) /\ l * FrameUnits <= Len(s)
  BY FramesAre
<1>3. k \in 1..(Len(s) \div FrameUnits) /\ f = FrameAt(s, k)
  BY <1>1, FramesKept
<1>4. k \in Nat \ {0}
  <2>1. Len(t) \div FrameUnits \in Nat
    BY <1>0, DivMod, FileStoreAssumption
  <2>. QED BY <2>1
<1>5. k * FrameUnits <= Len(t) /\ k * FrameUnits <= Len(s)
  BY <1>1, <1>3, <1>4, FrameCount
<1>6. ~(l * FrameUnits <= Len(t))
  <2>. SUFFICES ASSUME l * FrameUnits <= Len(t) PROVE FALSE
    OBVIOUS
  <2>1. l \in 1..(Len(t) \div FrameUnits)
    BY FrameCount
  <2>2. FrameAt(t, l) = FrameAt(s, l)
    BY <2>1, FramesKept
  <2>. QED BY <1>2, <2>1, <2>2 DEF FramesOf
<1>7. k < l
  <2>1. k * FrameUnits \in Nat /\ l * FrameUnits \in Nat /\ (k * FrameUnits < l * FrameUnits <=> k < l)
    BY <1>4, FrameOrder
  <2>. DEFINE x == k * FrameUnits
              y == l * FrameUnits
  <2>2. x \in Nat /\ y \in Nat /\ (x < y <=> k < l) /\ x <= Len(t) /\ ~(y <= Len(t))
    BY <1>5, <1>6, <2>1
  <2>. HIDE DEF x, y
  <2>. QED BY <1>0, <2>2
<1>. QED BY <1>2, <1>3, <1>4, <1>5, <1>7, PlacesRise

(* A loss of power takes a tail of the log: files the directory on the     *)
(* disk does not lead to, which are the newest, and the end of the active  *)
(* file, the only one not synced.                                          *)
LEMMA PowerLossTakesTail ==
  ASSUME StoreInv, LogInv, PowerLoss
  PROVE  Log!PowerLoss
<1>0. PICK d \in {dir, durableDir} : Lost(d)
  BY LostIs DEF LogInv
<1>1. FileTypes /\ Segments /\ Entries /\ Contents
  BY DEF StoreInv, LogInv
<1>2. \A i \in Reach(dir) : i \in 1..Len(files) /\ files[i].data \in Seq(Nat) /\ files[i].durable \in Seq(Nat)
  BY <1>1, ReachIs, UnitsAre
<1>3. /\ Reach(durableDir) \subseteq Reach(d) /\ Reach(d) \subseteq Reach(dir)
      /\ Reach(dir)' = Reach(d) /\ Reach(durableDir)' = Reach(d)
  <2>1. Reach(durableDir) \subseteq Reach(dir)
    BY <1>1 DEF Entries, Reach
  <2>2. Reach(durableDir) \subseteq Reach(d)
    BY <1>0, <2>1
  <2>. QED BY <1>0, <2>2 DEF Lost
<1>4. \A i \in Reach(dir) :
        /\ files'[i].data = files'[i].durable /\ files'[i].data \in Seq(Nat)
        /\ files[i].data = files[i].durable => files'[i].data = files[i].data
        /\ Framed(files'[i].data) /\ Held(files'[i].data) \subseteq Units(i)
        /\ Kept(files'[i].data, files[i].durable) /\ Kept(files[i].data, files'[i].data)
  BY <1>0 DEF Lost
<1>5. OnDisk \subseteq Visible'
  <2>. SUFFICES ASSUME NEW f \in OnDisk PROVE f \in Visible'
    OBVIOUS
  <2>1. PICK i \in Reach(durableDir) : f \in FramesOf(files[i].durable)
    BY LogFiles
  <2>2. i \in Reach(d) /\ i \in Reach(dir)
    BY <1>3
  <2>3. FramesOf(files[i].durable) \subseteq FramesOf(files'[i].data)
    BY <1>2, <1>4, <2>2, FramesWithin
  <2>. QED BY <1>3, <2>1, <2>2, <2>3, LogFilesNext
<1>6. Visible' \subseteq Visible
  <2>. SUFFICES ASSUME NEW f \in Visible' PROVE f \in Visible
    OBVIOUS
  <2>1. PICK i \in Reach(d) : f \in FramesOf(files'[i].data)
    BY <1>3, LogFilesNext
  <2>2. i \in Reach(dir)
    BY <1>3
  <2>3. FramesOf(files'[i].data) \subseteq FramesOf(files[i].data)
    BY <1>2, <1>4, <2>2, FramesWithin
  <2>. QED BY <2>1, <2>2, <2>3, LogFiles
<1>7. OnDisk' = Visible'
  <2>1. \A i \in Reach(d) : files'[i].data = files'[i].durable
    BY <1>3, <1>4
  <2>2. \A f : f \in OnDisk' <=> f \in Visible'
    BY <1>3, <2>1, LogFilesNext
  <2>. QED BY <2>2
<1>8. ASSUME NEW f \in Visible', NEW g \in Visible \ Visible' PROVE f < g
  <2>1. PICK i \in Reach(d) : f \in FramesOf(files'[i].data)
    BY <1>3, LogFilesNext
  <2>2. PICK j \in Reach(dir) : g \in FramesOf(files[j].data)
    BY LogFiles
  <2>3. i \in Reach(dir) /\ i \in Nat /\ j \in Nat
    <3>1. i \in Reach(dir) /\ i \in 1..Len(files) /\ j \in 1..Len(files)
      BY <1>2, <1>3
    <3>. QED BY <3>1
  <2>4. f \in Nat /\ f * FrameUnits \in Units(i)
    BY <1>4, <2>1, <2>3, FrameHeld
  <2>5. g \in Nat /\ g * FrameUnits \in Units(j)
    <3>1. Framed(files[j].data)
      BY <1>1 DEF Contents, Content
    <3>. QED BY <1>2, <2>2, <3>1, FrameHeld DEF Units
  <2>6. CASE i < j
    <3>1. f * FrameUnits < g * FrameUnits
      BY <1>1, <2>3, <2>4, <2>5, <2>6 DEF Contents, Below
    <3>. QED BY <2>4, <2>5, <3>1, FrameOrder
  <2>7. CASE j \notin Reach(d)
    <3>1. d = durableDir
      BY <2>7
    <3>2. i < j
      BY <1>1, <2>7, <3>1 DEF Entries
    <3>. QED BY <2>6, <3>2
  <2>8. CASE j \in Reach(d)
    <3>1. g \notin FramesOf(files'[j].data)
      BY <1>3, <1>8, <2>8, LogFilesNext
    <3>2. files[j].data # files[j].durable
      BY <1>4, <2>2, <3>1
    <3>3. PICK n \in DOMAIN dir : j = dir[n]
      BY DEF Reach
    <3>4. n = Active
      BY <1>1, <3>2, <3>3 DEF Segments, Archives, Archived
    <3>5. CASE i = j
      <4>1. Framed(files[j].data) /\ Rising(files[j].data)
        BY <1>1 DEF Contents, Content
      <4>2. f \in FramesOf(files'[j].data)
        BY <2>1, <3>5
      <4>3. files[j].data \in Seq(Nat) /\ files'[j].data \in Seq(Nat) /\ Kept(files[j].data, files'[j].data)
        BY <1>2, <1>4
      <4>. QED BY <2>2, <3>1, <4>1, <4>2, <4>3, TailLost
    <3>6. CASE i # j
      <4>1. i < j
        BY <1>1, <2>3, <3>3, <3>4, <3>6, ActiveNewest
      <4>. QED BY <2>6, <4>1
    <3>. QED BY <3>5, <3>6
  <2>. QED BY <2>7, <2>8
<1>9. \A f \in Visible', g \in Visible \ Visible' : f < g
  BY <1>8
<1>. QED BY <1>5, <1>6, <1>7, <1>9 DEF Log!PowerLoss, Log!Before

(* The log at first is what was found, all of it on the disk.              *)
LEMMA LogStarts == Init => Log!Init
<1>. SUFFICES ASSUME Init PROVE Log!Init
  OBVIOUS
<1>1. Visible \subseteq Nat
  BY StoreInit, LogInit, VisibleNat
<1>2. durableDir = dir /\ \A n \in DOMAIN dir : files[dir[n]].data = files[dir[n]].durable
  <2>1. PICK s \in InitialSizes :
          /\ files = IF s = 0 THEN <<>>
                     ELSE <<[data |-> FileUnits(0, s), durable |-> FileUnits(0, s)]>>
          /\ dir = [n \in IF s = 0 THEN {} ELSE {Active} |-> 1]
    BY DEF Init
  <2>2. durableDir = dir
    BY DEF Init
  <2>3. CASE s = 0
    BY <2>1, <2>2, <2>3
  <2>4. CASE s # 0
    <3>1. PICK u : u = FileUnits(0, s)
      OBVIOUS
    <3>2. files = <<[data |-> u, durable |-> u]>> /\ \A n \in DOMAIN dir : dir[n] = 1
      BY <2>1, <2>4, <3>1
    <3>3. files[1].data = u /\ files[1].durable = u
      BY <3>2
    <3>. QED BY <2>2, <3>2, <3>3
  <2>. QED BY <2>3, <2>4
<1>3. OnDisk = Visible
  BY <1>2 DEF OnDisk, Visible
<1>. QED BY <1>1, <1>3 DEF Log!Init

(* Every step of the store is a step of the log or is invisible to it.     *)
LEMMA LogSteps ==
  ASSUME StoreInv, LogInv, LogInv', [Next]_vars
  PROVE  [Log!Extend \/ Log!Sync \/ Log!PowerLoss]_(Log!logVars)
<1>. SUFFICES \/ Log!Extend \/ Log!Sync \/ Log!PowerLoss \/ UNCHANGED <<Visible, OnDisk>>
  BY DEF Log!logVars
<1>1. CASE OpenActiveFile
  BY <1>1, CreationInvisible
<1>2. CASE RecoverPartialFrame
  BY <1>2, RecoveryInvisible
<1>3. CASE RecoverSync \/ SyncChunk \/ Sync \/ RotateSync
  BY <1>3, FileSyncs
<1>4. CASE SyncCreated \/ RotateSyncDirectory
  BY <1>4, DirectorySyncs
<1>5. CASE Write
  BY <1>5, WriteExtends
<1>6. CASE PowerLoss
  BY <1>6, PowerLossTakesTail
<1>7. CASE RotateRename
  <2>1. Renamed
    BY <1>7, RenamedIs DEF LogInv
  <2>2. Reach(dir)' = Reach(dir) /\ Reach(durableDir)' = Reach(durableDir) /\ UNCHANGED files
    BY <2>1, RenamedReach DEF Renamed
  <2>. QED BY <2>2, LogUntouched
<1>8. CASE \/ OpenFile \/ AppendDone \/ StartRotation \/ NextChunk \/ ChunkWritten \/ Die
           \/ (\E n \in 1..MaxBatch : AppendFrames(n)) \/ UNCHANGED vars
  <2>1. UNCHANGED <<files, dir, durableDir>>
    <3>1. CASE NextChunk
      <4>1. ~(syncEvery # 0 /\ unsyncedBytes >= syncEvery)
        BY <3>1 DEF NextChunk, StoreInv, Cadence, CallTypes
      <4>. QED BY <3>1, <4>1 DEF NextChunk
    <3>2. CASE ~NextChunk
      BY <1>8, <3>2 DEF OpenFile, AppendDone, StartRotation, ChunkWritten, Die, AppendFrames, fsVars, vars
    <3>. QED BY <3>1, <3>2
  <2>2. Reach(dir)' = Reach(dir) /\ Reach(durableDir)' = Reach(durableDir)
    BY <2>1 DEF Reach
  <2>. QED BY <2>1, <2>2, LogUntouched
<1>. QED BY <1>1, <1>2, <1>3, <1>4, <1>5, <1>6, <1>7, <1>8 DEF Next, Step

(* The store implements the durable log: a write adds frames at the end or *)
(* none, a sync covers the log or nothing, a loss of power takes an        *)
(* unsynced tail, and every other step, the whole of rotate() and the      *)
(* recovery on open included, leaves the log as it is.                     *)
THEOREM StoreImplementsLog == Spec => ImplementsLog
<1>1. Init => Log!Init
  BY LogStarts
<1>2. (StoreInv /\ LogInv) /\ (StoreInv /\ LogInv)' /\ [Next]_vars
        => [Log!Extend \/ Log!Sync \/ Log!PowerLoss]_(Log!logVars)
  BY LogSteps
<1>. QED BY <1>1, <1>2, LogInvariant, PTL DEF Spec, ImplementsLog, Log!Spec
=============================================================================
