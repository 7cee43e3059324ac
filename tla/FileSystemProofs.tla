------------------------- MODULE FileSystemProofs -------------------------
(***************************************************************************)
(* The file system of src/disk2 is right for every geometry of the disk,   *)
(* all paths, buffers and lengths. First the descriptor table, then the    *)
(* types, then the inductive invariant FileSystemInv: every call is        *)
(* followed write by write, the disk between two writes owns its blocks    *)
(* once, and the disk after the last one is whole again. What the          *)
(* invariants of FileSystemProperties say is read off it at the end.       *)
(***************************************************************************)
EXTENDS DirectoryProofs

\* What a step keeps: every row of the table is a descriptor.
Row(r) == /\ r = [used |-> r.used, off |-> r.off, ino |-> r.ino]
          /\ r.used \in BOOLEAN /\ r.off \in 0 .. MaxBlocks
          /\ r.used => mounted
          /\ ~r.used => r = ClosedFd

\* The table has a row for every descriptor.
TableInv == fds = [f \in Fd |-> fds[f]] /\ \A f \in Fd : Row(fds[f])

---------------------------------------------------------------------------
\* The largest file has at least the direct blocks.
LEMMA MaxBlocksNat == MaxBlocks \in Nat /\ MaxBlocks >= 2
BY GeometryAssumption DEF MaxBlocks

\* An empty table is right, mounted or not.
LEMMA NoFdsRight == ASSUME fds' = NoFds PROVE TableInv'
<1>1. fds' = [f \in Fd |-> fds'[f]]
  BY DEF NoFds
<1>2. \A f \in Fd : Row(fds[f])'
  <2> TAKE f \in Fd
  <2>1. fds'[f] = ClosedFd
    BY DEF NoFds
  <2> QED
    BY <2>1, MaxBlocksNat DEF Row, ClosedFd
<1> QED
  BY <1>1, <1>2 DEF TableInv

\* A step that leaves the table and the mount alone keeps the table right.
LEMMA TableKept == ASSUME TableInv, UNCHANGED <<fds, mounted>> PROVE TableInv'
BY DEF TableInv, Row

\* A process that dies leaves an empty table.
LEMMA DeadRight == ASSUME NEW d, NEW harm, Dead(d, harm) PROVE TableInv'
BY NoFdsRight DEF Dead

\* A death between two writes leaves an empty table.
LEMMA DieInRight == ASSUME NEW ws, DieIn(ws) PROVE TableInv'
BY DeadRight DEF DieIn

\* A call that fails leaves the table alone.
LEMMA FailRight == ASSUME TableInv, Fail PROVE TableInv'
BY TableKept DEF Fail, Return

\* The look-up past the last name fails or kills the process.
LEMMA LookPastEndRight ==
  ASSUME TableInv, NEW path, LookPastEnd(path) PROVE TableInv'
BY FailRight, DeadRight DEF LookPastEnd

\* One row of the table changes, to a descriptor.
LEMMA RowChanged ==
  ASSUME TableInv, NEW f \in Fd, NEW r, mounted' = mounted, mounted,
         r = [used |-> r.used, off |-> r.off, ino |-> r.ino],
         r.used \in BOOLEAN, r.off \in 0 .. MaxBlocks, ~r.used => r = ClosedFd,
         fds' = [fds EXCEPT ![f] = r]
  PROVE  TableInv'
BY DEF TableInv, Row
---------------------------------------------------------------------------
\* MakeDir touches no descriptor.
LEMMA MakeDirRight == ASSUME TableInv, NEW p, MakeDir(p) PROVE TableInv'
BY TableKept, DieInRight, LookPastEndRight DEF MakeDir, Return

\* OpenFile fills the first unused row, with offset 0.
LEMMA OpenFileRight ==
  ASSUME TableInv, NEW p, NEW create, OpenFile(p, create) PROVE TableInv'
<1> DEFINE f == Least(FreeFds)
           opened(ino) == [used |-> TRUE, off |-> 0, ino |-> ino]
<1>1. mounted
  BY DEF OpenFile, Calling
<1>2. ASSUME NEW ino, NEW ws, NEW res,
             Return(ws, [fds EXCEPT ![f] = opened(ino)], res)
      PROVE  TableInv'
  <2> DEFINE r == opened(ino)
  <2>1. CASE f \in Fd
    <3>1. /\ r = [used |-> r.used, off |-> r.off, ino |-> r.ino]
          /\ r.used \in BOOLEAN /\ r.used /\ r.off \in 0 .. MaxBlocks
      BY MaxBlocksNat
    <3>2. mounted' = mounted /\ fds' = [fds EXCEPT ![f] = r]
      BY <1>2 DEF Return
    <3> HIDE DEF f, r
    <3> QED
      BY <1>1, <2>1, <3>1, <3>2, RowChanged
  <2>2. CASE f \notin Fd
    BY <1>2, <2>2, TableKept DEF TableInv, Return
  <2> QED
    BY <2>1, <2>2
<1> QED
  BY <1>2, FailRight, DieInRight DEF OpenFile

\* CloseFile zeroes its row.
LEMMA CloseFileRight == ASSUME TableInv, NEW f \in Fd, CloseFile(f) PROVE TableInv'
<1>1. CASE fds[f].used
  <2>1. mounted /\ mounted' = mounted /\ fds' = [fds EXCEPT ![f] = ClosedFd]
    BY <1>1 DEF CloseFile, Calling, Return
  <2>2. /\ ClosedFd = [used |-> ClosedFd.used, off |-> ClosedFd.off, ino |-> ClosedFd.ino]
        /\ ClosedFd.used \in BOOLEAN /\ ClosedFd.off \in 0 .. MaxBlocks
    BY MaxBlocksNat DEF ClosedFd
  <2> QED
    BY <2>1, <2>2, RowChanged
<1>2. CASE ~fds[f].used
  BY <1>2, FailRight DEF CloseFile
<1> QED
  BY <1>1, <1>2

\* A removal touches no descriptor.
LEMMA RemovedRight ==
  ASSUME TableInv, NEW ws, NEW w, NEW gave, Removed(ws, w, gave) PROVE TableInv'
BY TableKept, DieInRight DEF Removed

\* RemoveFile touches no descriptor.
LEMMA RemoveFileRight == ASSUME TableInv, NEW p, RemoveFile(p) PROVE TableInv'
BY FailRight, RemovedRight DEF RemoveFile

\* RemoveDir touches no descriptor.
LEMMA RemoveDirRight == ASSUME TableInv, NEW p, RemoveDir(p) PROVE TableInv'
BY FailRight, RemovedRight, LookPastEndRight DEF RemoveDir

\* Only the offset of a row changes, within a file.
LEMMA OffsetMoved ==
  ASSUME TableInv, NEW f \in Fd, NEW off \in 0 .. MaxBlocks, fds[f].used, mounted,
         mounted' = mounted, fds' = [fds EXCEPT ![f].off = off]
  PROVE  TableInv'
<1> DEFINE r == [used |-> fds[f].used, off |-> off, ino |-> fds[f].ino]
<1>1. [fds[f] EXCEPT !.off = off] = r
  BY DEF TableInv, Row
<1>2. fds' = [fds EXCEPT ![f] = r]
  BY <1>1
<1> QED
  BY <1>2, RowChanged DEF TableInv, Row

\* WriteFile moves the offset to the end of what it wrote.
LEMMA WriteFileRight ==
  ASSUME TableInv, NEW f \in Fd, NEW m \in WriteSizes, NEW v, WriteFile(f, m, v)
  PROVE  TableInv'
<1> DEFINE off == fds[f].off
           start == IF off + m <= MaxBlocks THEN off ELSE 0
<1>1. mounted /\ fds[f].used /\ (off + m <= MaxBlocks \/ m <= 2)
  BY DEF WriteFile, Calling
<1>2. off \in 0 .. MaxBlocks /\ m \in Nat
  BY FileSystemAssumption DEF TableInv, Row
<1>3. start + m \in 0 .. MaxBlocks
  BY <1>1, <1>2, MaxBlocksNat
<1>4. ASSUME NEW ws, Return(ws, [fds EXCEPT ![f].off = start + m], Ret(m))
      PROVE  TableInv'
  BY <1>1, <1>3, <1>4, OffsetMoved DEF Return
<1> QED
  BY <1>4, DieInRight DEF WriteFile

\* ReadFile moves the offset to the end of what it read.
LEMMA ReadFileRight ==
  ASSUME TableInv, NEW f \in Fd, NEW m \in WriteSizes, ReadFile(f, m) PROVE TableInv'
<1> DEFINE off == fds[f].off
<1>1. mounted /\ fds[f].used /\ off + m <= MaxBlocks
  BY DEF ReadFile, Calling
<1>2. off \in 0 .. MaxBlocks /\ m \in Nat
  BY FileSystemAssumption DEF TableInv, Row
<1>3. off + m \in 0 .. MaxBlocks
  BY <1>1, <1>2, MaxBlocksNat
<1>4. mounted' = mounted /\ fds' = [fds EXCEPT ![f].off = off + m]
  BY DEF ReadFile, Return
<1> QED
  BY <1>1, <1>3, <1>4, OffsetMoved

\* EnumerateDirStatus touches no descriptor.
LEMMA EnumerateRight == ASSUME TableInv, NEW p, EnumerateDirStatus(p) PROVE TableInv'
BY TableKept, FailRight DEF EnumerateDirStatus, Return

\* Every step keeps the table right.
LEMMA StepRight == ASSUME TableInv, [Next]_vars PROVE TableInv'
<1>1. CASE UNCHANGED vars
  BY <1>1, TableKept DEF vars
<1>2. ASSUME NEW p, MakeDir(p) \/ RemoveDir(p) \/ EnumerateDirStatus(p)
      PROVE  TableInv'
  BY <1>2, MakeDirRight, RemoveDirRight, EnumerateRight
<1>3. ASSUME NEW p, RemoveFile(p) \/ \E create \in BOOLEAN : OpenFile(p, create)
      PROVE  TableInv'
  BY <1>3, RemoveFileRight, OpenFileRight
<1>4. ASSUME NEW f \in Fd, CloseFile(f) PROVE TableInv'
  BY <1>4, CloseFileRight
<1>5. ASSUME NEW f \in Fd, NEW m \in WriteSizes,
             ReadFile(f, m) \/ \E v \in Payload : WriteFile(f, m, v)
      PROVE  TableInv'
  BY <1>5, ReadFileRight, WriteFileRight
<1>6. CASE MountFormat \/ MountReadWrite
  BY <1>6, NoFdsRight, DeadRight DEF MountFormat, MountReadWrite
<1>7. CASE Unmount
  BY <1>7, DeadRight DEF Unmount
<1> QED
  BY <1>1, <1>2, <1>3, <1>4, <1>5, <1>6, <1>7 DEF Next

\* The table starts empty.
LEMMA EmptyTable == Init => TableInv
<1>1. SUFFICES ASSUME Init PROVE TableInv
  OBVIOUS
<1>2. fds = [f \in Fd |-> fds[f]]
  BY <1>1 DEF Init, NoFds
<1>3. ASSUME NEW f \in Fd PROVE Row(fds[f])
  <2>1. fds[f] = ClosedFd
    BY <1>1 DEF Init, NoFds
  <2> QED
    BY <2>1, MaxBlocksNat DEF Row, ClosedFd
<1> QED
  BY <1>2, <1>3 DEF TableInv

\* In every geometry, for all paths and lengths, no offset ever leaves the
\* largest file, and what RemoveFile reads in closed descriptors is zero.
THEOREM DescriptorsAlwaysSound == Spec => []DescriptorsSound
<1>1. Init => TableInv
  BY EmptyTable
<1>2. TableInv /\ [Next]_vars => TableInv'
  BY StepRight
<1>3. TableInv => DescriptorsSound
  BY DEF TableInv, Row, DescriptorsSound
<1> QED
  BY <1>1, <1>2, <1>3, PTL DEF Spec

---------------------------------------------------------------------------
(* Every call keeps the types *)

\* The descriptor table's type.
FdsType == [Fd -> [used : BOOLEAN, off : Nat, ino : InodeNum]]

\* The type invariant with the table's type by its name.
LEMMA TypeParts ==
  TypeOK <=> /\ disk \in DiskType /\ fds \in FdsType
             /\ mounted \in BOOLEAN /\ damage \in {"none", "torn", "shrunk"}
BY DEF TypeOK, FdsType

\* The empty table has the table's type.
LEMMA NoFdsTyped == NoFds \in FdsType
BY FirstAre DEF NoFds, ClosedFd, FdsType

\* A death leaves typed what the disk it leaves is.
LEMMA DeadTyped ==
  ASSUME NEW d \in DiskType, NEW harm \in {"none", "torn", "shrunk"}, Dead(d, harm)
  PROVE  TypeOK'
BY NoFdsTyped DEF Dead, TypeOK, FdsType

\* A death in a call keeps the types.
LEMMA DieInTyped ==
  ASSUME TypeOK, NEW ws \in Seq(Writes), DieIn(ws)
  PROVE  TypeOK'
<1>1. PICK k \in 1 .. Len(ws) - 1 : Dead(After(disk, ws, k), "torn")
  BY DEF DieIn
<1>2. k \in 0 .. Len(ws)
  OBVIOUS
<1>3. After(disk, ws, k) \in DiskType
  BY <1>2, AfterTyped, TypeParts
<1> QED BY <1>1, <1>3, DeadTyped

\* A call that returns keeps the types.
LEMMA ReturnTyped ==
  ASSUME TypeOK, NEW ws \in Seq(Writes), NEW table \in FdsType, NEW res, Return(ws, table, res)
  PROVE  TypeOK'
<1>1. After(disk, ws, Len(ws)) \in DiskType
  <2>1. Len(ws) \in 0 .. Len(ws)
    OBVIOUS
  <2> QED BY <2>1, AfterTyped, TypeParts
<1> QED BY <1>1 DEF Return, TypeOK, FdsType

\* A call that fails keeps them.
LEMMA FailTyped == ASSUME TypeOK, Fail PROVE TypeOK'
<1>1. <<>> \in Seq(Writes) /\ fds \in FdsType
  BY TypeParts
<1> QED BY <1>1, ReturnTyped DEF Fail

\* So does one that looks for a name below a file.
LEMMA LookPastEndTyped == ASSUME TypeOK, NEW path, LookPastEnd(path) PROVE TypeOK'
<1>1. CASE Fail
  BY <1>1, FailTyped
<1>2. CASE Dead(disk, damage)
  BY <1>2, TypeParts, DeadTyped
<1> QED BY <1>1, <1>2 DEF LookPastEnd

\* Where a call finds room there are blocks and an inode.
LEMMA RoomGives ==
  ASSUME NEW n, Room(n, 1)
  PROVE  Enough(disk, n) /\ InodeNum \ disk.inodeMap # {}
<1>1. Cardinality(InodeNum \ disk.inodeMap) # 0
  BY DEF Room
<1>2. InodeNum \ disk.inodeMap # {}
  BY <1>1, FS_EmptySet
<1>3. Cardinality(FreeBlocks(disk)) >= n
  BY DEF Room, FreeBlocks
<1>4. Enough(disk, n)
  BY <1>3 DEF Enough
<1> QED BY <1>2, <1>4

\* A path followed, and the room for a name at its end.
LEMMA WalkTyped ==
  ASSUME disk \in DiskType, NEW p \in Path
  PROVE  LET w == Walk(disk, p)
             free == findName(disk, w.ino, "", w.place)
         IN  /\ w.ino \in InodeNum /\ w.dir \in InodeNum /\ w.place \in PlaceType
             /\ free \in PlaceType /\ w.n \in 0 .. Len(p)
             /\ w.n # Len(p) => p[w.n + 1] \in Name
<1> DEFINE w == Walk(disk, p)
<1>1. p \in Seq(Name) /\ Len(p) \in Nat
  BY PathIs
<1>2. WalkRight(disk, p, w)
  BY <1>1, WalkIsRight
<1> HIDE DEF w
<1>3. w.ino \in InodeNum /\ w.dir \in InodeNum /\ w.place \in PlaceType /\ w.n \in 0 .. Len(p)
  BY <1>2 DEF WalkRight
<1>4. findName(disk, w.ino, "", w.place) \in PlaceType
  BY <1>3, FindNameFinds
<1>5. w.n # Len(p) => p[w.n + 1] \in Name
  <2> DEFINE k == w.n + 1
  <2>1. w.n # Len(p) => k \in 1 .. Len(p)
    BY <1>1, <1>3
  <2> HIDE DEF k
  <2>2. w.n # Len(p) => p[k] \in Name
    BY <2>1, PathIs
  <2> QED BY <2>2 DEF k
<1> QED BY <1>3, <1>4, <1>5 DEF w

\* MakeDir keeps the types.
LEMMA MakeDirTypeKept == ASSUME TypeOK, NEW p \in DirPath, MakeDir(p) PROVE TypeOK'
<1> DEFINE w == Walk(disk, p)
           free == findName(disk, w.ino, "", w.place)
           g == Growth(disk, w.ino, free) + 1
           ws == myMakeDir(disk, p[w.n + 1], w.ino, free)
<1>1. disk \in DiskType /\ p \in Path /\ fds \in FdsType
  BY TypeParts DEF Path
<1>2. w.ino \in InodeNum /\ free \in PlaceType /\ (w.n # Len(p) => p[w.n + 1] \in Name)
  BY <1>1, WalkTyped
<1>3. CASE w.n = Len(p)
  <2>1. LookPastEnd(p)
    BY <1>3 DEF MakeDir
  <2> QED BY <2>1, LookPastEndTyped
<1>4. CASE w.n # Len(p)
  <2>1. Room(g, 1) /\ (Return(ws, fds, Ret(0)) \/ DieIn(ws))
    BY <1>4 DEF MakeDir
  <2>2. Enough(disk, g) /\ InodeNum \ disk.inodeMap # {}
    <3> HIDE DEF g
    <3> QED BY <2>1, RoomGives
  <2>3. ws \in Seq(Writes)
    <3>1. p[w.n + 1] \in Name
      BY <1>2, <1>4
    <3> DEFINE i == w.ino
               name == p[w.n + 1]
    <3>2. i \in InodeNum /\ name \in Name /\ free \in PlaceType
      BY <1>2, <3>1
    <3>3. Enough(disk, Growth(disk, i, free) + 1)
      BY <2>2
    <3> HIDE DEF w, free, i, name
    <3>4. myMakeDir(disk, name, i, free) \in Seq(Writes)
      BY <1>1, <2>2, <3>2, <3>3, MakeDirTyped
    <3> QED BY <3>4 DEF i, name
  <2> HIDE DEF ws
  <2> QED BY <1>1, <2>1, <2>3, ReturnTyped, DieInTyped
<1> QED BY <1>3, <1>4

\* The least free descriptor is one.
LEMMA FreeFdIs ==
  ASSUME FreeFds # {}
  PROVE  Least(FreeFds) \in Fd /\ Least(FreeFds) \in FreeFds
<1>1. FreeFds \subseteq Fd /\ Fd \subseteq Nat
  BY FileSystemAssumption DEF FreeFds, Fd
<1> QED BY <1>1, LeastIs

\* OpenFile keeps the types.
LEMMA OpenFileTypeKept ==
  ASSUME TypeOK, NEW p \in FilePath, NEW create \in BOOLEAN, OpenFile(p, create) PROVE TypeOK'
<1> DEFINE w == Walk(disk, p)
           free == findName(disk, w.ino, "", w.place)
           ws == myMakeFile(disk, p[w.n + 1], w.ino, free)
           f == Least(FreeFds)
           opened(ino) == [fds EXCEPT ![f] = [used |-> TRUE, off |-> 0, ino |-> ino]]
<1>1. disk \in DiskType /\ p \in Path /\ fds \in FdsType
  BY TypeParts DEF Path
<1>2. w.ino \in InodeNum /\ free \in PlaceType /\ (w.n # Len(p) => p[w.n + 1] \in Name)
  BY <1>1, WalkTyped
<1>3. \A ino \in InodeNum : opened(ino) \in FdsType
  <2> HIDE DEF f
  <2> QED BY <1>1 DEF FdsType
<1>4. CASE w.n = Len(p)
  <2>1. Return(<<>>, opened(w.ino), Ret(f))
    BY <1>4 DEF OpenFile
  <2>2. w.ino \in InodeNum
    BY <1>2
  <2> HIDE DEF opened, w
  <2>3. <<>> \in Seq(Writes) /\ opened(w.ino) \in FdsType
    BY <1>3, <2>2
  <2> DEFINE table == opened(w.ino)
             res == Ret(f)
  <2>4. Return(<<>>, table, res) /\ table \in FdsType
    BY <2>1, <2>3
  <2> HIDE DEF table, res
  <2> QED BY <2>3, <2>4, ReturnTyped
<1>5. CASE w.n # Len(p) /\ ~create
  BY <1>5, FailTyped DEF OpenFile
<1>6. CASE w.n # Len(p) /\ create
  <2>1. /\ Room(Growth(disk, w.ino, free), 1)
        /\ Return(ws, opened(GetFreeInodeNum(disk)), Ret(f)) \/ DieIn(ws)
    BY <1>6 DEF OpenFile
  <2>2. ws \in Seq(Writes)
    BY <1>1, <1>2, <1>6, <2>1, RoomGives, MakeFileTyped
  <2> HIDE DEF opened
  <2>3. opened(GetFreeInodeNum(disk)) \in FdsType
    BY <1>1, <1>3, <2>1, RoomGives, FreeInodeIsFree
  <2> HIDE DEF ws
  <2> QED BY <2>1, <2>2, <2>3, ReturnTyped, DieInTyped
<1> QED BY <1>4, <1>5, <1>6

\* CloseFile keeps them.
LEMMA CloseFileTypeKept == ASSUME TypeOK, NEW f \in Fd, CloseFile(f) PROVE TypeOK'
<1>1. fds \in FdsType /\ ClosedFd \in [used : BOOLEAN, off : Nat, ino : InodeNum]
  BY TypeParts, FirstAre DEF ClosedFd
<1>2. [fds EXCEPT ![f] = ClosedFd] \in FdsType /\ <<>> \in Seq(Writes)
  BY <1>1 DEF FdsType
<1> QED BY <1>2, ReturnTyped, FailTyped DEF CloseFile

\* What RemoveFile and RemoveDir have in common keeps them.
LEMMA RemovedTypeKept ==
  ASSUME TypeOK, NEW ws \in Seq(Writes), NEW w, NEW gave, Removed(ws, w, gave) PROVE TypeOK'
<1>1. After(disk, ws, Len(ws)) \in DiskType
  <2>1. Len(ws) \in 0 .. Len(ws)
    OBVIOUS
  <2> QED BY <2>1, AfterTyped, TypeParts
<1>2. CASE DieIn(ws)
  BY <1>2, DieInTyped
<1>3. CASE ~DieIn(ws)
  BY <1>1, <1>3 DEF Removed, TypeOK
<1> QED BY <1>2, <1>3

\* RemoveFile keeps them.
LEMMA RemoveFileTypeKept == ASSUME TypeOK, NEW p \in FilePath, RemoveFile(p) PROVE TypeOK'
<1> DEFINE w == Walk(disk, p)
           ws == myRemoveFile(disk, w.dir, w.place)
<1>1. disk \in DiskType /\ p \in Path
  BY TypeParts DEF Path
<1>2. w.dir \in InodeNum /\ w.place \in PlaceType
  BY <1>1, WalkTyped
<1>3. ws \in Seq(Writes)
  BY <1>1, <1>2, RemoveFileTyped
<1>4. Fail \/ Removed(ws, w, disk.inode[w.dir].direct[2] = w.place.blk)
  BY DEF RemoveFile
<1> HIDE DEF ws, w
<1> QED BY <1>3, <1>4, FailTyped, RemovedTypeKept

\* RemoveDir keeps them.
LEMMA RemoveDirTypeKept == ASSUME TypeOK, NEW p \in DirPath, RemoveDir(p) PROVE TypeOK'
<1> DEFINE w == Walk(disk, p)
           ws == myRemoveDir(disk, w.dir, w.place)
<1>1. disk \in DiskType /\ p \in Path
  BY TypeParts DEF Path
<1>2. w.dir \in InodeNum /\ w.place \in PlaceType
  BY <1>1, WalkTyped
<1>3. ws \in Seq(Writes)
  BY <1>1, <1>2, RemoveDirTyped
<1>4. \/ Fail
      \/ LookPastEnd(p)
      \/ Removed(ws, w, disk.inode[w.dir].direct[2] = w.place.blk \/ disk.inode[w.dir].indir # 0)
  BY DEF RemoveDir
<1> HIDE DEF ws, w
<1> QED BY <1>3, <1>4, FailTyped, LookPastEndTyped, RemovedTypeKept

\* The indices a write is for, and the blocks it has for them.
LEMMA WriteFileIs ==
  ASSUME NEW f \in Fd, NEW m \in WriteSizes, NEW v, TypeOK, TableInv, WriteFile(f, m, v)
  PROVE  \E start \in Nat, alloc \in Int :
           LET i == fds[f].ino
               to == start + m - 1
               ws == PutBlocks(disk, i, start, to, v) \o <<PutInfo(alloc, NumBlocks - alloc)>>
           IN  /\ Calling /\ fds[f].used /\ i \in InodeNum
               /\ to \in Nat /\ start <= to /\ to <= MaxBlocks - 1
               /\ Enough(disk, Cardinality(Wanted(disk, disk.inode[i], start .. to)))
               /\ Return(ws, [fds EXCEPT ![f].off = start + m], Ret(m)) \/ DieIn(ws)
<1> DEFINE i == fds[f].ino
           off == fds[f].off
           appends == off + m <= MaxBlocks
           start == IF appends THEN off ELSE 0
           allocated == Cardinality(Wanted(disk, disk.inode[i], start .. start + m - 1))
           count == IF appends THEN allocated ELSE allocated + m
           alloc == disk.info.alloc + allocated - (off - count)
           ws == PutBlocks(disk, i, start, start + m - 1, v)
                 \o <<PutInfo(alloc, NumBlocks - alloc)>>
<1>1. /\ Calling /\ fds[f].used /\ Room(allocated, 0)
      /\ appends \/ m <= 2
      /\ Return(ws, [fds EXCEPT ![f].off = start + m], Ret(m)) \/ DieIn(ws)
  BY DEF WriteFile
<1>2. off \in Nat /\ off <= MaxBlocks /\ i \in InodeNum
  BY TypeParts, MaxBlocksNat DEF TableInv, Row, FdsType
<1>3. m \in Nat \ {0} /\ MaxBlocks \in Nat /\ MaxBlocks >= 2
  BY FileSystemAssumption, MaxBlocksNat
<1> HIDE DEF off, i
<1>4. start \in Nat /\ start + m - 1 \in Nat /\ start <= start + m - 1 /\ start + m - 1 <= MaxBlocks - 1
  <2>1. CASE appends
    BY <1>2, <1>3, <2>1
  <2>2. CASE ~appends
    BY <1>1, <1>3, <2>2
  <2> QED BY <2>1, <2>2
<1> HIDE DEF start, appends
<1>5. allocated \in Nat
  <2> DEFINE to == start + m - 1
  <2>1. to \in Nat /\ start \in Nat
    BY <1>4
  <2> HIDE DEF to
  <2>2. Cardinality(Wanted(disk, disk.inode[i], start .. to)) \in Nat
    BY <2>1, WantedIs
  <2> QED BY <2>2 DEF to
<1>6. Enough(disk, allocated)
  <2> HIDE DEF allocated
  <2>1. Cardinality(FreeBlocks(disk)) >= allocated
    BY <1>1 DEF Room, FreeBlocks
  <2> QED BY <2>1 DEF Enough
<1>7. alloc \in Int
  <2>1. disk.info.alloc \in Int
    BY TypeParts, DiskParts DEF InfoType
  <2> HIDE DEF allocated
  <2> QED BY <1>2, <1>3, <1>5, <2>1
<1> HIDE DEF alloc
<1> QED BY <1>1, <1>2, <1>4, <1>6, <1>7 DEF i

\* WriteFile keeps them; its offset stays below the last pointer.
LEMMA WriteFileTypeKept ==
  ASSUME TypeOK, TableInv, NEW f \in Fd, NEW m \in WriteSizes, NEW v \in Payload, WriteFile(f, m, v)
  PROVE  TypeOK'
<1> DEFINE i == fds[f].ino
<1>1. PICK start \in Nat, alloc \in Int :
           LET to == start + m - 1
               ws == PutBlocks(disk, i, start, to, v) \o <<PutInfo(alloc, NumBlocks - alloc)>>
           IN  /\ Calling /\ fds[f].used /\ i \in InodeNum
               /\ to \in Nat /\ start <= to /\ to <= MaxBlocks - 1
               /\ Enough(disk, Cardinality(Wanted(disk, disk.inode[i], start .. to)))
               /\ Return(ws, [fds EXCEPT ![f].off = start + m], Ret(m)) \/ DieIn(ws)
  BY WriteFileIs
<1> DEFINE to == start + m - 1
           ws == PutBlocks(disk, i, start, to, v) \o <<PutInfo(alloc, NumBlocks - alloc)>>
           table == [fds EXCEPT ![f].off = start + m]
<1>2. Return(ws, table, Ret(m)) \/ DieIn(ws)
  BY <1>1
<1>3. PutBlocks(disk, i, start, to, v) \in Seq(Writes)
  <2> HIDE DEF to
  <2> QED BY <1>1, TypeParts, PutBlocksTyped DEF to
<1>4. PutInfo(alloc, NumBlocks - alloc) \in Writes
  BY GeometryAssumption, WritesAre
<1>5. ws \in Seq(Writes)
  BY <1>3, <1>4
<1>6. table \in FdsType
  <2>1. start + m \in Nat
    BY FileSystemAssumption
  <2> QED BY <2>1, TypeParts DEF FdsType
<1> HIDE DEF ws, table
<1> QED BY <1>2, <1>5, <1>6, ReturnTyped, DieInTyped

\* ReadFile keeps them.
LEMMA ReadFileTypeKept == ASSUME TypeOK, NEW f \in Fd, NEW m \in WriteSizes, ReadFile(f, m) PROVE TypeOK'
<1>1. PICK res : Return(<<>>, [fds EXCEPT ![f].off = fds[f].off + m], res)
  BY DEF ReadFile
<1>2. fds[f].off + m \in Nat
  BY TypeParts, FileSystemAssumption DEF FdsType
<1>3. [fds EXCEPT ![f].off = fds[f].off + m] \in FdsType /\ <<>> \in Seq(Writes)
  BY <1>2, TypeParts DEF FdsType
<1> QED BY <1>1, <1>3, ReturnTyped

\* EnumerateDirStatus keeps them.
LEMMA EnumerateTypeKept == ASSUME TypeOK, NEW p, EnumerateDirStatus(p) PROVE TypeOK'
<1>1. Fail \/ \E res : Return(<<>>, fds, res)
  BY DEF EnumerateDirStatus
<1>2. <<>> \in Seq(Writes) /\ fds \in FdsType
  BY TypeParts
<1> QED BY <1>1, <1>2, FailTyped, ReturnTyped

\* Mount and Unmount keep them.
LEMMA MountTypeKept == ASSUME TypeOK, MountFormat \/ MountReadWrite \/ Unmount PROVE TypeOK'
<1>1. CASE MountFormat
  <2>1. ASSUME disk' = FormattedDisk, damage' = "none", mounted' = TRUE, fds' = NoFds
        PROVE  TypeOK'
    BY <2>1, FormattedIs, NoFdsTyped DEF TypeOK, FdsType
  <2>2. ASSUME NEW k \in 0 .. Len(FormatWrites) - 1, Dead(Formatting(k), "torn")
        PROVE  TypeOK'
    <3>1. Formatting(k) \in DiskType
      BY UnfinishedFormat, FormatWritesAre
    <3> QED BY <2>2, <3>1, DeadTyped
  <2> QED BY <1>1, <2>1, <2>2 DEF MountFormat
<1>2. CASE MountReadWrite
  BY <1>2, NoFdsTyped DEF MountReadWrite, TypeOK, FdsType
<1>3. CASE Unmount
  BY <1>3, TypeParts, DeadTyped DEF Unmount
<1> QED BY <1>1, <1>2, <1>3

\* Every step keeps them.
LEMMA NextTypeKept == ASSUME TypeOK, TableInv, [Next]_vars PROVE TypeOK'
<1>1. CASE \E p \in DirPath : MakeDir(p) \/ RemoveDir(p) \/ EnumerateDirStatus(p)
  BY <1>1, MakeDirTypeKept, RemoveDirTypeKept, EnumerateTypeKept
<1>2. CASE \E p \in FilePath : RemoveFile(p) \/ \E create \in BOOLEAN : OpenFile(p, create)
  BY <1>2, RemoveFileTypeKept, OpenFileTypeKept
<1>3. CASE \E f \in Fd :
             \/ CloseFile(f)
             \/ \E m \in WriteSizes : ReadFile(f, m) \/ \E v \in Payload : WriteFile(f, m, v)
  BY <1>3, CloseFileTypeKept, ReadFileTypeKept, WriteFileTypeKept
<1>4. CASE MountFormat \/ MountReadWrite \/ Unmount
  BY <1>4, MountTypeKept
<1>5. CASE UNCHANGED vars
  BY <1>5 DEF vars, TypeOK
<1> QED BY <1>1, <1>2, <1>3, <1>4, <1>5 DEF Next

\* The blank disk has them.
LEMMA InitTyped == ASSUME Init PROVE TypeOK
BY BlankTyped, NoFdsTyped DEF Init, TypeOK, FdsType

\* The disk, the descriptors and the history have their types after every call
\* and every death in one, in every geometry.
THEOREM TypesAlwaysOK == Spec => []TypeOK
<1>1. Init => TypeOK /\ TableInv
  BY InitTyped, EmptyTable
<1>2. TypeOK /\ TableInv /\ [Next]_vars => TypeOK' /\ TableInv'
  BY NextTypeKept, StepRight
<1> QED BY <1>1, <1>2, PTL DEF Spec

---------------------------------------------------------------------------
(* Files are written *)

\* A disk where directories have what they had, and inodes are as many.
LEMMA QuietSound ==
  ASSUME NEW d, Sound(d), NEW e \in DiskType, BlocksSound(e), SameInodeMap(e, d), SameTypes(e, d),
         \A i \in DirInodes(d) : SameCells(e, d, i) /\ NoHoles(e, i),
         \A i \in InodeNum \ e.inodeMap : e.inode[i] = FreeInode
  PROVE  Sound(e)
<1>1. /\ d \in DiskType /\ TreeSound(d) /\ 0 \in d.inodeMap /\ AllNamed(d, InodesAt(d))
      /\ d.info.inodes = Cardinality(d.inodeMap)
  BY SoundParts
<1>2. e.inodeMap = d.inodeMap /\ e.info.inodes = d.info.inodes
  BY DEF SameInodeMap
<1>3. KindsRight(e) /\ Marked(e) /\ OwnedOnce(e) /\ FreeBlank(e)
  BY DEF BlocksSound, FreeBlank
<1>4. /\ TreeSound(e) /\ DirInodes(e) = DirInodes(d)
      /\ \A i \in DirInodes(d) : \A x, b : Has(d, i, x, b) => Has(e, i, x, b)
  BY <1>1, <1>2, <1>3, StaySound
<1>5. AllNamed(e, InodesAt(e))
  <2> DEFINE gone == {}
  <2>1. \A i \in DirInodes(d), x \in Name, b \in InodeNum :
          Plain(x) /\ Has(d, i, x, b) /\ b \notin gone => Has(e, i, x, b)
    BY <1>4
  <2>2. \A i \in gone, x \in Name, b \in InodeNum : Plain(x) => ~Has(d, i, x, b)
    OBVIOUS
  <2>3. \A b \in e.inodeMap : \/ b \in d.inodeMap \ gone
                              \/ \E u \in Path : Reached(e, u) /\ Ino(e, u) = b
    BY <1>2
  <2>4. 0 \in e.inodeMap /\ \A i \in DirInodes(e) : NoHoles(e, i)
    BY <1>1, <1>2, <1>4
  <2> HIDE DEF gone
  <2> QED BY <1>1, <1>4, <2>1, <2>2, <2>3, <2>4, NamedKept
<1> QED BY <1>1, <1>2, <1>3, <1>4, <1>5 DEF Sound, Whole

\* A write to the indices from .. to of file i that wants the blocks W.
Filling(d, i, W, from, to) ==
  /\ d \in DiskType /\ BlocksSound(d) /\ i \in InodeNum /\ ~IsDirIn(d, i)
  /\ from \in Nat /\ to \in Nat /\ from <= to /\ to <= MaxBlocks - 1
  /\ W = Wanted(d, d.inode[i], from .. to) /\ Enough(d, Cardinality(W))

\* The blocks a write wants: one for each missing block of the file, and one
\* for the indirect block before those behind it.
LEMMA FillingIs ==
  ASSUME NEW d, NEW i, NEW W, NEW from, NEW to, Filling(d, i, W, from, to)
  PROVE  /\ W \subseteq Nat /\ IsFiniteSet(W) /\ Cardinality(W) \in Nat
         /\ \A w, x \in Evens(W) : w = x
         /\ \A w \in Evens(W) : d.inode[i].indir = 0 /\ w >= 4 /\ w >= 2 * from
         /\ \A w \in W \ Evens(W) : \E k \in from .. to : w = 2 * k + 1 /\ PtrOf(d, i, k + 1) = 0
         /\ \A k \in from .. to : PtrOf(d, i, k + 1) = 0 => 2 * k + 1 \in W \ Evens(W)
         /\ \A k \in from .. to : k >= 2 /\ d.inode[i].indir = 0 => \E w \in Evens(W) : w <= 2 * k
         /\ from .. to \subseteq 0 .. MaxBlocks - 1
         /\ \A k \in Nat : 2 * k + 1 \notin Evens(W)
<1>1. from \in Nat /\ to \in Nat /\ to <= MaxBlocks - 1 /\ W = Wanted(d, d.inode[i], from .. to)
  BY DEF Filling
<1>2. /\ W \subseteq Nat /\ IsFiniteSet(W) /\ Cardinality(W) \in Nat
      /\ \A w, x \in Evens(W) : w = x
      /\ \A w \in Evens(W) : d.inode[i].indir = 0 /\ w >= 4 /\ \E k \in from .. to : k >= 2 /\ w = 2 * k
      /\ \A k \in from .. to : k >= 2 /\ d.inode[i].indir = 0 => \E w \in Evens(W) : w <= 2 * k
      /\ \A k \in Nat : 2 * k + 1 \in W <=> k \in from .. to /\ PtrAt(d, d.inode[i], k) = 0
      /\ \A w \in W \ Evens(W) : \E k \in from .. to : w = 2 * k + 1
      /\ \A k \in Nat : 2 * k + 1 \notin Evens(W)
  <2> DEFINE V == Wanted(d, d.inode[i], from .. to)
  <2>1. /\ V \subseteq Nat /\ IsFiniteSet(V) /\ Cardinality(V) \in Nat
        /\ \A w, x \in Evens(V) : w = x
        /\ \A w \in Evens(V) : d.inode[i].indir = 0 /\ w >= 4 /\ \E k \in from .. to : k >= 2 /\ w = 2 * k
        /\ \A k \in from .. to : k >= 2 /\ d.inode[i].indir = 0 => \E w \in Evens(V) : w <= 2 * k
        /\ \A k \in Nat : 2 * k + 1 \in V <=> k \in from .. to /\ PtrAt(d, d.inode[i], k) = 0
        /\ \A w \in V \ Evens(V) : \E k \in from .. to : w = 2 * k + 1
        /\ \A k \in Nat : 2 * k + 1 \notin Evens(V)
    BY <1>1, WantedIs
  <2> HIDE DEF V
  <2> QED BY <1>1, <2>1 DEF V
<1>3. from .. to \subseteq 0 .. MaxBlocks - 1 /\ from .. to \subseteq Nat
  <2>1. MaxBlocks \in Nat
    BY IndexIs
  <2> QED BY <1>1, <2>1
<1>4. \A k \in from .. to : PtrAt(d, d.inode[i], k) = PtrOf(d, i, k + 1)
  BY <1>3, PtrAtIs
<1>6. \A w \in W \ Evens(W) : \E k \in from .. to : w = 2 * k + 1 /\ PtrOf(d, i, k + 1) = 0
  <2> TAKE w \in W \ Evens(W)
  <2>2. PICK k \in from .. to : w = 2 * k + 1
    BY <1>2
  <2>3. k \in from .. to /\ PtrAt(d, d.inode[i], k) = 0
    BY <1>2, <1>3, <2>2
  <2> QED BY <1>4, <2>2, <2>3
<1>7. \A k \in from .. to : PtrOf(d, i, k + 1) = 0 => 2 * k + 1 \in W \ Evens(W)
  BY <1>2, <1>3, <1>4
<1>8. \A w \in Evens(W) : w >= 2 * from
  <2> TAKE w \in Evens(W)
  <2>1. PICK k \in from .. to : w = 2 * k
    BY <1>2
  <2> QED BY <1>1, <2>1
<1>9. \A w \in Evens(W) : d.inode[i].indir = 0 /\ w >= 4
  BY <1>2
<1> QED BY <1>2, <1>3, <1>6, <1>7, <1>8, <1>9

\* The disk when the blocks wanted up to u are there.
PutDisks(d, i, W, u) ==
  {e \in DiskType :
    /\ BlocksSound(e) /\ SameInodeMap(e, d)
    /\ \A j \in InodeNum \ {i} : e.inode[j] = d.inode[j]
    /\ e.inode[i] = InodeNow(d, d.inode[i], W, u)
    /\ IndirectPtrs(e, e.inode[i]) = PtrsNow(d, d.inode[i], W, u)
    /\ e.blockMap = d.blockMap \cup {NewFor(d, W, w) : w \in {x \in W : x <= u}}
    /\ \A j \in InodeNum \ {i}, l \in Pos :
         /\ PtrOf(e, j, l) = PtrOf(d, j, l)
         /\ PtrOf(d, j, l) # 0 => e.blk[PtrOf(d, j, l)] = d.blk[PtrOf(d, j, l)]}

\* The new blocks are free, and different ones.
LEMMA NewForFree ==
  ASSUME NEW d, NEW i, NEW W, NEW from, NEW to, Filling(d, i, W, from, to)
  PROVE  /\ \A w \in W : NewFor(d, W, w) \in Block \ d.blockMap
         /\ \A w, x \in W : NewFor(d, W, w) = NewFor(d, W, x) => w = x
<1>1. d \in DiskType /\ W \subseteq Nat /\ IsFiniteSet(W) /\ Cardinality(W) \in Nat /\ Enough(d, Cardinality(W))
  <2>1. d \in DiskType /\ Enough(d, Cardinality(W))
    BY DEF Filling
  <2>2. W \subseteq Nat /\ IsFiniteSet(W) /\ Cardinality(W) \in Nat
    BY FillingIs
  <2> QED BY <2>1, <2>2
<1>2. /\ \A w \in W : Cardinality(UpTo(W, w)) \in 1 .. Cardinality(W)
      /\ \A w, x \in W : Cardinality(UpTo(W, w)) = Cardinality(UpTo(W, x)) => w = x
  BY <1>1, RankIs
<1> DEFINE n == Cardinality(W)
           r(w) == Cardinality(UpTo(W, w))
<1>3. \A m \in 1 .. n : /\ GetFreeBlockNum(d, m) \in Block \ d.blockMap
                        /\ \A x \in 1 .. n : GetFreeBlockNum(d, x) = GetFreeBlockNum(d, m) => x = m
  <2>1. n \in Nat /\ Enough(d, n)
    BY <1>1
  <2> HIDE DEF n
  <2> QED BY <1>1, <2>1, GivenIsFree
<1>4. \A w \in W : r(w) \in 1 .. n /\ NewFor(d, W, w) = GetFreeBlockNum(d, r(w))
  BY <1>2 DEF NewFor
<1> HIDE DEF n, r
<1>5. \A w \in W : NewFor(d, W, w) \in Block \ d.blockMap
  BY <1>3, <1>4
<1>6. \A w, x \in W : NewFor(d, W, w) = NewFor(d, W, x) => r(w) = r(x)
  BY <1>3, <1>4
<1> QED BY <1>2, <1>5, <1>6 DEF r

\* Only the number looked at is new, and it is when it is wanted.
LEMMA NowSame ==
  ASSUME NEW d, NEW W, NEW v \in Int, NEW u, u = v + 1, NEW w \in Int, w # u
  PROVE  \A old : Now(d, W, w, old, u) = Now(d, W, w, old, v)
<1>1. w <= u <=> w <= v
  OBVIOUS
<1> QED BY <1>1 DEF Now

\* A block that has just been linked is the one meant for it.
LEMMA NowNew ==
  ASSUME NEW d, NEW W, NEW u \in Int, u \in W
  PROVE  \A old : Now(d, W, u, old, u) = NewFor(d, W, u)
<1>1. u <= u
  OBVIOUS
<1> QED BY <1>1 DEF Now

\* The indirect block is linked when its turn comes.
LEMMA IndirNext ==
  ASSUME NEW d, NEW n, NEW W, W \subseteq Nat, \A w, x \in Evens(W) : w = x,
         NEW v \in Int, NEW u, u = v + 1
  PROVE  IndirNow(d, n, W, u) = IF u \in Evens(W) THEN NewFor(d, W, u) ELSE IndirNow(d, n, W, v)
<1>1. \A w \in W : w <= u <=> w <= v \/ w = u
  OBVIOUS
<1>2. \A w, x \in W : w % 2 = 0 /\ x % 2 = 0 => w = x
  BY DEF Evens
<1>3. CASE u \in Evens(W)
  <2>1. u \in W /\ u % 2 = 0 /\ u <= u
    BY <1>3 DEF Evens
  <2>2. (CHOOSE w \in W : w % 2 = 0) = u
    BY <1>2, <2>1
  <2>3. \E w \in W : w % 2 = 0 /\ w <= u
    BY <2>1
  <2> QED BY <1>3, <2>2, <2>3 DEF IndirNow
<1>4. CASE u \notin Evens(W)
  <2>1. \A w \in W : w % 2 = 0 => w # u
    BY <1>4 DEF Evens
  <2>2. (\E w \in W : w % 2 = 0 /\ w <= u) <=> (\E w \in W : w % 2 = 0 /\ w <= v)
    BY <1>1, <2>1
  <2> QED BY <1>4, <2>2 DEF IndirNow
<1> QED BY <1>3, <1>4

\* The block of pointers is new where one is wanted and its number is not before u.
LEMMA IndirIs ==
  ASSUME NEW d, NEW n, NEW W, \A w, x \in Evens(W) : w = x, NEW u, NEW w \in Evens(W)
  PROVE  /\ w <= u => IndirNow(d, n, W, u) = NewFor(d, W, w)
         /\ ~(w <= u) => IndirNow(d, n, W, u) = n.indir
<1>1. w \in W /\ w % 2 = 0 /\ \A x \in W : x % 2 = 0 => x = w
  BY DEF Evens
<1>2. (CHOOSE x \in W : x % 2 = 0) = w
  BY <1>1
<1>3. (\E x \in W : x % 2 = 0 /\ x <= u) <=> w <= u
  BY <1>1
<1> QED BY <1>2, <1>3 DEF IndirNow

\* The parts of an inode.
LEMMA InodeNowIs ==
  ASSUME NEW d, NEW W, NEW n \in InodeType, NEW u
  PROVE  LET m == InodeNow(d, n, W, u)
         IN  /\ m.type = n.type /\ m.indir = IndirNow(d, n, W, u)
             /\ m.direct[1] = Now(d, W, 1, n.direct[1], u) /\ m.direct[2] = Now(d, W, 3, n.direct[2], u)
             /\ m = [type |-> n.type, direct |-> <<Now(d, W, 1, n.direct[1], u), Now(d, W, 3, n.direct[2], u)>>,
                     indir |-> IndirNow(d, n, W, u)]
<1> DEFINE dir == <<Now(d, W, 1, n.direct[1], u), Now(d, W, 3, n.direct[2], u)>>
           x == IndirNow(d, n, W, u)
           m == InodeNow(d, n, W, u)
<1>1. m = [n EXCEPT !.direct = dir, !.indir = x]
  BY DEF InodeNow
<1>2. dir[1] = Now(d, W, 1, n.direct[1], u) /\ dir[2] = Now(d, W, 3, n.direct[2], u)
  OBVIOUS
<1> HIDE DEF dir, x, m
<1>3. m = [type |-> n.type, direct |-> dir, indir |-> x]
  BY <1>1 DEF InodeType
<1>4. m.type = n.type /\ m.direct = dir /\ m.indir = x
  BY <1>3
<1> QED BY <1>2, <1>3, <1>4 DEF dir, x, m

\* Before the first block wanted the disk is as it was.
LEMMA PutStart ==
  ASSUME NEW d, NEW i, NEW W, NEW from, NEW to, Filling(d, i, W, from, to),
         NEW v \in Int, \A w \in W : ~(w <= v)
  PROVE  d \in PutDisks(d, i, W, v)
<1>1. d \in DiskType /\ BlocksSound(d) /\ i \in InodeNum
  BY DEF Filling
<1>2. W \subseteq Nat
  BY FillingIs
<1> DEFINE n == d.inode[i]
<1>3. n \in InodeType
  BY <1>1, DiskParts
<1>4. \A w, old : Now(d, W, w, old, v) = old
  BY DEF Now
<1>5. IndirNow(d, n, W, v) = n.indir
  BY DEF IndirNow
<1>6. n = InodeNow(d, n, W, v)
  <2>1. n.direct = <<n.direct[1], n.direct[2]>>
    BY <1>3 DEF InodeType
  <2>2. InodeNow(d, n, W, v) = [n EXCEPT !.direct = <<n.direct[1], n.direct[2]>>, !.indir = n.indir]
    BY <1>4, <1>5 DEF InodeNow
  <2> QED BY <1>3, <2>1, <2>2 DEF InodeType
<1>7. IndirectPtrs(d, n) = PtrsNow(d, n, W, v)
  <2>1. IndirectPtrs(d, n) \in [Slot -> Pointer]
    BY <1>1, <1>3, IndirectTyped
  <2> QED BY <1>4, <2>1 DEF PtrsNow
<1>8. {x \in W : x <= v} = {}
  OBVIOUS
<1>9. d.blockMap = d.blockMap \cup {NewFor(d, W, w) : w \in {x \in W : x <= v}}
  BY <1>8
<1> QED BY <1>1, <1>6, <1>7, <1>9 DEF PutDisks, SameInodeMap

\* The pointers when one number more was looked at.
LEMMA PtrsNext ==
  ASSUME NEW d, NEW n, NEW W, W \subseteq Nat, NEW v \in Int, NEW u, u = v + 1
  PROVE  /\ PtrsNow(d, n, W, u) = [s \in Slot |-> PtrsNow(d, n, W, u)[s]]
         /\ \A s \in Slot :
              PtrsNow(d, n, W, u)[s] =
                IF 2 * s + 3 = u /\ u \in W THEN NewFor(d, W, u) ELSE PtrsNow(d, n, W, v)[s]
<1>1. ASSUME NEW s \in Slot
      PROVE  Now(d, W, 2 * s + 3, IndirectPtrs(d, n)[s], u) =
               IF 2 * s + 3 = u /\ u \in W THEN NewFor(d, W, u)
               ELSE Now(d, W, 2 * s + 3, IndirectPtrs(d, n)[s], v)
  <2>1. s \in Nat
    BY SlotsAre
  <2> DEFINE w == 2 * s + 3
  <2>2. w \in Nat
    BY <2>1
  <2> HIDE DEF w
  <2>3. Now(d, W, w, IndirectPtrs(d, n)[s], u) =
          IF w = u /\ u \in W THEN NewFor(d, W, u) ELSE Now(d, W, w, IndirectPtrs(d, n)[s], v)
    <3>1. (w <= u <=> w <= v \/ w = u) /\ (w = u => ~(w <= v))
      BY <2>2
    <3> QED BY <3>1 DEF Now
  <2> QED BY <2>3 DEF w
<1>2. \A s \in Slot : /\ PtrsNow(d, n, W, v)[s] = Now(d, W, 2 * s + 3, IndirectPtrs(d, n)[s], v)
                      /\ PtrsNow(d, n, W, u)[s] = Now(d, W, 2 * s + 3, IndirectPtrs(d, n)[s], u)
  BY DEF PtrsNow
<1>3. PtrsNow(d, n, W, u) = [s \in Slot |-> PtrsNow(d, n, W, u)[s]]
  BY DEF PtrsNow
<1> QED BY <1>1, <1>2, <1>3

\* A number that is not wanted changes nothing.
LEMMA PutSame ==
  ASSUME NEW d, NEW i, NEW W, NEW from, NEW to, Filling(d, i, W, from, to),
         NEW v \in Int, NEW u, u = v + 1, u \notin W
  PROVE  PutDisks(d, i, W, u) = PutDisks(d, i, W, v)
<1> DEFINE n == d.inode[i]
<1>1. W \subseteq Nat /\ \A w, x \in Evens(W) : w = x
  BY FillingIs
<1>2. ASSUME NEW w \in Nat, NEW old PROVE Now(d, W, w, old, u) = Now(d, W, w, old, v)
  <2>1. w \in W => (w <= u <=> w <= v)
    OBVIOUS
  <2> QED BY <2>1 DEF Now
<1>3. IndirNow(d, n, W, u) = IndirNow(d, n, W, v)
  <2>1. u \notin Evens(W)
    BY DEF Evens
  <2> QED BY <1>1, <2>1, IndirNext
<1>4. InodeNow(d, n, W, u) = InodeNow(d, n, W, v)
  <2>1. \A old : Now(d, W, 1, old, u) = Now(d, W, 1, old, v) /\ Now(d, W, 3, old, u) = Now(d, W, 3, old, v)
    BY <1>2
  <2> QED BY <1>3, <2>1 DEF InodeNow
<1>5. PtrsNow(d, n, W, u) = PtrsNow(d, n, W, v)
  <2>1. \A s \in Slot : Now(d, W, 2 * s + 3, IndirectPtrs(d, n)[s], u) = Now(d, W, 2 * s + 3, IndirectPtrs(d, n)[s], v)
    <3> TAKE s \in Slot
    <3>1. s \in Nat
      BY SlotsAre
    <3> DEFINE w == 2 * s + 3
    <3>2. w \in Nat
      BY <3>1
    <3> HIDE DEF w
    <3>3. Now(d, W, w, IndirectPtrs(d, n)[s], u) = Now(d, W, w, IndirectPtrs(d, n)[s], v)
      BY <1>2, <3>2
    <3> QED BY <3>3 DEF w
  <2> QED BY <2>1 DEF PtrsNow
<1>6. {x \in W : x <= u} = {x \in W : x <= v}
  <2>1. \A x \in W : x \in Nat /\ x # u
    BY <1>1
  <2>2. \A x \in W : x <= u <=> x <= v
    BY <2>1
  <2> QED BY <2>2
<1> HIDE DEF n
<1> QED BY <1>4, <1>5, <1>6 DEF PutDisks, n

\* One block linked by the write link is there when it is marked.
LEMMA PutLinked ==
  ASSUME NEW d, NEW i, NEW W, NEW from, NEW to, Filling(d, i, W, from, to),
         NEW v \in Int, NEW u, u = v + 1, u \in W, NEW e \in PutDisks(d, i, W, v),
         NEW k \in Pos, NEW link, NEW f, f = Written(e, link), f \in DiskType,
         OnlyPtr(f, e, i, k, NewFor(d, W, u)), SameTypes(f, e),
         f.blockMap = e.blockMap, SameInodeMap(f, e), OnlyIndirect(f, e, i),
         \A j \in InodeNum \ {i} : f.inode[j] = e.inode[j],
         f.inode[i] = InodeNow(d, d.inode[i], W, u),
         IndirectPtrs(f, f.inode[i]) = PtrsNow(d, d.inode[i], W, u)
  PROVE  Leads(e, Allocate(link, NewFor(d, W, u)), PutDisks(d, i, W, u), Owned)
<1> DEFINE b == NewFor(d, W, u)
<1>1. /\ e \in DiskType /\ BlocksSound(e) /\ SameInodeMap(e, d)
      /\ \A j \in InodeNum \ {i} : e.inode[j] = d.inode[j]
      /\ e.blockMap = d.blockMap \cup {NewFor(d, W, w) : w \in {x \in W : x <= v}}
      /\ \A j \in InodeNum \ {i}, l \in Pos :
           /\ PtrOf(e, j, l) = PtrOf(d, j, l)
           /\ PtrOf(d, j, l) # 0 => e.blk[PtrOf(d, j, l)] = d.blk[PtrOf(d, j, l)]
  BY DEF PutDisks
<1>2. i \in InodeNum /\ W \subseteq Nat
  <2>1. i \in InodeNum
    BY DEF Filling
  <2> QED BY <2>1, FillingIs
<1>3. \A w \in W : (w <= u <=> w <= v \/ w = u) /\ (w = u => ~(w <= v))
  BY <1>2
<1>4. b \in Block \ e.blockMap
  <2>1. b \in Block \ d.blockMap /\ \A w \in W : NewFor(d, W, w) = b => w = u
    BY NewForFree
  <2> QED BY <1>1, <1>3, <2>1
<1>5. d.blockMap \cup {NewFor(d, W, w) : w \in {x \in W : x <= u}} = e.blockMap \cup {b}
  BY <1>1, <1>3
<1> HIDE DEF b
<1>6. Leads(e, Allocate(link, b), Allocated(f, b), Owned)
  BY <1>1, <1>2, <1>4, AllocStep DEF b
<1>7. Allocated(f, b) \subseteq PutDisks(d, i, W, u)
  <2> SUFFICES ASSUME NEW g \in Allocated(f, b) PROVE g \in PutDisks(d, i, W, u)
    OBVIOUS
  <2>1. /\ g \in DiskType /\ BlocksSound(g) /\ g.inode = f.inode /\ g.blk = f.blk
        /\ g.blockMap = f.blockMap \cup {b} /\ SameInodeMap(g, f)
    BY DEF Allocated
  <2>2. SameInodeMap(g, d) /\ \A j \in InodeNum \ {i} : g.inode[j] = d.inode[j]
    BY <1>1, <2>1 DEF SameInodeMap
  <2>3. g.inode[i] = InodeNow(d, d.inode[i], W, u)
    BY <2>1
  <2>4. IndirectPtrs(g, g.inode[i]) = PtrsNow(d, d.inode[i], W, u)
    BY <2>1 DEF IndirectPtrs
  <2>5. g.blockMap = d.blockMap \cup {NewFor(d, W, w) : w \in {x \in W : x <= u}}
    BY <1>5, <2>1
  <2>6. SamePtrs(g, f)
    BY <2>1, OtherWrite
  <2>7. ASSUME NEW j \in InodeNum \ {i}, NEW l \in Pos
        PROVE  /\ PtrOf(g, j, l) = PtrOf(d, j, l)
               /\ PtrOf(d, j, l) # 0 => g.blk[PtrOf(d, j, l)] = d.blk[PtrOf(d, j, l)]
    <3>1. PtrOf(g, j, l) = PtrOf(e, j, l) /\ PtrOf(e, j, l) = PtrOf(d, j, l)
      BY <1>1, <2>6 DEF OnlyPtr, SamePtrs
    <3>2. ASSUME PtrOf(e, j, l) # 0 PROVE g.blk[PtrOf(e, j, l)] = e.blk[PtrOf(e, j, l)]
      <4>1. PtrOf(e, j, l) \in Block
        BY <1>1, <3>2, PtrTyped DEF Pointer
      <4>2. PtrOf(e, j, l) # PtrOf(e, i, 0)
        BY <1>1, <1>2, <3>2, PosIs DEF BlocksSound, OwnedOnce
      <4> QED BY <2>1, <4>1, <4>2 DEF OnlyIndirect
    <3> QED BY <1>1, <3>1, <3>2
  <2> QED BY <2>1, <2>2, <2>3, <2>4, <2>5, <2>7 DEF PutDisks
<1> QED BY <1>6, <1>7, LeadsWeaker DEF b

\* What is known of a disk on which the numbers up to v were looked at.
LEMMA PutParts ==
  ASSUME NEW d, NEW i, NEW W, NEW from, NEW to, Filling(d, i, W, from, to),
         NEW v \in Int, NEW u, u = v + 1, u \in W, NEW e \in PutDisks(d, i, W, v)
  PROVE  /\ d \in DiskType /\ d.inode[i] \in InodeType
         /\ e \in DiskType /\ BlocksSound(e) /\ OwnedOnce(e) /\ i \in InodeNum
         /\ NewFor(d, W, u) \in Block /\ NewFor(d, W, u) \notin e.blockMap
         /\ NewFor(d, W, u) \in Pointer /\ e.blk[NewFor(d, W, u)] = Zero
         /\ e.inode[i] = InodeNow(d, d.inode[i], W, v) /\ e.inode[i] \in InodeType
         /\ IndirectPtrs(e, e.inode[i]) = PtrsNow(d, d.inode[i], W, v)
         /\ W \subseteq Nat /\ u \in Nat /\ \A w, x \in Evens(W) : w = x
<1>1. d \in DiskType /\ i \in InodeNum
  BY DEF Filling
<1>2. /\ e \in DiskType /\ BlocksSound(e) /\ e.inode[i] = InodeNow(d, d.inode[i], W, v)
      /\ IndirectPtrs(e, e.inode[i]) = PtrsNow(d, d.inode[i], W, v)
      /\ e.blockMap = d.blockMap \cup {NewFor(d, W, w) : w \in {x \in W : x <= v}}
  BY DEF PutDisks
<1>3. W \subseteq Nat /\ \A w, x \in Evens(W) : w = x
  BY FillingIs
<1>4. NewFor(d, W, u) \in Block \ d.blockMap /\ \A w \in W : NewFor(d, W, w) = NewFor(d, W, u) => w = u
  BY NewForFree
<1>5. ~(u <= v) /\ u \in Nat
  BY <1>3
<1>6. NewFor(d, W, u) \notin e.blockMap
  BY <1>2, <1>4, <1>5
<1>7. e.blk[NewFor(d, W, u)] = Zero /\ OwnedOnce(e)
  BY <1>2, <1>4, <1>6 DEF BlocksSound
<1>8. d.inode[i] \in InodeType /\ e.inode[i] \in InodeType
  BY <1>1, <1>2, DiskParts
<1> QED BY <1>1, <1>2, <1>3, <1>4, <1>5, <1>6, <1>7, <1>8 DEF Pointer

\* The block of pointers is linked.
LEMMA PutIndirect ==
  ASSUME NEW d, NEW i, NEW W, NEW from, NEW to, Filling(d, i, W, from, to),
         NEW v \in Int, NEW u, u = v + 1, u \in Evens(W), NEW e \in PutDisks(d, i, W, v)
  PROVE  Leads(e, AllocNow(d, i, W, u), PutDisks(d, i, W, u), Owned)
<1> DEFINE n == d.inode[i]
           b == NewFor(d, W, u)
           m == InodeNow(d, n, W, u)
           link == PutInode(i, m)
           f == Written(e, link)
<1>0. u \in W /\ u % 2 = 0
  BY DEF Evens
<1>1. /\ d \in DiskType /\ n \in InodeType
      /\ e \in DiskType /\ BlocksSound(e) /\ i \in InodeNum
      /\ b \in Block /\ b \notin e.blockMap /\ b \in Pointer /\ e.blk[b] = Zero
      /\ e.inode[i] = InodeNow(d, n, W, v) /\ e.inode[i] \in InodeType
      /\ IndirectPtrs(e, e.inode[i]) = PtrsNow(d, n, W, v)
      /\ W \subseteq Nat /\ u \in Nat /\ \A w, x \in Evens(W) : w = x
  BY <1>0, PutParts
<1>2. n.indir = 0 /\ u >= 4
  BY FillingIs
<1>3. \A k \in Nat : 2 * k + 1 # u
  BY FillingIs
<1>4. IndirNow(d, n, W, v) = 0 /\ IndirNow(d, n, W, u) = b
  <2>1. ~(u <= v) /\ u <= u /\ u \in Int
    BY <1>1
  <2>2. IndirNow(d, n, W, v) = n.indir
    BY <1>1, <2>1, IndirIs
  <2>3. IndirNow(d, n, W, u) = b
    BY <1>1, <2>1, IndirIs
  <2> QED BY <1>2, <2>2, <2>3
<1>5. PtrsNow(d, n, W, u) = PtrsNow(d, n, W, v)
  <2>1. ASSUME NEW s \in Slot
        PROVE  Now(d, W, 2 * s + 3, IndirectPtrs(d, n)[s], u) = Now(d, W, 2 * s + 3, IndirectPtrs(d, n)[s], v)
    <3>1. s \in Nat
      BY SlotsAre
    <3>5. s + 1 \in Nat /\ 2 * s + 3 = 2 * (s + 1) + 1 /\ 2 * s + 3 \in Int
      BY <3>1
    <3>2. 2 * s + 3 # u /\ 2 * s + 3 \in Int
      <4>1. 2 * (s + 1) + 1 # u
        BY <1>3, <3>5
      <4> QED BY <3>5, <4>1
    <3> DEFINE w == 2 * s + 3
    <3>3. w # u /\ w \in Int
      BY <3>2
    <3> HIDE DEF w
    <3>4. Now(d, W, w, IndirectPtrs(d, n)[s], u) = Now(d, W, w, IndirectPtrs(d, n)[s], v)
      BY <3>3, NowSame
    <3> QED BY <3>4 DEF w
  <2> QED BY <2>1 DEF PtrsNow
<1>6. \A old : Now(d, W, 1, old, u) = Now(d, W, 1, old, v) /\ Now(d, W, 3, old, u) = Now(d, W, 3, old, v)
  <2>1. 1 # u /\ 3 # u /\ 1 \in Int /\ 3 \in Int
    BY <1>1, <1>2
  <2> QED BY <2>1, NowSame
<1>7. m = [e.inode[i] EXCEPT !.indir = b] /\ e.inode[i].indir = 0
  <2> DEFINE dir == <<Now(d, W, 1, n.direct[1], v), Now(d, W, 3, n.direct[2], v)>>
  <2>1. e.inode[i].indir = IndirNow(d, n, W, v)
        /\ e.inode[i] = [type |-> n.type, direct |-> dir, indir |-> IndirNow(d, n, W, v)]
    BY <1>1, InodeNowIs
  <2>2. m = [type |-> n.type, direct |-> <<Now(d, W, 1, n.direct[1], u), Now(d, W, 3, n.direct[2], u)>>,
             indir |-> IndirNow(d, n, W, u)]
    BY <1>1, InodeNowIs
  <2>3. m = [type |-> n.type, direct |-> dir, indir |-> b]
    BY <1>4, <1>6, <2>2
  <2> HIDE DEF dir, m, b, n
  <2> QED BY <1>4, <2>1, <2>3
<1> HIDE DEF n, b, m
<1>8. IndirectPtrs(e, e.inode[i]) = NoPtrs /\ Ptrs(e.blk[b]) = NoPtrs
  <2>1. Ptrs(Zero) = NoPtrs
    BY DEF Ptrs, Zero
  <2> QED BY <1>1, <1>7, <2>1 DEF IndirectPtrs
<1>9. /\ m \in InodeType /\ f \in DiskType /\ SameBut(f, e, "inode")
      /\ OnlyPtr(f, e, i, 0, b) /\ SameTypes(f, e)
  BY <1>1, <1>7, <1>8, IndirectLinked
<1>10. /\ f.blockMap = e.blockMap /\ SameInodeMap(f, e) /\ f.blk = e.blk
       /\ \A j \in InodeNum : f.inode[j] = IF j = i THEN m ELSE e.inode[j]
  <2>1. f.blockMap = e.blockMap /\ SameInodeMap(f, e) /\ f.blk = e.blk
    BY <1>9 DEF SameBut, SameInodeMap
  <2>2. \A j \in InodeNum : f.inode[j] = IF j = i THEN m ELSE e.inode[j]
    BY <1>1, <1>9, InodeWritten
  <2> QED BY <2>1, <2>2
<1>11. f.inode[i] = m /\ m.indir = b /\ \A j \in InodeNum \ {i} : f.inode[j] = e.inode[j]
  <2>1. m.indir = b
    BY <1>1, <1>7 DEF InodeType
  <2> QED BY <1>1, <1>10, <2>1
<1>12. IndirectPtrs(f, f.inode[i]) = PtrsNow(d, n, W, u)
  <2>1. b # 0
    BY <1>1, BlocksArePositive
  <2>2. IndirectPtrs(f, f.inode[i]) = Ptrs(e.blk[b])
    BY <1>10, <1>11, <2>1 DEF IndirectPtrs
  <2> QED BY <1>1, <1>5, <1>8, <2>2
<1>13. OnlyIndirect(f, e, i)
  BY <1>10 DEF OnlyIndirect
<1>14. 0 \in Pos
  BY PosIs
<1>15. f.inode[i] = InodeNow(d, d.inode[i], W, u)
  BY <1>11 DEF m, n
<1>16. Leads(e, Allocate(link, b), PutDisks(d, i, W, u), Owned)
  <2> DEFINE k == 0
  <2>1. k \in Pos /\ OnlyPtr(f, e, i, k, NewFor(d, W, u)) /\ f = Written(e, link)
    BY <1>9, <1>14 DEF b
  <2>2. IndirectPtrs(f, f.inode[i]) = PtrsNow(d, d.inode[i], W, u)
    BY <1>12 DEF n
  <2>3. f \in DiskType /\ SameTypes(f, e) /\ f.blockMap = e.blockMap /\ SameInodeMap(f, e)
    BY <1>9, <1>10
  <2> HIDE DEF k, f, link
  <2> QED BY <1>0, <1>11, <1>13, <1>15, <2>1, <2>2, <2>3, PutLinked DEF b
<1> QED BY <1>0, <1>16 DEF AllocNow, LinkNow, link, m, n, b

\* A direct pointer is written.
LEMMA PutDirect ==
  ASSUME NEW d, NEW i, NEW W, NEW from, NEW to, Filling(d, i, W, from, to),
         NEW v \in Int, NEW u, u = v + 1, u \in W, u \notin Evens(W), u < 4, NEW e \in PutDisks(d, i, W, v)
  PROVE  Leads(e, AllocNow(d, i, W, u), PutDisks(d, i, W, u), Owned)
<1> DEFINE n == d.inode[i]
           b == NewFor(d, W, u)
           m == InodeNow(d, n, W, u)
           link == PutInode(i, m)
           f == Written(e, link)
<1>1. /\ d \in DiskType /\ n \in InodeType
      /\ e \in DiskType /\ BlocksSound(e) /\ i \in InodeNum
      /\ b \in Block /\ b \notin e.blockMap /\ b \in Pointer /\ e.blk[b] = Zero
      /\ e.inode[i] = InodeNow(d, n, W, v) /\ e.inode[i] \in InodeType
      /\ IndirectPtrs(e, e.inode[i]) = PtrsNow(d, n, W, v)
      /\ W \subseteq Nat /\ u \in Nat /\ \A w, x \in Evens(W) : w = x
  BY PutParts
<1>2. IndirNow(d, n, W, u) = IndirNow(d, n, W, v)
  BY <1>1, IndirNext
<1>3. PICK k \in 1 .. 2 : u = 2 * k - 1
  <2>1. PICK x \in from .. to : u = 2 * x + 1
    BY FillingIs
  <2>2. x \in Nat
    BY FillingIs, <2>1 DEF Filling
  <2>3. x + 1 \in 1 .. 2 /\ u = 2 * (x + 1) - 1
    BY <2>1, <2>2
  <2> QED BY <2>3
<1>4. PtrsNow(d, n, W, u) = PtrsNow(d, n, W, v)
  <2>1. ASSUME NEW s \in Slot
        PROVE  Now(d, W, 2 * s + 3, IndirectPtrs(d, n)[s], u) = Now(d, W, 2 * s + 3, IndirectPtrs(d, n)[s], v)
    <3>1. s \in Nat
      BY SlotsAre
    <3> DEFINE w == 2 * s + 3
    <3>3. w # u /\ w \in Int
      BY <1>3, <3>1, PosIs
    <3> HIDE DEF w
    <3>4. Now(d, W, w, IndirectPtrs(d, n)[s], u) = Now(d, W, w, IndirectPtrs(d, n)[s], v)
      BY <3>3, NowSame
    <3> QED BY <3>4 DEF w
  <2> QED BY <2>1 DEF PtrsNow
<1> DEFINE q == IndirNow(d, n, W, v)
           now(x) == Now(d, W, 2 * x - 1, n.direct[x], u)
           was(x) == Now(d, W, 2 * x - 1, n.direct[x], v)
<1>5. now(k) = b /\ \A x \in 1 .. 2 : x # k => now(x) = was(x)
  <2>1. now(k) = b
    BY <1>1, <1>3, NowNew
  <2>2. ASSUME NEW x \in 1 .. 2, x # k PROVE now(x) = was(x)
    <3> DEFINE w == 2 * x - 1
    <3>1. w \in Int /\ w # u
      BY <1>3, <2>2
    <3> HIDE DEF w
    <3>2. Now(d, W, w, n.direct[x], u) = Now(d, W, w, n.direct[x], v)
      BY <3>1, NowSame
    <3> QED BY <3>2 DEF w
  <2> QED BY <2>1, <2>2
<1>6. m = [e.inode[i] EXCEPT !.direct[k] = b] /\ m.indir = e.inode[i].indir
  <2>1. /\ e.inode[i].indir = q
        /\ e.inode[i] = [type |-> n.type, direct |-> <<was(1), was(2)>>, indir |-> q]
    <3>1. 2 * 1 - 1 = 1 /\ 2 * 2 - 1 = 3
      OBVIOUS
    <3> QED BY <1>1, <3>1, InodeNowIs
  <2>2. m = [type |-> n.type, direct |-> <<now(1), now(2)>>, indir |-> q] /\ m.indir = q
    <3>1. 2 * 1 - 1 = 1 /\ 2 * 2 - 1 = 3
      OBVIOUS
    <3> QED BY <1>1, <1>2, <3>1, InodeNowIs
  <2> DEFINE dir == <<was(1), was(2)>>
  <2>3. <<now(1), now(2)>> = [dir EXCEPT ![k] = b]
    <3>1. CASE k = 1
      BY <1>5, <3>1
    <3>2. CASE k = 2
      BY <1>5, <3>2
    <3> QED BY <3>1, <3>2
  <2>4. m = [type |-> n.type, direct |-> [dir EXCEPT ![k] = b], indir |-> q]
    BY <2>2, <2>3
  <2>5. e.inode[i] = [type |-> n.type, direct |-> dir, indir |-> q]
    BY <2>1
  <2> HIDE DEF dir, m, b, n, q
  <2> QED BY <2>1, <2>2, <2>4, <2>5
<1> HIDE DEF n, b, m, now, was, q
<1>9. /\ m \in InodeType /\ f \in DiskType /\ SameBut(f, e, "inode")
      /\ OnlyPtr(f, e, i, k, b) /\ SameTypes(f, e)
  BY <1>1, <1>6, DirectLinked
<1>10. /\ f.blockMap = e.blockMap /\ SameInodeMap(f, e) /\ f.blk = e.blk
       /\ \A j \in InodeNum : f.inode[j] = IF j = i THEN m ELSE e.inode[j]
  <2>1. f.blockMap = e.blockMap /\ SameInodeMap(f, e) /\ f.blk = e.blk
    BY <1>9 DEF SameBut, SameInodeMap
  <2>2. \A j \in InodeNum : f.inode[j] = IF j = i THEN m ELSE e.inode[j]
    BY <1>1, <1>9, InodeWritten
  <2> QED BY <2>1, <2>2
<1>11. f.inode[i] = m /\ \A j \in InodeNum \ {i} : f.inode[j] = e.inode[j]
  BY <1>1, <1>10
<1>12. IndirectPtrs(f, f.inode[i]) = PtrsNow(d, n, W, u)
  <2>1. IndirectPtrs(f, f.inode[i]) = IndirectPtrs(e, e.inode[i])
    BY <1>6, <1>10, <1>11 DEF IndirectPtrs
  <2> QED BY <1>1, <1>4, <2>1
<1>13. OnlyIndirect(f, e, i)
  BY <1>10 DEF OnlyIndirect
<1>14. k \in Pos
  BY PosIs
<1>15. f.inode[i] = InodeNow(d, d.inode[i], W, u)
  BY <1>11 DEF m, n
<1>16. Leads(e, Allocate(link, b), PutDisks(d, i, W, u), Owned)
  <2>1. OnlyPtr(f, e, i, k, NewFor(d, W, u)) /\ f = Written(e, link)
    BY <1>9 DEF b
  <2>2. IndirectPtrs(f, f.inode[i]) = PtrsNow(d, d.inode[i], W, u)
    BY <1>12 DEF n
  <2>3. f \in DiskType /\ SameTypes(f, e) /\ f.blockMap = e.blockMap /\ SameInodeMap(f, e)
    BY <1>9, <1>10
  <2> HIDE DEF f, link
  <2> QED BY <1>11, <1>13, <1>14, <1>15, <2>1, <2>2, <2>3, PutLinked DEF b
<1> QED BY <1>16 DEF AllocNow, LinkNow, link, m, n, b

\* Putting a pointer into an indirect block changes that pointer only.
LEMMA SlotPut ==
  ASSUME NEW e \in DiskType, OwnedOnce(e), NEW i \in InodeNum, NEW s \in Slot, NEW b \in Pointer,
         NEW q, PtrOf(e, i, 0) = q, q # 0,
         NEW ptrs, ptrs = [IndirectPtrs(e, e.inode[i]) EXCEPT ![s] = b],
         NEW f, f = Written(e, WriteBlock(q, PtrBlock(ptrs)))
  PROVE  /\ ptrs \in [Slot -> Pointer] /\ f \in DiskType
         /\ f.inode = e.inode /\ f.blockMap = e.blockMap /\ SameInodeMap(f, e)
         /\ \A x \in Block : f.blk[x] = IF x = q THEN PtrBlock(ptrs) ELSE e.blk[x]
         /\ OnlyPtr(f, e, i, s + 2, b) /\ SameTypes(f, e)
<1> DEFINE g == Written(e, WriteBlock(PtrOf(e, i, 0), PtrBlock(ptrs)))
<1>1. ptrs \in [Slot -> Pointer] /\ g \in DiskType
  <2>1. ptrs \in [Slot -> Pointer]
    BY SlotLinked
  <2>2. g \in DiskType
    BY SlotLinked
  <2> QED BY <2>1, <2>2
<1>4. \A x \in Block : g.blk[x] = IF x = PtrOf(e, i, 0) THEN PtrBlock(ptrs) ELSE e.blk[x]
  BY SlotLinked
<1>5. OnlyPtr(g, e, i, s + 2, b)
  BY SlotLinked
<1>6. SameTypes(g, e)
  BY SlotLinked
<1>7. SameBut(g, e, "blk")
  BY SlotLinked
<1>2. g.inode = e.inode /\ g.blockMap = e.blockMap /\ SameInodeMap(g, e)
  BY <1>7 DEF SameBut, SameInodeMap
<1>3. f = g
  OBVIOUS
<1> HIDE DEF g
<1> QED BY <1>1, <1>2, <1>3, <1>4, <1>5, <1>6

\* A pointer of the block of pointers is written.
LEMMA PutSlot ==
  ASSUME NEW d, NEW i, NEW W, NEW from, NEW to, Filling(d, i, W, from, to),
         NEW v \in Int, NEW u, u = v + 1, u \in W, u \notin Evens(W), ~(u < 4), NEW e \in PutDisks(d, i, W, v)
  PROVE  Leads(e, AllocNow(d, i, W, u), PutDisks(d, i, W, u), Owned)
<1> DEFINE n == d.inode[i]
           b == NewFor(d, W, u)
           ptrs == PtrsNow(d, n, W, u)
           q == IndirNow(d, n, W, u)
           link == WriteBlock(q, PtrBlock(ptrs))
           f == Written(e, link)
<1>1. /\ d \in DiskType /\ n \in InodeType
      /\ e \in DiskType /\ BlocksSound(e) /\ OwnedOnce(e) /\ i \in InodeNum
      /\ b \in Block /\ b \notin e.blockMap /\ b \in Pointer
      /\ e.inode[i] = InodeNow(d, n, W, v) /\ e.inode[i] \in InodeType
      /\ IndirectPtrs(e, e.inode[i]) = PtrsNow(d, n, W, v)
      /\ W \subseteq Nat /\ u \in Nat /\ \A w, x \in Evens(W) : w = x
  BY PutParts
<1>2. IndirNow(d, n, W, v) = q
  BY <1>1, IndirNext
<1>3. PICK x \in from .. to : u = 2 * x + 1
  BY FillingIs
<1>4. x \in Nat /\ x >= 2 /\ v = 2 * x
  <2>1. from \in Nat /\ to \in Nat
    BY DEF Filling
  <2>2. x \in Nat
    BY <2>1
  <2> QED BY <1>1, <1>3, <2>2
<1>5. x - 1 \in Slot
  <2>1. x \in 0 .. MaxBlocks - 1
    BY FillingIs
  <2> QED BY <1>4, <2>1, IndexIs
<1>6. q # 0
  <2>2. \A w \in W : NewFor(d, W, w) # 0
    BY NewForFree, BlocksArePositive
  <2>3. /\ \A w \in Evens(W) : n.indir = 0
        /\ \A k \in from .. to : k >= 2 /\ n.indir = 0 => \E w \in Evens(W) : w <= 2 * k
    BY FillingIs
  <2>4. CASE n.indir = 0
    <3>1. PICK w \in Evens(W) : w <= 2 * x
      BY <1>4, <2>3, <2>4
    <3>2. w \in Nat /\ w \in W
      BY <1>1 DEF Evens
    <3>3. w <= u
      BY <1>3, <1>4, <3>1, <3>2
    <3>4. IndirNow(d, n, W, u) = NewFor(d, W, w)
      BY <1>1, <3>3, IndirIs
    <3> QED BY <2>2, <3>2, <3>4
  <2>5. CASE n.indir # 0
    <3>1. Evens(W) = {}
      BY <2>3, <2>5
    <3>2. IndirNow(d, n, W, u) = n.indir
      BY <3>1 DEF Evens, IndirNow
    <3> QED BY <2>5, <3>2
  <2> QED BY <2>4, <2>5
<1>7. ptrs = [IndirectPtrs(e, e.inode[i]) EXCEPT ![x - 1] = b]
  <2> DEFINE p == PtrsNow(d, n, W, v)
  <2>1. /\ ptrs = [s \in Slot |-> ptrs[s]]
        /\ \A s \in Slot : ptrs[s] = IF 2 * s + 3 = u /\ u \in W THEN b ELSE p[s]
    BY <1>1, PtrsNext
  <2>2. p = [s \in Slot |-> p[s]]
    BY DEF PtrsNow
  <2>3. \A s \in Slot : 2 * s + 3 = u <=> s = x - 1
    <3> TAKE s \in Slot
    <3>1. s \in Nat
      BY SlotsAre
    <3> QED BY <1>3, <1>4, <3>1
  <2>4. \A s \in Slot : 2 * s + 3 = u /\ u \in W <=> s = x - 1
    BY <2>3
  <2> HIDE DEF p, ptrs
  <2>5. ptrs = [s \in Slot |-> IF s = x - 1 THEN b ELSE p[s]]
    BY <2>1, <2>4
  <2> QED BY <1>1, <2>2, <2>5 DEF p
<1>8. InodeNow(d, n, W, u) = e.inode[i] /\ e.inode[i].indir = q
  <2>1. 1 \in Int /\ 3 \in Int /\ 1 # u /\ 3 # u
    BY <1>1
  <2>2. \A old : Now(d, W, 1, old, u) = Now(d, W, 1, old, v) /\ Now(d, W, 3, old, u) = Now(d, W, 3, old, v)
    BY <2>1, NowSame
  <2>3. InodeNow(d, n, W, u) = InodeNow(d, n, W, v)
    BY <1>2, <2>2 DEF InodeNow
  <2>4. e.inode[i].indir = q
    BY <1>1, <1>2, InodeNowIs
  <2> QED BY <1>1, <2>3, <2>4
<1>9. PtrOf(e, i, 0) = q /\ q \in Block
  <2>1. PtrOf(e, i, 0) = q
    BY <1>8, PtrByPos
  <2> QED BY <1>1, <1>6, <2>1, PtrTyped, PosIs DEF Pointer
<1> DEFINE s == x - 1
           k == s + 2
<1>10. s \in Slot /\ k \in Pos
  BY <1>5, PosIs
<1> HIDE DEF ptrs, b, q, n, s
<1>11. /\ ptrs \in [Slot -> Pointer] /\ f \in DiskType
       /\ f.inode = e.inode /\ f.blockMap = e.blockMap /\ SameInodeMap(f, e)
       /\ \A y \in Block : f.blk[y] = IF y = q THEN PtrBlock(ptrs) ELSE e.blk[y]
       /\ OnlyPtr(f, e, i, k, b) /\ SameTypes(f, e)
  <2>1. ptrs = [IndirectPtrs(e, e.inode[i]) EXCEPT ![s] = b]
    BY <1>7 DEF s
  <2>2. f = Written(e, WriteBlock(q, PtrBlock(ptrs)))
    OBVIOUS
  <2>3. e \in DiskType /\ OwnedOnce(e) /\ i \in InodeNum /\ b \in Pointer
    BY <1>1
  <2> HIDE DEF f
  <2>4. f.inode = e.inode /\ f.blockMap = e.blockMap /\ SameInodeMap(f, e)
    BY <1>6, <1>9, <1>10, <2>1, <2>2, <2>3, SlotPut
  <2>5. \A y \in Block : f.blk[y] = IF y = q THEN PtrBlock(ptrs) ELSE e.blk[y]
    BY <1>6, <1>9, <1>10, <2>1, <2>2, <2>3, SlotPut
  <2>6. ptrs \in [Slot -> Pointer]
    <3>1. IndirectPtrs(e, e.inode[i]) \in [Slot -> Pointer]
      BY <1>1, IndirectTyped
    <3> QED BY <1>10, <2>1, <2>3, <3>1
  <2>9. f \in DiskType
    <3>1. q \in Pointer /\ PtrBlock(ptrs) \in BlockType
      BY <1>9, <2>6, BlocksAre DEF Pointer
    <3> QED BY <2>2, <2>3, <3>1, BlockWritten
  <2>7. OnlyPtr(f, e, i, s + 2, b)
    BY <1>6, <1>9, <1>10, <2>1, <2>2, <2>3, SlotPut
  <2>8. SameTypes(f, e)
    BY <1>6, <1>9, <1>10, <2>1, <2>2, <2>3, SlotPut
  <2> QED BY <2>4, <2>5, <2>6, <2>7, <2>8, <2>9
<1>12. f.blockMap = e.blockMap /\ SameInodeMap(f, e) /\ f.inode = e.inode
  BY <1>11
<1>13. OnlyIndirect(f, e, i)
  BY <1>9, <1>11 DEF OnlyIndirect, PtrBlock
<1>14. IndirectPtrs(f, f.inode[i]) = ptrs
  <2>1. f.blk[q] = PtrBlock(ptrs)
    BY <1>9, <1>11
  <2>2. Ptrs(PtrBlock(ptrs)) = ptrs
    BY DEF Ptrs, PtrBlock
  <2>3. f.inode[i].indir = q
    BY <1>8, <1>12
  <2> QED BY <1>6, <2>1, <2>2, <2>3 DEF IndirectPtrs
<1>15. f.inode[i] = InodeNow(d, d.inode[i], W, u) /\ \A j \in InodeNum \ {i} : f.inode[j] = e.inode[j]
  BY <1>8, <1>12 DEF n
<1>16. Leads(e, Allocate(link, b), PutDisks(d, i, W, u), Owned)
  <2>1. OnlyPtr(f, e, i, k, NewFor(d, W, u)) /\ f = Written(e, link)
    BY <1>11 DEF b
  <2>2. IndirectPtrs(f, f.inode[i]) = PtrsNow(d, d.inode[i], W, u)
    BY <1>14 DEF n, ptrs
  <2>3. f \in DiskType /\ SameTypes(f, e) /\ f.blockMap = e.blockMap /\ SameInodeMap(f, e) /\ k \in Pos
    BY <1>10, <1>11, <1>12
  <2> HIDE DEF f, link, k
  <2> QED BY <1>13, <1>15, <2>1, <2>2, <2>3, PutLinked DEF b
<1>17. u % 2 # 0
  BY DEF Evens
<1> QED BY <1>16, <1>17 DEF AllocNow, LinkNow, link, ptrs, q, n, b

\* One number more.
LEMMA PutAlloc ==
  ASSUME NEW d, NEW i, NEW W, NEW from, NEW to, Filling(d, i, W, from, to),
         NEW v \in Int, NEW u, u = v + 1, NEW e \in PutDisks(d, i, W, v)
  PROVE  Leads(e, AllocNow(d, i, W, u), PutDisks(d, i, W, u), Owned)
<1>1. CASE u \notin W
  <2>1. PutDisks(d, i, W, u) = PutDisks(d, i, W, v)
    BY <1>1, PutSame
  <2>2. e \in PutDisks(d, i, W, u)
    BY <2>1
  <2>3. e \in Owned
    BY <2>2 DEF PutDisks, Owned, BlocksSound
  <2>4. AllocNow(d, i, W, u) = <<>>
    BY <1>1 DEF AllocNow
  <2> QED BY <2>2, <2>3, <2>4, LeadsNone
<1>2. CASE u \in Evens(W)
  BY <1>2, PutIndirect
<1>3. CASE u \in W /\ u \notin Evens(W) /\ u < 4
  BY <1>3, PutDirect
<1>4. CASE u \in W /\ u \notin Evens(W) /\ ~(u < 4)
  BY <1>4, PutSlot
<1> QED BY <1>1, <1>2, <1>3, <1>4

\* The block for index k is there, and gets the data.
LEMMA PutData ==
  ASSUME NEW d, NEW i, NEW W, NEW from, NEW to, Filling(d, i, W, from, to),
         NEW k \in from .. to, NEW u, u = 2 * k + 1, NEW e \in PutDisks(d, i, W, u), NEW v \in Payload
  PROVE  Leads(e, <<WriteBlock(Now(d, W, 2 * k + 1, PtrAt(d, d.inode[i], k), 2 * k + 1), DataBlock(v))>>,
               PutDisks(d, i, W, u), Owned)
<1> DEFINE n == d.inode[i]
           b == Now(d, W, u, PtrAt(d, n, k), u)
           c == DataBlock(v)
           f == Written(e, WriteBlock(b, c))
<1>1. d \in DiskType /\ i \in InodeNum /\ n \in InodeType /\ ~IsDirIn(d, i) /\ from \in Nat /\ to \in Nat
  <2>1. d \in DiskType /\ i \in InodeNum /\ ~IsDirIn(d, i) /\ from \in Nat /\ to \in Nat
    BY DEF Filling
  <2> QED BY <2>1, DiskParts
<1>2. /\ e \in DiskType /\ BlocksSound(e) /\ SameInodeMap(e, d)
      /\ \A j \in InodeNum \ {i} : e.inode[j] = d.inode[j]
      /\ e.inode[i] = InodeNow(d, n, W, u)
      /\ IndirectPtrs(e, e.inode[i]) = PtrsNow(d, n, W, u)
      /\ e.blockMap = d.blockMap \cup {NewFor(d, W, w) : w \in {x \in W : x <= u}}
      /\ \A j \in InodeNum \ {i}, l \in Pos :
           /\ PtrOf(e, j, l) = PtrOf(d, j, l)
           /\ PtrOf(d, j, l) # 0 => e.blk[PtrOf(d, j, l)] = d.blk[PtrOf(d, j, l)]
  BY DEF PutDisks
<1>3. k \in Nat /\ k \in 0 .. MaxBlocks - 1 /\ u \in Nat /\ u <= u
  <2>1. k \in 0 .. MaxBlocks - 1
    BY FillingIs
  <2> QED BY <1>1, <2>1
<1>4. k + 1 \in DataPos /\ PtrAt(d, n, k) = PtrOf(d, i, k + 1)
  BY <1>3, IndexIs, PtrAtIs
<1>5. PtrOf(e, i, k + 1) = b
  <2>1. CASE k = 0
    <3>1. PtrOf(e, i, 1) = e.inode[i].direct[1] /\ PtrOf(d, i, 1) = n.direct[1]
      BY PtrByPos
    <3>2. e.inode[i].direct[1] = Now(d, W, 1, n.direct[1], u)
      BY <1>1, <1>2, InodeNowIs
    <3>3. k + 1 = 1 /\ u = 1
      BY <2>1
    <3> QED BY <1>4, <3>1, <3>2, <3>3
  <2>2. CASE k = 1
    <3>1. PtrOf(e, i, 2) = e.inode[i].direct[2] /\ PtrOf(d, i, 2) = n.direct[2]
      BY PtrByPos
    <3>2. e.inode[i].direct[2] = Now(d, W, 3, n.direct[2], u)
      BY <1>1, <1>2, InodeNowIs
    <3>3. k + 1 = 2 /\ u = 3
      BY <2>2
    <3> QED BY <1>4, <3>1, <3>2, <3>3
  <2>3. CASE ~(k < 2)
    <3> DEFINE s == k - 1
    <3>1. s \in Slot /\ s + 2 = k + 1
      BY <1>3, <2>3, IndexIs
    <3>2. 2 * s + 3 = u
      BY <1>3
    <3> HIDE DEF s
    <3>3. PtrOf(e, i, s + 2) = IndirectPtrs(e, e.inode[i])[s] /\ PtrOf(d, i, s + 2) = IndirectPtrs(d, n)[s]
      BY <3>1, PtrByPos
    <3>4. PtrsNow(d, n, W, u)[s] = Now(d, W, 2 * s + 3, IndirectPtrs(d, n)[s], u)
      BY <3>1 DEF PtrsNow
    <3>5. PtrsNow(d, n, W, u)[s] = Now(d, W, u, PtrAt(d, n, k), u)
      BY <1>4, <3>1, <3>2, <3>3, <3>4
    <3> QED BY <1>2, <3>1, <3>3, <3>5
  <2> QED BY <1>3, <2>1, <2>2, <2>3
<1>6. b # 0
  <2>1. CASE PtrOf(d, i, k + 1) = 0
    <3>1. u \in W
      BY <2>1, FillingIs
    <3>2. b = NewFor(d, W, u)
      BY <1>3, <3>1, NowNew
    <3> QED BY <3>1, <3>2, NewForFree, BlocksArePositive
  <2>2. CASE PtrOf(d, i, k + 1) # 0
    <3>1. u \notin W
      <4>1. ASSUME u \in W PROVE FALSE
        <5>1. u \notin Evens(W)
          BY <1>3, FillingIs
        <5>2. PICK x \in from .. to : u = 2 * x + 1 /\ PtrOf(d, i, x + 1) = 0
          BY <4>1, <5>1, FillingIs
        <5>3. x = k
          BY <1>1, <1>3, <5>2
        <5> QED BY <2>2, <5>2, <5>3
      <4> QED BY <4>1
    <3>2. b = PtrAt(d, n, k)
      BY <3>1 DEF Now
    <3> QED BY <1>4, <2>2, <3>2
  <2> QED BY <2>1, <2>2
<1>7. c \in BlockType /\ c.kind \in {"zero", KindOf(e.inode[i], k + 1)}
  <2>1. c \in BlockType
    BY BlocksAre
  <2>2. c.kind = "data"
    BY DEF DataBlock
  <2>3. e.inode[i].type = n.type
    BY <1>1, <1>2, InodeNowIs
  <2>4. e.inode[i].type # "dir"
    BY <1>1, <2>3 DEF IsDirIn
  <2>5. k + 1 # 0
    BY <1>3
  <2>6. KindOf(e.inode[i], k + 1) = "data"
    BY <2>4, <2>5 DEF KindOf
  <2> QED BY <2>1, <2>2, <2>6
<1> DEFINE l1 == k + 1
<1>8. l1 \in DataPos /\ l1 \in Pos /\ PtrOf(e, i, l1) = b /\ c.kind \in {"zero", KindOf(e.inode[i], l1)}
  BY <1>4, <1>5, <1>7, PosIs
<1> HIDE DEF l1, b, c, n
<1>9. /\ f \in DiskType /\ BlocksSound(f)
      /\ \A x \in Block : f.blk[x] = IF x = b THEN c ELSE e.blk[x]
      /\ SamePtrs(f, e)
  <2>1. f = Written(e, WriteBlock(PtrOf(e, i, l1), c))
    BY <1>8
  <2> HIDE DEF f
  <2>2. f \in DiskType /\ BlocksSound(f) /\ SamePtrs(f, e)
    BY <1>1, <1>2, <1>6, <1>7, <1>8, <2>1, ContentWritten
  <2>3. \A x \in Block : f.blk[x] = IF x = PtrOf(e, i, l1) THEN c ELSE e.blk[x]
    BY <1>1, <1>2, <1>6, <1>7, <1>8, <2>1, ContentWritten
  <2> QED BY <1>8, <2>2, <2>3
<1>10. f.inode = e.inode /\ f.blockMap = e.blockMap /\ SameInodeMap(f, e)
  <2>1. b \in Pointer
    BY <1>1, <1>2, <1>8, PtrTyped
  <2>2. SameBut(f, e, "blk")
    BY <1>2, <1>7, <2>1, BlockWritten
  <2> QED BY <2>2 DEF SameBut, SameInodeMap
<1>11. f \in PutDisks(d, i, W, u)
  <2>1. SameInodeMap(f, d)
    BY <1>2, <1>10 DEF SameInodeMap
  <2>2. IndirectPtrs(f, f.inode[i]) = PtrsNow(d, n, W, u)
    <3>1. \A s \in Slot : IndirectPtrs(f, f.inode[i])[s] = IndirectPtrs(e, e.inode[i])[s]
      <4> TAKE s \in Slot
      <4>1. s + 2 \in Pos
        BY PosIs
      <4>2. PtrOf(f, i, s + 2) = PtrOf(e, i, s + 2)
        BY <1>1, <1>9, <4>1 DEF SamePtrs
      <4> QED BY <4>2, PtrByPos
    <3>2. IndirectPtrs(f, f.inode[i]) \in [Slot -> Pointer] /\ IndirectPtrs(e, e.inode[i]) \in [Slot -> Pointer]
      <4>1. f.inode[i] \in InodeType /\ e.inode[i] \in InodeType
        BY <1>1, <1>2, <1>9, DiskParts
      <4> QED BY <1>2, <1>9, <4>1, IndirectTyped
    <3> QED BY <1>2, <3>1, <3>2
  <2>3. ASSUME NEW j \in InodeNum \ {i}, NEW l \in Pos
        PROVE  /\ PtrOf(f, j, l) = PtrOf(d, j, l)
               /\ PtrOf(d, j, l) # 0 => f.blk[PtrOf(d, j, l)] = d.blk[PtrOf(d, j, l)]
    <3>1. PtrOf(f, j, l) = PtrOf(e, j, l) /\ PtrOf(e, j, l) = PtrOf(d, j, l)
      BY <1>2, <1>9 DEF SamePtrs
    <3>2. ASSUME PtrOf(e, j, l) # 0 PROVE f.blk[PtrOf(e, j, l)] = e.blk[PtrOf(e, j, l)]
      <4>1. PtrOf(e, j, l) \in Block
        BY <1>2, <3>2, PtrTyped DEF Pointer
      <4>2. PtrOf(e, j, l) # b
        BY <1>1, <1>2, <1>8, <3>2 DEF BlocksSound, OwnedOnce
      <4> QED BY <1>9, <4>1, <4>2
    <3> QED BY <1>2, <3>1, <3>2
  <2>4. /\ \A j \in InodeNum \ {i} : f.inode[j] = d.inode[j]
        /\ f.inode[i] = InodeNow(d, n, W, u)
        /\ f.blockMap = d.blockMap \cup {NewFor(d, W, w) : w \in {x \in W : x <= u}}
    BY <1>2, <1>10
  <2> HIDE DEF f
  <2> QED BY <1>9, <2>1, <2>2, <2>3, <2>4 DEF PutDisks, n
<1>12. f \in Owned /\ e \in Owned
  BY <1>2, <1>9 DEF Owned, BlocksSound
<1>13. Leads(e, <<WriteBlock(b, c)>>, PutDisks(d, i, W, u), Owned)
  <2> DEFINE w == WriteBlock(b, c)
  <2>1. Written(e, w) \in PutDisks(d, i, W, u) /\ Written(e, w) \in Owned
    BY <1>11, <1>12
  <2> HIDE DEF w
  <2>2. Leads(e, <<w>>, PutDisks(d, i, W, u), Owned)
    BY <1>12, <2>1, LeadsOne
  <2> QED BY <2>2 DEF w
<1> QED BY <1>13 DEF b, c, n

\* The blocks for index k.
LEMMA PutNowLeads ==
  ASSUME NEW d, NEW i, NEW W, NEW from, NEW to, Filling(d, i, W, from, to),
         NEW k \in from .. to, NEW u, u = 2 * k - 1, NEW t, t = 2 * k + 1,
         NEW e \in PutDisks(d, i, W, u), NEW v \in Payload
  PROVE  /\ PutNow(d, i, W, k, v) \in Seq(Writes)
         /\ Leads(e, PutNow(d, i, W, k, v), PutDisks(d, i, W, t), Owned)
<1> DEFINE s == 2 * k
           put == <<WriteBlock(Now(d, W, 2 * k + 1, PtrAt(d, d.inode[i], k), 2 * k + 1), DataBlock(v))>>
           one == AllocNow(d, i, W, s)
           two == AllocNow(d, i, W, t)
           C == PutDisks(d, i, W, t)
           B == PutDisks(d, i, W, s)
<1>1. d \in DiskType /\ i \in InodeNum /\ from \in Nat /\ to \in Nat /\ Enough(d, Cardinality(W))
  BY DEF Filling
<1>2. W \subseteq Nat /\ IsFiniteSet(W) /\ k \in 0 .. MaxBlocks - 1
  BY FillingIs
<1>3. k \in Nat /\ u \in Int /\ s = u + 1 /\ s \in Int /\ t = s + 1
  BY <1>1
<1>4. one \in Seq(Writes) /\ two \in Seq(Writes)
  BY <1>1, <1>2, AllocNowTyped
<1>5. put \in Seq(Writes)
  <2> DEFINE at0 == Now(d, W, 2 * k + 1, PtrAt(d, d.inode[i], k), 2 * k + 1)
  <2>1. PtrAt(d, d.inode[i], k) \in Pointer
    <3> DEFINE q == k + 1
    <3>1. q \in Pos /\ PtrAt(d, d.inode[i], k) = PtrOf(d, i, q)
      BY <1>2, IndexIs, PtrAtIs, PosIs
    <3> HIDE DEF q
    <3> QED BY <1>1, <3>1, PtrTyped
  <2>2. at0 \in Pointer
    BY <1>1, <1>2, <2>1, NewForTyped DEF Now
  <2> HIDE DEF at0
  <2>3. WriteBlock(at0, DataBlock(v)) \in Writes
    BY <2>2, WritesAre, BlocksAre
  <2> QED BY <2>3 DEF at0
<1>6. Leads(e, one, B, Owned)
  BY <1>3, PutAlloc
<1>7. \A f \in B : Leads(f, two, C, Owned)
  BY <1>3, PutAlloc
<1>8. \A f \in C : Leads(f, put, C, Owned)
  BY PutData
<1> HIDE DEF one, two, put, B, C
<1>9. one \o two \in Seq(Writes) /\ Leads(e, one \o two, C, Owned)
  <2>1. Leads(e, one \o two, C, Owned)
    BY <1>4, <1>6, <1>7, LeadsConcat
  <2> QED BY <1>4, <2>1
<1>10. (one \o two) \o put \in Seq(Writes) /\ Leads(e, (one \o two) \o put, C, Owned)
  <2> DEFINE both == one \o two
  <2>1. both \in Seq(Writes) /\ Leads(e, both, C, Owned)
    BY <1>9
  <2> HIDE DEF both
  <2>2. Leads(e, both \o put, C, Owned)
    BY <1>5, <1>8, <2>1, LeadsConcat
  <2>3. both \o put \in Seq(Writes)
    BY <1>5, <2>1
  <2> QED BY <2>2, <2>3 DEF both
<1>11. PutNow(d, i, W, k, v) = (one \o two) \o put
  BY DEF PutNow, one, two, put
<1> QED BY <1>10, <1>11 DEF C

\* The blocks of a write.
LEMMA PutBlocksLeads ==
  ASSUME NEW d, NEW i, NEW W, NEW from, NEW to, Filling(d, i, W, from, to), NEW v \in Payload
  PROVE  /\ PutBlocks(d, i, from, to, v) \in Seq(Writes)
         /\ Leads(d, PutBlocks(d, i, from, to, v), PutDisks(d, i, W, 2 * to + 1), Owned)
<1> DEFINE m == to - from + 1
           B == [x \in 0 .. m |-> PutDisks(d, i, W, 2 * (from + x) - 1)]
           parts == [x \in 1 .. m |-> PutNow(d, i, W, from + x - 1, v)]
<1>1. from \in Nat /\ to \in Nat /\ from <= to /\ W = Wanted(d, d.inode[i], from .. to)
  BY DEF Filling
<1>2. m \in Nat \ {0} /\ 0 \in 0 .. m /\ m \in 0 .. m
  BY <1>1
<1>3. PutBlocks(d, i, from, to, v) = Seqs!FlattenSeq(parts)
  BY <1>1, PutBlocksIs
<1>4. d \in B[0]
  <2>1. W \subseteq Nat
    BY FillingIs
  <2>2. ASSUME NEW w \in W PROVE ~(w <= 2 * from - 1)
    <3>1. CASE w \in Evens(W)
      <4>1. w >= 2 * from /\ w \in Nat
        BY <2>1, <3>1, FillingIs
      <4> QED BY <1>1, <4>1
    <3>2. CASE w \notin Evens(W)
      <4>1. PICK k \in from .. to : w = 2 * k + 1
        BY <3>2, FillingIs
      <4> QED BY <1>1, <4>1
    <3> QED BY <3>1, <3>2
  <2> DEFINE u == 2 * from - 1
  <2>3. u \in Int /\ \A w \in W : ~(w <= u)
    BY <1>1, <2>2
  <2>4. 2 * (from + 0) - 1 = u
    BY <1>1
  <2> HIDE DEF u
  <2>5. d \in PutDisks(d, i, W, u)
    BY <2>3, PutStart
  <2>6. B[0] = PutDisks(d, i, W, u)
    BY <1>2, <2>4
  <2> QED BY <2>5, <2>6
<1>5. ASSUME NEW x \in 1 .. m, NEW e \in B[x - 1]
      PROVE  parts[x] \in Seq(Writes) /\ Leads(e, parts[x], B[x], Owned)
  <2> DEFINE k == from + x - 1
             u == 2 * k - 1
             t == 2 * k + 1
  <2>1. k \in from .. to /\ x - 1 \in 0 .. m /\ x \in 0 .. m
    BY <1>1
  <2>2. 2 * (from + (x - 1)) - 1 = u /\ 2 * (from + x) - 1 = t
    BY <1>1
  <2>3. B[x - 1] = PutDisks(d, i, W, u) /\ B[x] = PutDisks(d, i, W, t)
    BY <2>1, <2>2
  <2>4. parts[x] = PutNow(d, i, W, k, v)
    OBVIOUS
  <2>5. u = 2 * k - 1 /\ t = 2 * k + 1 /\ e \in PutDisks(d, i, W, u)
    BY <1>5, <2>3
  <2> HIDE DEF k, u, t, B, parts, m
  <2>6. PutNow(d, i, W, k, v) \in Seq(Writes) /\ Leads(e, PutNow(d, i, W, k, v), PutDisks(d, i, W, t), Owned)
    BY <2>1, <2>5, PutNowLeads
  <2> QED BY <2>3, <2>4, <2>6
<1>6. \A x \in 1 .. m : PutNow(d, i, W, from + x - 1, v) \in Seq(Writes)
  <2> TAKE x \in 1 .. m
  <2> DEFINE k == from + x - 1
             u == 2 * k - 1
             t == 2 * k + 1
  <2>1. k \in from .. to
    BY <1>1
  <2>2. W \subseteq Nat /\ IsFiniteSet(W) /\ d \in DiskType /\ i \in InodeNum /\ Enough(d, Cardinality(W))
        /\ k \in 0 .. MaxBlocks - 1
    <3>1. d \in DiskType /\ i \in InodeNum /\ Enough(d, Cardinality(W))
      BY DEF Filling
    <3>2. W \subseteq Nat /\ IsFiniteSet(W) /\ k \in 0 .. MaxBlocks - 1
      BY <2>1, FillingIs
    <3> QED BY <3>1, <3>2
  <2> HIDE DEF k, m
  <2>3. PutNow(d, i, W, k, v) \in Seq(Writes)
    BY <2>2, PutNowTyped
  <2> QED BY <2>3 DEF k
<1> HIDE DEF m
<1>7. parts \in Seq(Seq(Writes)) /\ Len(parts) = m
  BY <1>2, <1>6
<1> HIDE DEF parts
<1>8. \A x \in 1 .. m : \A e \in B[x - 1] : Leads(e, parts[x], B[x], Owned)
  BY <1>5
<1>9. B[m] = PutDisks(d, i, W, 2 * to + 1)
  <2>1. 2 * (from + m) - 1 = 2 * to + 1
    BY <1>1 DEF m
  <2> QED BY <1>2, <2>1
<1> HIDE DEF B
<1> QED BY <1>2, <1>3, <1>4, <1>7, <1>8, <1>9, LeadsFlatten

\* The sound disks with the inodes of d.
Kept(d) == {e \in DiskType : Sound(e) /\ e.inodeMap = d.inodeMap /\ SameTypes(e, d)}

\* Where nothing but pointers and data of a file are new the disk is sound.
LEMMA FilledSound ==
  ASSUME NEW d, Sound(d), NEW i \in d.inodeMap, ~IsDirIn(d, i), NEW e \in DiskType, BlocksSound(e),
         SameInodeMap(e, d), SameTypes(e, d), \A j \in InodeNum \ {i} : e.inode[j] = d.inode[j],
         \A j \in InodeNum \ {i}, l \in Pos :
           /\ PtrOf(e, j, l) = PtrOf(d, j, l)
           /\ PtrOf(d, j, l) # 0 => e.blk[PtrOf(d, j, l)] = d.blk[PtrOf(d, j, l)]
  PROVE  e \in Kept(d)
<1>1. /\ d \in DiskType /\ FreeBlank(d) /\ \A j \in DirInodes(d) : NoHoles(d, j)
      /\ d.inodeMap \subseteq InodeNum
  <2>1. d \in DiskType /\ FreeBlank(d) /\ \A j \in DirInodes(d) : NoHoles(d, j)
    BY SoundParts
  <2> QED BY <2>1, DiskParts
<1>2. e.inodeMap = d.inodeMap
  BY DEF SameInodeMap
<1>3. ASSUME NEW j \in DirInodes(d) PROVE SameCells(e, d, j) /\ NoHoles(e, j)
  <2>1. j \in InodeNum \ {i} /\ NoHoles(d, j)
    BY <1>1 DEF DirInodes
  <2>2. \A k \in DataPos : k \in Pos
    BY PosIs
  <2>3. \A k \in DataPos : EntsAt(e, j, k) = EntsAt(d, j, k)
    BY <2>1, <2>2 DEF EntsAt
  <2>4. SameCells(e, d, j)
    BY <2>3, SameEnts
  <2>5. NoHoles(e, j)
    BY <2>1, <2>2 DEF NoHoles
  <2> QED BY <2>4, <2>5
<1>4. \A j \in InodeNum \ e.inodeMap : e.inode[j] = FreeInode
  BY <1>1, <1>2 DEF FreeBlank
<1>5. Sound(e)
  BY <1>3, <1>4, QuietSound
<1> QED BY <1>2, <1>5 DEF Kept

\* A write to a file.
LEMMA WriteLeads ==
  ASSUME NEW d, Sound(d), NEW i, NEW W, NEW from, NEW to, Filling(d, i, W, from, to),
         i \in d.inodeMap, NEW v \in Payload, NEW alloc \in Int, NEW free \in Int
  PROVE  LET ws == PutBlocks(d, i, from, to, v) \o <<PutInfo(alloc, free)>>
         IN  ws \in Seq(Writes) /\ Leads(d, ws, Kept(d), Owned)
<1> DEFINE put == PutBlocks(d, i, from, to, v)
           w == PutInfo(alloc, free)
           info == <<w>>
           u == 2 * to + 1
           A == PutDisks(d, i, W, u)
<1>1. put \in Seq(Writes) /\ Leads(d, put, A, Owned)
  BY PutBlocksLeads
<1>2. w \in Writes /\ info \in Seq(Writes)
  BY WritesAre
<1>3. d \in DiskType /\ i \in InodeNum /\ ~IsDirIn(d, i) /\ d.inode[i] \in InodeType
  <2>1. d \in DiskType /\ i \in InodeNum /\ ~IsDirIn(d, i)
    BY DEF Filling
  <2> QED BY <2>1, DiskParts
<1>4. ASSUME NEW e \in A PROVE Leads(e, info, Kept(d), Owned)
  <2> DEFINE f == Written(e, w)
  <2>1. /\ e \in DiskType /\ BlocksSound(e) /\ SameInodeMap(e, d)
        /\ \A j \in InodeNum \ {i} : e.inode[j] = d.inode[j]
        /\ e.inode[i] = InodeNow(d, d.inode[i], W, u)
        /\ \A j \in InodeNum \ {i}, l \in Pos :
             /\ PtrOf(e, j, l) = PtrOf(d, j, l)
             /\ PtrOf(d, j, l) # 0 => e.blk[PtrOf(d, j, l)] = d.blk[PtrOf(d, j, l)]
    BY DEF PutDisks
  <2>2. SameTypes(e, d)
    <3>1. e.inode[i].type = d.inode[i].type
      BY <1>3, <2>1, InodeNowIs
    <3> QED BY <2>1, <3>1 DEF SameTypes
  <2>3. /\ f \in DiskType /\ f.inode = e.inode /\ f.blk = e.blk /\ f.blockMap = e.blockMap
        /\ f.inodeMap = e.inodeMap /\ f.info.inodes = e.info.inodes
    <3>0. e \in DiskType /\ alloc \in Int /\ free \in Int
      BY <2>1
    <3>1. f \in DiskType /\ SameBut(f, e, "info") /\ f.info.inodes = e.info.inodes
      BY <3>0, InfoPut
    <3> QED BY <3>1 DEF SameBut
  <2> HIDE DEF f, A, w, u, info
  <2>4. BlocksSound(f) /\ SameTypes(f, d) /\ SameInodeMap(f, d)
    <3>1. BlocksSound(e) => BlocksSound(f)
      <4>1. \A j, k : PtrOf(f, j, k) = PtrOf(e, j, k)
        BY <2>3, SameData
      <4> QED BY <2>3, <4>1 DEF BlocksSound, OwnedOnce, Marked, KindsRight
    <3>2. SameTypes(f, d)
      BY <2>2, <2>3 DEF SameTypes
    <3>3. SameInodeMap(f, d)
      BY <2>1, <2>3 DEF SameInodeMap
    <3> QED BY <2>1, <3>1, <3>2, <3>3
  <2>5. \A j, l : PtrOf(f, j, l) = PtrOf(e, j, l)
    BY <2>3, SameData
  <2>6. f \in Kept(d)
    <3>1. \A j \in InodeNum \ {i} : f.inode[j] = d.inode[j]
      BY <2>1, <2>3
    <3>2. \A j \in InodeNum \ {i}, l \in Pos :
             /\ PtrOf(f, j, l) = PtrOf(d, j, l)
             /\ PtrOf(d, j, l) # 0 => f.blk[PtrOf(d, j, l)] = d.blk[PtrOf(d, j, l)]
      BY <2>1, <2>3, <2>5
    <3> QED BY <1>3, <2>3, <2>4, <3>1, <3>2, FilledSound
  <2>7. e \in Owned /\ f \in Owned
    BY <2>1, <2>3, <2>4 DEF Owned, BlocksSound
  <2>8. Written(e, w) \in Kept(d) /\ Written(e, w) \in Owned
    BY <2>6, <2>7 DEF f
  <2>9. Leads(e, <<w>>, Kept(d), Owned)
    BY <2>7, <2>8, LeadsOne
  <2> QED BY <2>9 DEF info
<1> HIDE DEF put, info, A
<1>5. Leads(d, put \o info, Kept(d), Owned)
  BY <1>1, <1>2, <1>4, LeadsConcat
<1>6. put \o info \in Seq(Writes)
  BY <1>1, <1>2
<1> QED BY <1>5, <1>6 DEF put, info, w

---------------------------------------------------------------------------
(* Files are removed *)

\* On e all inodes but i are as on d, and their blocks.
OthersSame(e, d, i) ==
  \A j \in InodeNum \ {i} :
    /\ e.inode[j] = d.inode[j]
    /\ \A l \in Pos : /\ PtrOf(e, j, l) = PtrOf(d, j, l)
                      /\ PtrOf(d, j, l) # 0 => e.blk[PtrOf(d, j, l)] = d.blk[PtrOf(d, j, l)]

\* Two steps that leave the other inodes alone do so together.
LEMMA OthersOn ==
  ASSUME NEW d, NEW e, NEW f, NEW i, OthersSame(e, d, i), OthersSame(f, e, i)
  PROVE  OthersSame(f, d, i)
BY DEF OthersSame

\* A block of inode i is given back, and its pointer cleared.
LEMMA FreedOthers ==
  ASSUME NEW e \in DiskType, BlocksSound(e), NEW i \in InodeNum, NEW k \in Pos,
         NEW b \in Block, PtrOf(e, i, k) = b, NEW g \in FreedOf(e, b),
         NEW f \in DiskType, OnlyPtr(f, g, i, k, 0), SameTypes(f, g), f.blockMap = g.blockMap,
         SameInodeMap(f, g), \A j \in InodeNum \ {i} : f.inode[j] = g.inode[j],
         \A x \in Block : f.blk[x] = g.blk[x] \/ (x = PtrOf(e, i, 0) /\ x # b /\ f.blk[x].kind = "ptr")
  PROVE  BlocksSound(f) /\ SameInodeMap(f, e) /\ OthersSame(f, e, i)
<1>1. BlocksSound(f)
  BY FreedSound
<1>2. /\ g.inode = e.inode /\ SameInodeMap(g, e) /\ SamePtrs(g, e)
      /\ \A x \in Block : g.blk[x] = IF x = b THEN Zero ELSE e.blk[x]
  BY DEF FreedOf
<1>3. SameInodeMap(f, e)
  BY <1>2 DEF SameInodeMap
<1>4. ASSUME NEW j \in InodeNum \ {i}, NEW l \in Pos
      PROVE  /\ PtrOf(f, j, l) = PtrOf(e, j, l)
             /\ PtrOf(e, j, l) # 0 => f.blk[PtrOf(e, j, l)] = e.blk[PtrOf(e, j, l)]
  <2>1. PtrOf(f, j, l) = PtrOf(e, j, l)
    BY <1>2 DEF OnlyPtr, SamePtrs
  <2>2. ASSUME PtrOf(e, j, l) # 0 PROVE f.blk[PtrOf(e, j, l)] = e.blk[PtrOf(e, j, l)]
    <3>1. PtrOf(e, j, l) \in Block
      BY <2>2, PtrTyped DEF Pointer
    <3>2. PtrOf(e, j, l) # b /\ PtrOf(e, j, l) # PtrOf(e, i, 0)
      BY <2>2, PosIs DEF BlocksSound, OwnedOnce
    <3> QED BY <1>2, <3>1, <3>2
  <2> QED BY <2>1, <2>2
<1>5. \A j \in InodeNum \ {i} : f.inode[j] = e.inode[j]
  BY <1>2
<1> QED BY <1>1, <1>3, <1>4, <1>5 DEF OthersSame

\* The inode and the pointers of its indirect block when those up to position u
\* are cleared, and the disks on which their blocks are given back.
InodeLeft(d, c, u) ==
  [d.inode[c] EXCEPT !.direct = [k \in DOMAIN @ |-> IF k <= u THEN 0 ELSE @[k]]]
PtrsLeft(d, c, s) ==
  [k \in DOMAIN IndirectPtrs(d, d.inode[c]) |-> IF k <= s THEN 0 ELSE IndirectPtrs(d, d.inode[c])[k]]
\* The disks after the first u pointers of c are freed.
FreedTo(d, c, u) ==
  {e \in DiskType : /\ BlocksSound(e) /\ SameInodeMap(e, d) /\ OthersSame(e, d, c)
                    /\ e.inode[c] = InodeLeft(d, c, u)
                    /\ IndirectPtrs(e, e.inode[c]) = PtrsLeft(d, c, u - 2)}

\* The pointers that are left when the first u are cleared.
LEMMA LeftParts ==
  ASSUME NEW d \in DiskType, NEW c \in InodeNum, NEW u
  PROVE  /\ InodeLeft(d, c, u) = [type |-> d.inode[c].type, indir |-> d.inode[c].indir,
               direct |-> <<IF 1 <= u THEN 0 ELSE d.inode[c].direct[1],
                            IF 2 <= u THEN 0 ELSE d.inode[c].direct[2]>>]
         /\ PtrsLeft(d, c, u) = [k \in Slot |-> IF k <= u THEN 0 ELSE IndirectPtrs(d, d.inode[c])[k]]
         /\ InodeLeft(d, c, u) \in InodeType /\ PtrsLeft(d, c, u) \in [Slot -> Pointer]
<1> DEFINE n == d.inode[c]
           ptrs == IndirectPtrs(d, n)
           dir == [k \in DOMAIN n.direct |-> IF k <= u THEN 0 ELSE n.direct[k]]
           row == <<IF 1 <= u THEN 0 ELSE n.direct[1], IF 2 <= u THEN 0 ELSE n.direct[2]>>
<1>1. n \in InodeType /\ ptrs \in [Slot -> Pointer]
  BY DiskParts, IndirectTyped
<1>2. n.direct \in [1 .. 2 -> Pointer] /\ n.indir \in Pointer /\ n.type \in {"file", "dir"}
  BY <1>1 DEF InodeType
<1>3. dir = row
  BY <1>2
<1>4. row \in [1 .. 2 -> Pointer]
  <2>1. 0 \in Pointer /\ n.direct[1] \in Pointer /\ n.direct[2] \in Pointer
    BY <1>2 DEF Pointer
  <2> QED BY <2>1
<1>5. InodeLeft(d, c, u) = [n EXCEPT !.direct = dir]
  BY DEF InodeLeft
<1> HIDE DEF dir, row, ptrs
<1>6. InodeLeft(d, c, u) = [type |-> n.type, indir |-> n.indir, direct |-> row]
  BY <1>1, <1>3, <1>5 DEF InodeType
<1>7. InodeLeft(d, c, u) \in InodeType
  BY <1>2, <1>4, <1>6 DEF InodeType
<1>8. PtrsLeft(d, c, u) = [k \in Slot |-> IF k <= u THEN 0 ELSE ptrs[k]]
  BY <1>1 DEF PtrsLeft, ptrs
<1>9. PtrsLeft(d, c, u) \in [Slot -> Pointer]
  BY <1>1, <1>8 DEF Pointer
<1> QED BY <1>6, <1>7, <1>8, <1>9 DEF row, ptrs

\* A pointer that is left.
LEMMA PtrLeft ==
  ASSUME NEW d \in DiskType, NEW c \in InodeNum, NEW u \in Int, NEW e \in FreedTo(d, c, u)
  PROVE  /\ PtrOf(e, c, 0) = PtrOf(d, c, 0)
         /\ \A k \in DataPos : PtrOf(e, c, k) = IF k <= u THEN 0 ELSE PtrOf(d, c, k)
<1> DEFINE n == d.inode[c]
           m == e.inode[c]
<1>1. m = InodeLeft(d, c, u) /\ IndirectPtrs(e, m) = PtrsLeft(d, c, u - 2)
  BY DEF FreedTo
<1>2. m.indir = n.indir /\ m.direct[1] = (IF 1 <= u THEN 0 ELSE n.direct[1])
      /\ m.direct[2] = (IF 2 <= u THEN 0 ELSE n.direct[2])
  BY <1>1, LeftParts
<1>3. ASSUME NEW s \in Slot
      PROVE  IndirectPtrs(e, m)[s] = IF s + 2 <= u THEN 0 ELSE IndirectPtrs(d, n)[s]
  <2>1. s \in Nat
    BY SlotsAre
  <2>2. s <= u - 2 <=> s + 2 <= u
    BY <2>1
  <2>3. PtrsLeft(d, c, u - 2)[s] = IF s <= u - 2 THEN 0 ELSE IndirectPtrs(d, n)[s]
    BY LeftParts
  <2> QED BY <1>1, <2>2, <2>3
<1>4. PtrOf(e, c, 0) = PtrOf(d, c, 0)
  BY <1>2, PtrByPos
<1>5. ASSUME NEW k \in DataPos
      PROVE  PtrOf(e, c, k) = IF k <= u THEN 0 ELSE PtrOf(d, c, k)
  <2>1. CASE k = 1
    BY <1>2, <2>1, PtrByPos
  <2>2. CASE k = 2
    BY <1>2, <2>2, PtrByPos
  <2>3. CASE k - 2 \in Slot
    <3> DEFINE s == k - 2
    <3>1. s \in Slot /\ s + 2 = k
      BY <2>3, PosIs
    <3> HIDE DEF s
    <3>2. PtrOf(e, c, s + 2) = IndirectPtrs(e, m)[s] /\ PtrOf(d, c, s + 2) = IndirectPtrs(d, n)[s]
      BY <3>1, PtrByPos
    <3> QED BY <1>3, <3>1, <3>2
  <2> QED BY <2>1, <2>2, <2>3, PosIs
<1> QED BY <1>4, <1>5

\* No pointer is read from the block behind a pointer to data.
LEMMA DataNotRead ==
  ASSUME NEW e, OwnedOnce(e), NEW i \in InodeNum, NEW k \in DataPos, PtrOf(e, i, k) # 0
  PROVE  NotRead(e, PtrOf(e, i, k))
<1>1. \A j \in InodeNum : PtrOf(e, j, 0) # PtrOf(e, i, k)
  <2>1. 0 \in Pos /\ k \in Pos /\ k # 0
    BY PosIs DEF DataPos
  <2> QED BY <2>1 DEF OwnedOnce
<1> QED BY <1>1 DEF NotRead

\* Blocks freed and then a link written lead where the write leads.
LEMMA FreeThenLink ==
  ASSUME NEW e \in DiskType, BlocksSound(e), NEW b \in Block, NotRead(e, b), NEW w \in Writes, NEW C,
         \A g \in FreedOf(e, b) : Written(g, w) \in C, C \subseteq Owned
  PROVE  Free(b) \o <<w>> \in Seq(Writes) /\ Leads(e, Free(b) \o <<w>>, C, Owned)
<1> DEFINE ws == Free(b)
           vs == <<w>>
           A == FreedOf(e, b)
<1>1. ws \in Seq(Writes) /\ vs \in Seq(Writes)
  BY FreeTyped
<1>2. OwnedOnce(e)
  BY DEF BlocksSound
<1>3. Leads(e, ws, A, Owned)
  BY <1>2, FreeLeads
<1>4. ASSUME NEW g \in A PROVE Leads(g, vs, C, Owned)
  <2>1. g \in Owned
    BY <1>2, SameOwned DEF FreedOf, Owned
  <2>2. Written(g, w) \in C /\ Written(g, w) \in Owned
    OBVIOUS
  <2> QED BY <2>1, <2>2, LeadsOne
<1> HIDE DEF ws, vs, A
<1>5. Leads(e, ws \o vs, C, Owned)
  BY <1>1, <1>3, <1>4, LeadsConcat
<1>6. ws \o vs \in Seq(Writes)
  BY <1>1
<1> QED BY <1>5, <1>6 DEF ws, vs

\* A pointer that is zero is as good as cleared.
LEMMA FreedSame ==
  ASSUME NEW d \in DiskType, NEW c \in InodeNum, NEW x \in DataPos, PtrOf(d, c, x) = 0, NEW v, v = x - 1
  PROVE  FreedTo(d, c, x) = FreedTo(d, c, v)
<1> DEFINE n == d.inode[c]
<1>0. x \in Nat
  BY PosIs
<1>1. InodeLeft(d, c, x) = InodeLeft(d, c, v)
  <2>1. (IF 1 <= x THEN 0 ELSE n.direct[1]) = (IF 1 <= v THEN 0 ELSE n.direct[1])
    <3>1. CASE x = 1
      BY <3>1, PtrByPos
    <3>2. CASE x # 1
      BY <1>0, <3>2
    <3> QED BY <3>1, <3>2
  <2>2. (IF 2 <= x THEN 0 ELSE n.direct[2]) = (IF 2 <= v THEN 0 ELSE n.direct[2])
    <3>1. CASE x = 2
      BY <3>1, PtrByPos
    <3>2. CASE x # 2
      BY <1>0, <3>2
    <3> QED BY <3>1, <3>2
  <2>3. /\ InodeLeft(d, c, x) = [type |-> n.type, indir |-> n.indir,
               direct |-> <<IF 1 <= x THEN 0 ELSE n.direct[1], IF 2 <= x THEN 0 ELSE n.direct[2]>>]
        /\ InodeLeft(d, c, v) = [type |-> n.type, indir |-> n.indir,
               direct |-> <<IF 1 <= v THEN 0 ELSE n.direct[1], IF 2 <= v THEN 0 ELSE n.direct[2]>>]
    BY LeftParts
  <2> QED BY <2>1, <2>2, <2>3
<1>2. PtrsLeft(d, c, x - 2) = PtrsLeft(d, c, v - 2)
  <2>1. \A s \in Slot : (IF s <= x - 2 THEN 0 ELSE IndirectPtrs(d, n)[s]) =
                        (IF s <= v - 2 THEN 0 ELSE IndirectPtrs(d, n)[s])
    <3> TAKE s \in Slot
    <3>1. s \in Nat
      BY SlotsAre
    <3>2. CASE s = x - 2
      <4>1. PtrOf(d, c, s + 2) = IndirectPtrs(d, n)[s]
        BY PtrByPos
      <4>2. s + 2 = x
        BY <1>0, <3>2
      <4>3. IndirectPtrs(d, n)[s] = 0
        BY <4>1, <4>2
      <4> QED BY <4>3
    <3>3. CASE s # x - 2
      <4>1. s <= x - 2 <=> s <= v - 2
        BY <1>0, <3>1, <3>3
      <4> QED BY <4>1
    <3> QED BY <3>2, <3>3
  <2>2. /\ PtrsLeft(d, c, x - 2) = [s \in Slot |-> IF s <= x - 2 THEN 0 ELSE IndirectPtrs(d, n)[s]]
        /\ PtrsLeft(d, c, v - 2) = [s \in Slot |-> IF s <= v - 2 THEN 0 ELSE IndirectPtrs(d, n)[s]]
    BY LeftParts
  <2> QED BY <2>1, <2>2
<1> QED BY <1>1, <1>2 DEF FreedTo

\* A direct block is given back.
LEMMA FreeDirect ==
  ASSUME NEW d \in DiskType, NEW c \in InodeNum, NEW x \in 1 .. 2, NEW b, b = PtrOf(d, c, x), b # 0,
         NEW v, v = x - 1, NEW e \in FreedTo(d, c, v)
  PROVE  LET ws == Free(b) \o <<PutInode(c, InodeLeft(d, c, x))>>
         IN  ws \in Seq(Writes) /\ Leads(e, ws, FreedTo(d, c, x), Owned)
<1> DEFINE n == d.inode[c]
           m == InodeLeft(d, c, x)
           w == PutInode(c, m)
<1>0. x \in DataPos /\ x \in Pos /\ v \in Int /\ ~(x <= v)
  BY PosIs
<1>1. /\ e \in DiskType /\ BlocksSound(e) /\ OwnedOnce(e) /\ SameInodeMap(e, d) /\ OthersSame(e, d, c)
      /\ e.inode[c] = InodeLeft(d, c, v)
      /\ IndirectPtrs(e, e.inode[c]) = PtrsLeft(d, c, v - 2)
  BY DEF FreedTo, BlocksSound
<1>2. PtrOf(e, c, x) = b /\ b \in Block
  <2>1. PtrOf(e, c, x) = b
    BY <1>0, PtrLeft
  <2> QED BY <1>0, <1>1, <2>1, PtrTyped DEF Pointer
<1>3. NotRead(e, b)
  BY <1>0, <1>1, <1>2, DataNotRead
<1>4. m \in InodeType /\ w \in Writes
  BY LeftParts, WritesAre
<1>5. m = [e.inode[c] EXCEPT !.direct[x] = 0] /\ m.indir = e.inode[c].indir
  <2> DEFINE row(u) == <<IF 1 <= u THEN 0 ELSE n.direct[1], IF 2 <= u THEN 0 ELSE n.direct[2]>>
  <2>1. m = [type |-> n.type, indir |-> n.indir, direct |-> row(x)] /\ m.indir = n.indir
    BY LeftParts
  <2>2. /\ e.inode[c] = [type |-> n.type, indir |-> n.indir, direct |-> row(v)]
        /\ e.inode[c].indir = n.indir
    BY <1>1, LeftParts
  <2>3. row(x) = [row(v) EXCEPT ![x] = 0]
    <3>1. CASE x = 1
      BY <3>1
    <3>2. CASE x = 2
      BY <3>2
    <3> QED BY <3>1, <3>2
  <2> HIDE DEF row, m
  <2> QED BY <2>1, <2>2, <2>3
<1>6. PtrsLeft(d, c, x - 2) = PtrsLeft(d, c, v - 2)
  <2>1. \A s \in Slot : ~(s <= x - 2) /\ ~(s <= v - 2)
    <3> TAKE s \in Slot
    <3>1. s \in Nat /\ s # 0
      BY PosIs
    <3> QED BY <3>1
  <2>2. /\ PtrsLeft(d, c, x - 2) = [s \in Slot |-> IF s <= x - 2 THEN 0 ELSE IndirectPtrs(d, n)[s]]
        /\ PtrsLeft(d, c, v - 2) = [s \in Slot |-> IF s <= v - 2 THEN 0 ELSE IndirectPtrs(d, n)[s]]
    BY LeftParts
  <2> QED BY <2>1, <2>2
<1>7. ASSUME NEW g \in FreedOf(e, b) PROVE Written(g, w) \in FreedTo(d, c, x)
  <2> DEFINE f == Written(g, w)
  <2>1. /\ g \in DiskType /\ g.inode = e.inode /\ SameInodeMap(g, e) /\ SamePtrs(g, e)
    BY DEF FreedOf
  <2>2. m = [g.inode[c] EXCEPT !.direct[x] = 0] /\ 0 \in Pointer
    BY <1>5, <2>1 DEF Pointer
  <2> HIDE DEF m
  <2>3. f \in DiskType /\ SameBut(f, g, "inode") /\ OnlyPtr(f, g, c, x, 0) /\ SameTypes(f, g)
    BY <2>1, <2>2, DirectLinked
  <2>4. \A j \in InodeNum : f.inode[j] = IF j = c THEN m ELSE g.inode[j]
    BY <1>4, <2>1, InodeWritten
  <2>5. f.blockMap = g.blockMap /\ f.blk = g.blk /\ SameInodeMap(f, g)
    BY <2>3 DEF SameBut, SameInodeMap
  <2>9. f.inode[c] = m
    BY <2>4
  <2> HIDE DEF f, w
  <2>6. BlocksSound(f) /\ SameInodeMap(f, e) /\ OthersSame(f, e, c)
    <3>1. f \in DiskType /\ OnlyPtr(f, g, c, x, 0) /\ SameTypes(f, g)
      BY <2>3
    <3>2. \A j \in InodeNum \ {c} : f.inode[j] = g.inode[j]
      BY <2>4
    <3> QED BY <1>0, <1>1, <1>2, <2>5, <3>1, <3>2, FreedOthers
  <2>7. SameInodeMap(f, d) /\ OthersSame(f, d, c)
    BY <1>1, <2>6, OthersOn DEF SameInodeMap
  <2>8. IndirectPtrs(f, f.inode[c]) = PtrsLeft(d, c, x - 2)
    <3>1. IndirectPtrs(f, f.inode[c]) = IndirectPtrs(g, g.inode[c])
      BY <1>5, <2>1, <2>5, <2>9 DEF IndirectPtrs
    <3>2. IndirectPtrs(g, g.inode[c]) = IndirectPtrs(e, e.inode[c])
      <4>1. \A s \in Slot : IndirectPtrs(g, g.inode[c])[s] = IndirectPtrs(e, e.inode[c])[s]
        <5> TAKE s \in Slot
        <5>1. PtrOf(g, c, s + 2) = PtrOf(e, c, s + 2)
          BY <2>1, PosIs DEF SamePtrs
        <5> QED BY <5>1, PtrByPos
      <4>2. IndirectPtrs(g, g.inode[c]) \in [Slot -> Pointer] /\ IndirectPtrs(e, e.inode[c]) \in [Slot -> Pointer]
        BY <1>1, <2>1, DiskParts, IndirectTyped
      <4> QED BY <4>1, <4>2
    <3> QED BY <1>1, <1>6, <3>1, <3>2
  <2>10. f \in DiskType
    BY <2>3
  <2>11. f \in FreedTo(d, c, x)
    BY <2>6, <2>7, <2>8, <2>9, <2>10 DEF FreedTo, m
  <2> QED BY <2>11 DEF f
<1>8. FreedTo(d, c, x) \subseteq Owned
  BY DEF FreedTo, Owned, BlocksSound
<1> HIDE DEF w
<1>9. Free(b) \o <<w>> \in Seq(Writes) /\ Leads(e, Free(b) \o <<w>>, FreedTo(d, c, x), Owned)
  BY <1>1, <1>2, <1>3, <1>4, <1>7, <1>8, FreeThenLink
<1> QED BY <1>9 DEF w

\* Clearing one slot more.
LEMMA SlotCleared ==
  ASSUME NEW d \in DiskType, NEW c \in InodeNum, NEW s \in Slot
  PROVE  /\ PtrsLeft(d, c, s) = [PtrsLeft(d, c, s - 1) EXCEPT ![s] = 0]
         /\ InodeLeft(d, c, s + 2) = InodeLeft(d, c, s + 1)
<1> DEFINE ptrs == IndirectPtrs(d, d.inode[c])
<1>1. s \in Nat /\ s # 0
  BY PosIs
<1>2. PtrsLeft(d, c, s) = [k \in Slot |-> IF k <= s THEN 0 ELSE ptrs[k]]
  BY LeftParts
<1>3. PtrsLeft(d, c, s - 1) = [k \in Slot |-> IF k <= s - 1 THEN 0 ELSE ptrs[k]]
  BY LeftParts
<1> HIDE DEF ptrs
<1>4. PtrsLeft(d, c, s) = [PtrsLeft(d, c, s - 1) EXCEPT ![s] = 0]
  <2>1. \A k \in Slot : (IF k <= s THEN 0 ELSE ptrs[k]) =
                        (IF k = s THEN 0 ELSE IF k <= s - 1 THEN 0 ELSE ptrs[k])
    <3> TAKE k \in Slot
    <3>1. k \in Nat
      BY SlotsAre
    <3> QED BY <1>1, <3>1
  <2> QED BY <1>2, <1>3, <2>1
<1>5. /\ InodeLeft(d, c, s + 2) = [type |-> d.inode[c].type, indir |-> d.inode[c].indir,
               direct |-> <<IF 1 <= s + 2 THEN 0 ELSE d.inode[c].direct[1],
                            IF 2 <= s + 2 THEN 0 ELSE d.inode[c].direct[2]>>]
      /\ InodeLeft(d, c, s + 1) = [type |-> d.inode[c].type, indir |-> d.inode[c].indir,
               direct |-> <<IF 1 <= s + 1 THEN 0 ELSE d.inode[c].direct[1],
                            IF 2 <= s + 1 THEN 0 ELSE d.inode[c].direct[2]>>]
  BY LeftParts
<1> QED BY <1>1, <1>4, <1>5

\* A block behind the indirect block is given back.
LEMMA FreeSlot ==
  ASSUME NEW d \in DiskType, NEW c \in InodeNum, NEW s \in Slot, NEW x, x = s + 2,
         NEW b, b = PtrOf(d, c, x), b # 0, NEW v, v = x - 1, NEW e \in FreedTo(d, c, v)
  PROVE  LET ws == Free(b) \o <<WriteBlock(d.inode[c].indir, PtrBlock(PtrsLeft(d, c, s)))>>
         IN  ws \in Seq(Writes) /\ Leads(e, ws, FreedTo(d, c, x), Owned)
<1> DEFINE q == d.inode[c].indir
           ptrs == PtrsLeft(d, c, s)
           w == WriteBlock(q, PtrBlock(ptrs))
<1>0. s \in Nat /\ s # 0 /\ x \in DataPos /\ x \in Pos /\ 0 \in Pos /\ x # 0 /\ v \in Int /\ ~(x <= v)
  BY PosIs
<1>1. /\ e \in DiskType /\ BlocksSound(e) /\ OwnedOnce(e) /\ SameInodeMap(e, d) /\ OthersSame(e, d, c)
      /\ e.inode[c] = InodeLeft(d, c, v)
      /\ IndirectPtrs(e, e.inode[c]) = PtrsLeft(d, c, v - 2)
  BY DEF FreedTo, BlocksSound
<1>2. PtrOf(e, c, x) = b /\ b \in Block
  <2>1. PtrOf(e, c, x) = b
    BY <1>0, PtrLeft
  <2> QED BY <1>0, <1>1, <2>1, PtrTyped DEF Pointer
<1>3. NotRead(e, b)
  BY <1>0, <1>1, <1>2, DataNotRead
<1>4. q = PtrOf(e, c, 0) /\ q # 0 /\ q \in Pointer /\ q # b
  <2>1. q = PtrOf(d, c, 0) /\ q = PtrOf(e, c, 0)
    BY <1>0, PtrByPos, PtrLeft
  <2>2. q # 0
    <3>1. IndirectPtrs(d, d.inode[c])[s] = b
      BY PtrByPos
    <3> QED BY <3>1 DEF IndirectPtrs, NoPtrs
  <2>3. q \in Pointer
    BY <1>0, <2>1, PtrTyped
  <2>4. q # b
    BY <1>0, <1>1, <1>2, <2>1, <2>2 DEF OwnedOnce
  <2> QED BY <2>1, <2>2, <2>3, <2>4
<1>5. w \in Writes
  <2>1. PtrBlock(ptrs) \in BlockType
    BY LeftParts, BlocksAre
  <2> QED BY <1>4, <2>1, WritesAre
<1>6. InodeLeft(d, c, x) = InodeLeft(d, c, v) /\ ptrs = [PtrsLeft(d, c, v - 2) EXCEPT ![s] = 0]
      /\ x - 2 = s
  <2>1. v = s + 1 /\ v - 2 = s - 1 /\ x - 2 = s
    BY <1>0
  <2> QED BY <2>1, SlotCleared
<1> HIDE DEF q
<1>7. ASSUME NEW g \in FreedOf(e, b) PROVE Written(g, w) \in FreedTo(d, c, x)
  <2> DEFINE f == Written(g, w)
  <2>1. /\ g \in DiskType /\ g.inode = e.inode /\ SameInodeMap(g, e) /\ SamePtrs(g, e)
    BY DEF FreedOf
  <2>2. IndirectPtrs(g, g.inode[c]) = IndirectPtrs(e, e.inode[c])
    <3>1. \A k \in Slot : IndirectPtrs(g, g.inode[c])[k] = IndirectPtrs(e, e.inode[c])[k]
      <4> TAKE k \in Slot
      <4>1. PtrOf(g, c, k + 2) = PtrOf(e, c, k + 2)
        BY <2>1, PosIs DEF SamePtrs
      <4> QED BY <4>1, PtrByPos
    <3>2. IndirectPtrs(g, g.inode[c]) \in [Slot -> Pointer] /\ IndirectPtrs(e, e.inode[c]) \in [Slot -> Pointer]
      BY <1>1, <2>1, DiskParts, IndirectTyped
    <3> QED BY <3>1, <3>2
  <2>3. ptrs = [IndirectPtrs(g, g.inode[c]) EXCEPT ![s] = 0] /\ 0 \in Pointer
    BY <1>1, <1>6, <2>2 DEF Pointer
  <2>4. OwnedOnce(g) /\ PtrOf(g, c, 0) = q
    BY <1>0, <1>1, <1>4, <2>1, SameOwned DEF SamePtrs
  <2> HIDE DEF ptrs
  <2>5. /\ f \in DiskType /\ f.inode = g.inode /\ f.blockMap = g.blockMap /\ SameInodeMap(f, g)
        /\ \A y \in Block : f.blk[y] = IF y = q THEN PtrBlock(ptrs) ELSE g.blk[y]
        /\ OnlyPtr(f, g, c, s + 2, 0) /\ SameTypes(f, g)
    BY <1>4, <2>1, <2>3, <2>4, SlotPut
  <2> HIDE DEF f, w
  <2>6. BlocksSound(f) /\ SameInodeMap(f, e) /\ OthersSame(f, e, c)
    <3>1. \A y \in Block : f.blk[y] = g.blk[y] \/ (y = PtrOf(e, c, 0) /\ y # b /\ f.blk[y].kind = "ptr")
      <4> TAKE y \in Block
      <4>1. CASE y = q
        <5>1. f.blk[y] = PtrBlock(ptrs)
          BY <2>5, <4>1
        <5>2. f.blk[y].kind = "ptr"
          BY <5>1 DEF PtrBlock
        <5> QED BY <1>4, <4>1, <5>2
      <4>2. CASE y # q
        BY <2>5, <4>2
      <4> QED BY <4>1, <4>2
    <3>2. OnlyPtr(f, g, c, x, 0) /\ SameTypes(f, g) /\ f.blockMap = g.blockMap /\ SameInodeMap(f, g)
          /\ f \in DiskType
      BY <2>5
    <3>3. \A j \in InodeNum \ {c} : f.inode[j] = g.inode[j]
      BY <2>5
    <3> QED BY <1>0, <1>1, <1>2, <3>1, <3>2, <3>3, FreedOthers
  <2>7. SameInodeMap(f, d) /\ OthersSame(f, d, c)
    BY <1>1, <2>6, OthersOn DEF SameInodeMap
  <2>8. f.inode[c] = InodeLeft(d, c, x) /\ f.inode[c].indir = q
    <3>1. f.inode[c] = e.inode[c] /\ f.inode[c] = InodeLeft(d, c, x)
      BY <1>1, <1>6, <2>1, <2>5
    <3>2. PtrOf(e, c, 0) = e.inode[c].indir
      BY PtrByPos
    <3> QED BY <1>4, <3>1, <3>2
  <2>9. IndirectPtrs(f, f.inode[c]) = PtrsLeft(d, c, x - 2)
    <3>1. q \in Block
      BY <1>4 DEF Pointer
    <3>2. Ptrs(f.blk[q]) = ptrs
      <4>1. f.blk[q] = PtrBlock(ptrs)
        BY <2>5, <3>1
      <4> QED BY <4>1 DEF Ptrs, PtrBlock
    <3>3. IndirectPtrs(f, f.inode[c]) = ptrs
      BY <1>4, <2>8, <3>2 DEF IndirectPtrs
    <3> QED BY <1>6, <3>3 DEF ptrs
  <2>10. f \in FreedTo(d, c, x)
    BY <2>5, <2>6, <2>7, <2>8, <2>9 DEF FreedTo
  <2> QED BY <2>10 DEF f
<1>8. FreedTo(d, c, x) \subseteq Owned
  BY DEF FreedTo, Owned, BlocksSound
<1> HIDE DEF w
<1>9. Free(b) \o <<w>> \in Seq(Writes) /\ Leads(e, Free(b) \o <<w>>, FreedTo(d, c, x), Owned)
  BY <1>1, <1>2, <1>3, <1>5, <1>7, <1>8, FreeThenLink
<1> QED BY <1>9 DEF w, q

\* How a file is freed.
FreeingOne(d, c, i) ==
  IF d.inode[c].direct[i] # 0 THEN Free(d.inode[c].direct[i]) \o <<PutInode(c, InodeLeft(d, c, i))>>
  ELSE <<>>
\* Freeing one block behind the indirect one, and the indirect one.
FreeingTwo(d, c, s) ==
  IF IndirectPtrs(d, d.inode[c])[s] # 0
    THEN Free(IndirectPtrs(d, d.inode[c])[s])
         \o <<WriteBlock(d.inode[c].indir, PtrBlock(PtrsLeft(d, c, s)))>>
  ELSE <<>>
FreeingLast(d, c) ==
  IF d.inode[c].indir = 0 THEN <<>>
  ELSE Free(d.inode[c].indir)
       \o <<PutInode(c, [[d.inode[c] EXCEPT !.direct = <<0, 0>>] EXCEPT !.indir = 0])>>
\* Giving back a file's blocks: the direct ones, those behind the indirect one,
\* then that one.
LEMMA FreeFileIs ==
  ASSUME NEW d, NEW c
  PROVE  FreeFile(d, c) = Seqs!FlattenSeq([i \in 1 .. 2 |-> FreeingOne(d, c, i)]
                                          \o [s \in Slot |-> FreeingTwo(d, c, s)])
                          \o FreeingLast(d, c)
BY DEF FreeFile, FreeingOne, FreeingTwo, FreeingLast, InodeLeft, PtrsLeft

\* Each of its parts.
LEMMA FreeingTyped ==
  ASSUME NEW d \in DiskType, NEW c \in InodeNum
  PROVE  /\ \A i \in 1 .. 2 : FreeingOne(d, c, i) \in Seq(Writes)
         /\ \A s \in Slot : FreeingTwo(d, c, s) \in Seq(Writes)
<1>1. d.inode[c].direct \in [1 .. 2 -> Pointer] /\ IndirectPtrs(d, d.inode[c]) \in [Slot -> Pointer]
      /\ d.inode[c].indir \in Pointer
  BY PointersOf DEF Slot, InodeType
<1>2. \A u : InodeLeft(d, c, u) \in InodeType /\ PtrsLeft(d, c, u) \in [Slot -> Pointer]
  BY LeftParts
<1>3. ASSUME NEW i \in 1 .. 2 PROVE FreeingOne(d, c, i) \in Seq(Writes)
  <2> DEFINE b == d.inode[c].direct[i]
             w == PutInode(c, InodeLeft(d, c, i))
  <2>1. FreeingOne(d, c, i) = IF b # 0 THEN Free(b) \o <<w>> ELSE <<>>
    BY DEF FreeingOne
  <2>2. w \in Writes /\ b \in Pointer
    BY <1>1, <1>2, WritesAre
  <2> HIDE DEF b, w
  <2> QED BY <2>1, <2>2, FreeTyped DEF Pointer
<1>4. ASSUME NEW s \in Slot PROVE FreeingTwo(d, c, s) \in Seq(Writes)
  <2> DEFINE b == IndirectPtrs(d, d.inode[c])[s]
             w == WriteBlock(d.inode[c].indir, PtrBlock(PtrsLeft(d, c, s)))
  <2>1. FreeingTwo(d, c, s) = IF b # 0 THEN Free(b) \o <<w>> ELSE <<>>
    BY DEF FreeingTwo
  <2>2. w \in Writes
    <3>1. PtrBlock(PtrsLeft(d, c, s)) \in BlockType
      BY <1>2, BlocksAre
    <3> QED BY <1>1, <3>1, WritesAre
  <2>3. b \in Pointer
    BY <1>1
  <2> HIDE DEF b, w
  <2> QED BY <2>1, <2>2, <2>3, FreeTyped DEF Pointer
<1> QED BY <1>3, <1>4

\* A direct block given back.
LEMMA FreeingOneLeads ==
  ASSUME NEW d \in DiskType, NEW c \in InodeNum, NEW x \in 1 .. 2, NEW v, v = x - 1, NEW e \in FreedTo(d, c, v)
  PROVE  FreeingOne(d, c, x) \in Seq(Writes) /\ Leads(e, FreeingOne(d, c, x), FreedTo(d, c, x), Owned)
<1>0. x \in DataPos /\ d.inode[c].direct[x] = PtrOf(d, c, x)
  BY PosIs, PtrByPos
<1>1. CASE PtrOf(d, c, x) = 0
  <2>1. e \in FreedTo(d, c, x) /\ e \in Owned
    <3>1. FreedTo(d, c, x) = FreedTo(d, c, v)
      BY <1>0, <1>1, FreedSame
    <3> QED BY <3>1 DEF FreedTo, Owned, BlocksSound
  <2>2. FreeingOne(d, c, x) = <<>>
    BY <1>0, <1>1 DEF FreeingOne
  <2> QED BY <2>1, <2>2, LeadsNone
<1>2. CASE PtrOf(d, c, x) # 0
  <2> DEFINE b == PtrOf(d, c, x)
             ws == Free(b) \o <<PutInode(c, InodeLeft(d, c, x))>>
  <2>1. FreeingOne(d, c, x) = ws
    BY <1>0, <1>2 DEF FreeingOne
  <2>2. b # 0
    BY <1>2
  <2> HIDE DEF b
  <2>3. ws \in Seq(Writes) /\ Leads(e, ws, FreedTo(d, c, x), Owned)
    BY <2>2, FreeDirect DEF b
  <2> QED BY <2>1, <2>3
<1> QED BY <1>1, <1>2

\* A block behind the indirect one given back.
LEMMA FreeingTwoLeads ==
  ASSUME NEW d \in DiskType, NEW c \in InodeNum, NEW s \in Slot, NEW x, x = s + 2, NEW v, v = x - 1,
         NEW e \in FreedTo(d, c, v)
  PROVE  FreeingTwo(d, c, s) \in Seq(Writes) /\ Leads(e, FreeingTwo(d, c, s), FreedTo(d, c, x), Owned)
<1>0. x \in DataPos /\ IndirectPtrs(d, d.inode[c])[s] = PtrOf(d, c, x)
  BY PosIs, PtrByPos
<1>1. CASE PtrOf(d, c, x) = 0
  <2>1. e \in FreedTo(d, c, x) /\ e \in Owned
    <3>1. FreedTo(d, c, x) = FreedTo(d, c, v)
      BY <1>0, <1>1, FreedSame
    <3> QED BY <3>1 DEF FreedTo, Owned, BlocksSound
  <2>2. FreeingTwo(d, c, s) = <<>>
    BY <1>0, <1>1 DEF FreeingTwo
  <2> QED BY <2>1, <2>2, LeadsNone
<1>2. CASE PtrOf(d, c, x) # 0
  <2> DEFINE b == PtrOf(d, c, x)
             ws == Free(b) \o <<WriteBlock(d.inode[c].indir, PtrBlock(PtrsLeft(d, c, s)))>>
  <2>1. FreeingTwo(d, c, s) = ws
    BY <1>0, <1>2 DEF FreeingTwo
  <2>2. b # 0
    BY <1>2
  <2> HIDE DEF b
  <2>3. ws \in Seq(Writes) /\ Leads(e, ws, FreedTo(d, c, x), Owned)
    BY <2>2, FreeSlot DEF b
  <2> QED BY <2>1, <2>3
<1> QED BY <1>1, <1>2

\* c is the only inode of d that e has not as it was: it has no blocks left.
Erased(d, c) ==
  {e \in DiskType : /\ BlocksSound(e) /\ SameInodeMap(e, d) /\ OthersSame(e, d, c)
                    /\ e.inode[c] = [type |-> d.inode[c].type, direct |-> <<0, 0>>, indir |-> 0]}
\* After all of them no pointer is left but that to the indirect block.
LEMMA FreedAll ==
  ASSUME NEW d \in DiskType, NEW c \in InodeNum, NEW u, u = 2 + PtrsPerBlock, NEW e \in FreedTo(d, c, u)
  PROVE  /\ e.inode[c] = [type |-> d.inode[c].type, direct |-> <<0, 0>>, indir |-> d.inode[c].indir]
         /\ IndirectPtrs(e, e.inode[c]) = NoPtrs
<1>1. PtrsPerBlock \in Nat
  BY GeometryAssumption
<1>2. e.inode[c] = InodeLeft(d, c, u) /\ IndirectPtrs(e, e.inode[c]) = PtrsLeft(d, c, u - 2)
  BY DEF FreedTo
<1>3. PtrsLeft(d, c, u - 2) = NoPtrs
  <2>1. PtrsLeft(d, c, u - 2) = [k \in Slot |-> IF k <= u - 2 THEN 0 ELSE IndirectPtrs(d, d.inode[c])[k]]
    BY LeftParts
  <2>2. \A k \in Slot : k <= u - 2
    BY <1>1 DEF Slot
  <2> QED BY <2>1, <2>2 DEF NoPtrs
<1>4. InodeLeft(d, c, u) = [type |-> d.inode[c].type, direct |-> <<0, 0>>, indir |-> d.inode[c].indir]
  <2>1. InodeLeft(d, c, u) = [type |-> d.inode[c].type, indir |-> d.inode[c].indir,
               direct |-> <<IF 1 <= u THEN 0 ELSE d.inode[c].direct[1],
                            IF 2 <= u THEN 0 ELSE d.inode[c].direct[2]>>]
    BY LeftParts
  <2> QED BY <1>1, <2>1
<1> QED BY <1>2, <1>3, <1>4

\* An inode without pointers.
LEMMA BareInode ==
  ASSUME NEW n \in InodeType
  PROVE  [[n EXCEPT !.direct = <<0, 0>>] EXCEPT !.indir = 0] =
           [type |-> n.type, direct |-> <<0, 0>>, indir |-> 0]
<1> DEFINE none == <<0, 0>>
           m == [n EXCEPT !.direct = none]
<1> HIDE DEF none
<1>1. m = [type |-> n.type, direct |-> none, indir |-> n.indir]
  BY DEF InodeType
<1> HIDE DEF m
<1>2. [m EXCEPT !.indir = 0] = [type |-> n.type, direct |-> none, indir |-> 0]
  BY <1>1
<1> QED BY <1>2 DEF m, none

\* The indirect block is given back last.
LEMMA FreeingLastLeads ==
  ASSUME NEW d \in DiskType, NEW c \in InodeNum, NEW u, u = 2 + PtrsPerBlock, NEW e \in FreedTo(d, c, u)
  PROVE  FreeingLast(d, c) \in Seq(Writes) /\ Leads(e, FreeingLast(d, c), Erased(d, c), Owned)
<1> DEFINE b == d.inode[c].indir
           m == [type |-> d.inode[c].type, direct |-> <<0, 0>>, indir |-> 0]
           w == PutInode(c, m)
<1>0. 0 \in Pos /\ 0 \in Pointer /\ d.inode[c] \in InodeType
  BY PosIs, DiskParts DEF Pointer
<1>1. /\ e.inode[c] = [type |-> d.inode[c].type, direct |-> <<0, 0>>, indir |-> b]
      /\ IndirectPtrs(e, e.inode[c]) = NoPtrs
  BY FreedAll
<1>2. /\ e \in DiskType /\ BlocksSound(e) /\ OwnedOnce(e) /\ SameInodeMap(e, d) /\ OthersSame(e, d, c)
  BY DEF FreedTo, BlocksSound
<1>3. CASE b = 0
  <2>1. e \in Erased(d, c) /\ e \in Owned
    BY <1>1, <1>2, <1>3 DEF Erased, Owned
  <2>2. FreeingLast(d, c) = <<>>
    BY <1>3 DEF FreeingLast
  <2> QED BY <2>1, <2>2, LeadsNone
<1>4. CASE b # 0
  <2>1. FreeingLast(d, c) = Free(b) \o <<w>>
    <3>1. [[d.inode[c] EXCEPT !.direct = <<0, 0>>] EXCEPT !.indir = 0] = m
      BY <1>0, BareInode
    <3> HIDE DEF m
    <3> QED BY <1>4, <3>1 DEF FreeingLast
  <2>2. m \in InodeType /\ w \in Writes
    <3>1. <<0, 0>> \in [1 .. 2 -> Pointer]
      BY <1>0
    <3>2. m \in InodeType
      BY <1>0, <3>1 DEF InodeType
    <3> QED BY <3>2, WritesAre
  <2>3. PtrOf(e, c, 0) = b /\ b \in Block /\ e.inode[c].indir = b
    <3>1. PtrOf(e, c, 0) = b
      BY <1>1, PtrByPos
    <3> QED BY <1>0, <1>1, <1>2, <1>4, <3>1, PtrTyped DEF Pointer
  <2> HIDE DEF b, m, w
  <2>4. Ptrs(e.blk[b]) = NoPtrs
    BY <1>1, <1>4, <2>3 DEF IndirectPtrs
  <2>5. NotRead(e, b)
    <3>1. \A j \in InodeNum : PtrOf(e, j, 0) = b => Ptrs(e.blk[b]) = NoPtrs
      BY <2>4
    <3> QED BY <3>1 DEF NotRead
  <2>6. ASSUME NEW g \in FreedOf(e, b) PROVE Written(g, w) \in Erased(d, c)
    <3> DEFINE f == Written(g, w)
    <3>1. /\ g \in DiskType /\ g.inode = e.inode /\ SameInodeMap(g, e)
          /\ \A x \in Block : g.blk[x] = IF x = b THEN Zero ELSE e.blk[x]
      BY DEF FreedOf
    <3>2. m = [g.inode[c] EXCEPT !.indir = 0]
      BY <1>1, <3>1 DEF m
    <3>3. IndirectPtrs(g, g.inode[c]) = NoPtrs
      <4>1. g.inode[c].indir = b /\ g.blk[b] = Zero
        BY <2>3, <3>1
      <4>2. Ptrs(Zero) = NoPtrs
        BY DEF Ptrs, Zero
      <4> QED BY <1>4, <4>1, <4>2 DEF IndirectPtrs
    <3>4. /\ f \in DiskType /\ SameBut(f, g, "inode") /\ OnlyPtr(f, g, c, 0, 0) /\ SameTypes(f, g)
      BY <1>0, <3>1, <3>2, <3>3, IndirectLinked DEF w
    <3>5. \A j \in InodeNum : f.inode[j] = IF j = c THEN m ELSE g.inode[j]
      BY <2>2, <3>1, InodeWritten DEF w
    <3>6. f.blockMap = g.blockMap /\ f.blk = g.blk /\ SameInodeMap(f, g)
      BY <3>4 DEF SameBut, SameInodeMap
    <3>7. f.inode[c] = m /\ f \in DiskType /\ OnlyPtr(f, g, c, 0, 0) /\ SameTypes(f, g)
      BY <3>4, <3>5
    <3> HIDE DEF f
    <3>8. BlocksSound(f) /\ SameInodeMap(f, e) /\ OthersSame(f, e, c)
      <4>1. \A j \in InodeNum \ {c} : f.inode[j] = g.inode[j]
        BY <3>5
      <4> QED BY <1>0, <1>2, <2>3, <3>6, <3>7, <4>1, FreedOthers
    <3>9. SameInodeMap(f, d) /\ OthersSame(f, d, c)
      BY <1>2, <3>8, OthersOn DEF SameInodeMap
    <3>10. f \in Erased(d, c)
      BY <3>7, <3>8, <3>9 DEF Erased, m
    <3> QED BY <3>10 DEF f
  <2>7. Erased(d, c) \subseteq Owned
    BY DEF Erased, Owned, BlocksSound
  <2> QED BY <1>2, <2>1, <2>2, <2>3, <2>5, <2>6, <2>7, FreeThenLink
<1> QED BY <1>3, <1>4

\* A file freed.
LEMMA FreeFileLeads ==
  ASSUME NEW d \in DiskType, BlocksSound(d), NEW c \in InodeNum
  PROVE  FreeFile(d, c) \in Seq(Writes) /\ Leads(d, FreeFile(d, c), Erased(d, c), Owned)
<1> DEFINE one == [i \in 1 .. 2 |-> FreeingOne(d, c, i)]
           two == [s \in Slot |-> FreeingTwo(d, c, s)]
           all == one \o two
           B == [u \in 0 .. 2 + PtrsPerBlock |-> FreedTo(d, c, u)]
<1>0. PtrsPerBlock \in Nat /\ Slot = 1 .. PtrsPerBlock
  BY GeometryAssumption DEF Slot
<1>1. \A u : FreedTo(d, c, u) \subseteq Owned
  BY DEF FreedTo, Owned, BlocksSound
<1>2. d \in FreedTo(d, c, 0)
  <2>1. InodeLeft(d, c, 0) = d.inode[c]
    <3>1. InodeLeft(d, c, 0) = [type |-> d.inode[c].type, indir |-> d.inode[c].indir,
               direct |-> <<IF 1 <= 0 THEN 0 ELSE d.inode[c].direct[1],
                            IF 2 <= 0 THEN 0 ELSE d.inode[c].direct[2]>>]
      BY LeftParts
    <3>2. d.inode[c] \in InodeType
      BY DiskParts
    <3> QED BY <3>1, <3>2 DEF InodeType
  <2>2. PtrsLeft(d, c, 0 - 2) = IndirectPtrs(d, d.inode[c])
    <3>1. PtrsLeft(d, c, 0 - 2) = [k \in Slot |-> IF k <= 0 - 2 THEN 0 ELSE IndirectPtrs(d, d.inode[c])[k]]
      BY LeftParts
    <3>2. \A k \in Slot : ~(k <= 0 - 2)
      BY <1>0
    <3>3. IndirectPtrs(d, d.inode[c]) \in [Slot -> Pointer]
      BY DiskParts, IndirectTyped
    <3> QED BY <3>1, <3>2, <3>3
  <2> QED BY <2>1, <2>2 DEF FreedTo, SameInodeMap, OthersSame
<1>3. ASSUME NEW x \in 1 .. 2 + PtrsPerBlock
      PROVE  all[x] = IF x <= 2 THEN FreeingOne(d, c, x) ELSE FreeingTwo(d, c, x - 2)
  <2> HIDE DEF all
  <2>1. Len(one) = 2 /\ Len(two) = PtrsPerBlock /\ DOMAIN one = 1 .. 2
    BY <1>0
  <2> QED BY <1>0, <2>1 DEF all
<1>4. ASSUME NEW x \in 1 .. 2 + PtrsPerBlock, NEW v, v = x - 1, NEW e \in FreedTo(d, c, v)
      PROVE  all[x] \in Seq(Writes) /\ Leads(e, all[x], FreedTo(d, c, x), Owned)
  <2>1. CASE x <= 2
    <3>1. all[x] = FreeingOne(d, c, x)
      BY <1>3, <2>1
    <3>2. x \in 1 .. 2
      BY <1>0, <2>1
    <3> HIDE DEF all
    <3> QED BY <1>4, <3>1, <3>2, FreeingOneLeads
  <2>2. CASE ~(x <= 2)
    <3> DEFINE s == x - 2
    <3>1. all[x] = FreeingTwo(d, c, s)
      BY <1>3, <2>2
    <3>2. s \in Slot /\ x = s + 2
      BY <1>0, <2>2
    <3> HIDE DEF all, s
    <3> QED BY <1>4, <3>1, <3>2, FreeingTwoLeads
  <2> QED BY <2>1, <2>2
<1>5. all \in Seq(Seq(Writes)) /\ Len(all) = 2 + PtrsPerBlock
  <2>1. \A i \in 1 .. 2 : FreeingOne(d, c, i) \in Seq(Writes)
    BY FreeingTyped
  <2>2. \A s \in 1 .. PtrsPerBlock : FreeingTwo(d, c, s) \in Seq(Writes)
    BY <1>0, FreeingTyped
  <2>3. one \in Seq(Seq(Writes)) /\ Len(one) = 2
    BY <2>1
  <2>4. two \in Seq(Seq(Writes)) /\ Len(two) = PtrsPerBlock
    BY <1>0, <2>2
  <2> HIDE DEF one, two
  <2>5. all \in Seq(Seq(Writes))
    BY <2>3, <2>4
  <2>6. Len(all) = 2 + PtrsPerBlock
    <3> DEFINE S == Seq(Writes)
    <3>1. one \in Seq(S) /\ two \in Seq(S)
      BY <2>3, <2>4
    <3> HIDE DEF S, B
    <3>2. Len(one \o two) = Len(one) + Len(two)
      BY <3>1
    <3> QED BY <2>3, <2>4, <3>2
  <2> QED BY <2>5, <2>6
<1>6. FreeFile(d, c) = Seqs!FlattenSeq(all) \o FreeingLast(d, c)
  BY FreeFileIs
<1> HIDE DEF all
<1>7. 2 + PtrsPerBlock \in Nat \ {0} /\ d \in B[0] /\ B[2 + PtrsPerBlock] = FreedTo(d, c, 2 + PtrsPerBlock)
  BY <1>0, <1>2
<1>8. \A x \in 1 .. 2 + PtrsPerBlock : \A e \in B[x - 1] : Leads(e, all[x], B[x], Owned)
  <2> TAKE x \in 1 .. 2 + PtrsPerBlock
  <2>1. B[x - 1] = FreedTo(d, c, x - 1) /\ B[x] = FreedTo(d, c, x)
    BY <1>0
  <2> QED BY <1>4, <2>1
<1> HIDE DEF B
<1>9. /\ Seqs!FlattenSeq(all) \in Seq(Writes)
      /\ Leads(d, Seqs!FlattenSeq(all), FreedTo(d, c, 2 + PtrsPerBlock), Owned)
  BY <1>5, <1>7, <1>8, LeadsFlatten
<1>10. FreeingLast(d, c) \in Seq(Writes)
  <2>1. After(d, Seqs!FlattenSeq(all), Len(Seqs!FlattenSeq(all))) \in FreedTo(d, c, 2 + PtrsPerBlock)
    BY <1>9 DEF Leads
  <2> QED BY <2>1, FreeingLastLeads
<1>11. \A e \in FreedTo(d, c, 2 + PtrsPerBlock) : Leads(e, FreeingLast(d, c), Erased(d, c), Owned)
  BY FreeingLastLeads
<1> DEFINE ws == Seqs!FlattenSeq(all)
           vs == FreeingLast(d, c)
<1> HIDE DEF ws, vs
<1>12. ws \in Seq(Writes) /\ vs \in Seq(Writes) /\ Leads(d, ws, FreedTo(d, c, 2 + PtrsPerBlock), Owned)
  BY <1>9, <1>10 DEF ws, vs
<1>13. Leads(d, ws \o vs, Erased(d, c), Owned) /\ ws \o vs \in Seq(Writes)
  <2>1. \A e \in FreedTo(d, c, 2 + PtrsPerBlock) : Leads(e, vs, Erased(d, c), Owned)
    BY <1>11 DEF vs
  <2>2. Leads(d, ws \o vs, Erased(d, c), Owned)
    BY <1>12, <2>1, LeadsConcat
  <2> QED BY <1>12, <2>2
<1> QED BY <1>6, <1>13 DEF ws, vs

\* The same inodes and blocks, and as many fewer inodes marked and counted.
LessBut(h, gone, n) ==
  {f \in DiskType : /\ f.inode = h.inode /\ f.blk = h.blk /\ f.blockMap = h.blockMap
                    /\ f.inodeMap = h.inodeMap \ gone /\ f.info.inodes = h.info.inodes - n}
\* With inodes left out blocks stay owned once.
LEMMA LessOwned ==
  ASSUME NEW h, OwnedOnce(h), NEW gone, NEW n
  PROVE  LessBut(h, gone, n) \subseteq Owned
<1> SUFFICES ASSUME NEW f \in LessBut(h, gone, n) PROVE f \in DiskType /\ OwnedOnce(f)
  BY DEF Owned
<1>1. f \in DiskType /\ f.inode = h.inode /\ f.blk = h.blk
  BY DEF LessBut
<1>2. SamePtrs(f, h)
  BY <1>1, OtherWrite
<1> QED BY <1>1, <1>2, SameOwned

\* An inode is not marked any more.
LEMMA InodeUnmarked ==
  ASSUME NEW h \in DiskType, NEW c \in InodeNum
  PROVE  Written(h, ResetInodeBitmap(c)) \in LessBut(h, {c}, 0)
<1> DEFINE f == Written(h, ResetInodeBitmap(c))
<1>1. f \in DiskType /\ SameBut(f, h, "inodeMap") /\ f.inodeMap = h.inodeMap \ {c}
  BY InodeBitReset
<1> HIDE DEF f
<1>2. f.inode = h.inode /\ f.blk = h.blk /\ f.blockMap = h.blockMap /\ f.info = h.info
      /\ f \in DiskType /\ f.inodeMap = h.inodeMap \ {c}
  BY <1>1 DEF SameBut
<1>3. h.info.inodes - 0 = h.info.inodes
  BY DiskParts DEF InfoType
<1> QED BY <1>2, <1>3 DEF LessBut, f

\* The inode of a file is written, unmarked and counted.
LEMMA FileUnmarked ==
  ASSUME NEW h \in DiskType, OwnedOnce(h), NEW c \in InodeNum, h.inode[c] = FreeInode
  PROVE  LET ws == <<PutInode(c, FreeInode), ResetInodeBitmap(c), Count(0, -1)>>
         IN  ws \in Seq(Writes) /\ Leads(h, ws, LessBut(h, {c}, 1), Owned)
<1> DEFINE u == PutInode(c, FreeInode)
           v == ResetInodeBitmap(c)
           w == Count(0, -1)
           A == LessBut(h, {}, 0)
           B == LessBut(h, {c}, 0)
           C == LessBut(h, {c}, 1)
<1>1. u \in Writes /\ v \in Writes /\ w \in Writes
  BY WritesAre, FreeInodeTyped
<1>2. Written(h, u) \in A
  <2> DEFINE f == Written(h, u)
  <2>1. f \in DiskType /\ SameBut(f, h, "inode") /\ \A x \in InodeNum : f.inode[x] = IF x = c THEN FreeInode ELSE h.inode[x]
    BY FreeInodeTyped, InodeWritten
  <2> HIDE DEF f
  <2>2. f.inode \in [InodeNum -> InodeType] /\ h.inode \in [InodeNum -> InodeType]
    BY <2>1, DiskParts
  <2>3. \A x \in InodeNum : f.inode[x] = h.inode[x]
    BY <2>1
  <2>4. f.inode = h.inode
    BY <2>2, <2>3
  <2>5. f.info = h.info /\ f.blk = h.blk /\ f.blockMap = h.blockMap /\ f.inodeMap = h.inodeMap /\ f \in DiskType
    BY <2>1 DEF SameBut
  <2>6. h.info.inodes - 0 = h.info.inodes
    BY DiskParts DEF InfoType
  <2> QED BY <2>4, <2>5, <2>6 DEF LessBut, f
<1>3. ASSUME NEW e \in A PROVE Written(e, v) \in B
  <2>1. e \in DiskType
    BY DEF LessBut
  <2>2. Written(e, v) \in LessBut(e, {c}, 0)
    BY <2>1, InodeUnmarked
  <2>3. e.info.inodes \in Int
    BY <2>1, DiskParts DEF InfoType
  <2> HIDE DEF v
  <2> QED BY <2>2, <2>3 DEF LessBut
<1>4. ASSUME NEW e \in B PROVE Written(e, w) \in C
  <2> DEFINE f == Written(e, w)
  <2>1. e \in DiskType /\ e.info.inodes = h.info.inodes - 0
    BY DEF LessBut
  <2>2. f \in DiskType /\ SameBut(f, e, "info") /\ f.info.inodes = e.info.inodes + (-1)
    <3>1. e \in DiskType /\ 0 \in Int /\ -1 \in Int
      BY <2>1
    <3> QED BY <3>1, Counted
  <2> HIDE DEF f
  <2>3. f.inode = e.inode /\ f.blk = e.blk /\ f.blockMap = e.blockMap /\ f.inodeMap = e.inodeMap
          /\ f \in DiskType /\ f.info.inodes = e.info.inodes + (-1)
    BY <2>2 DEF SameBut
  <2>4. h.info.inodes \in Int
    BY DiskParts DEF InfoType
  <2>5. f.info.inodes = h.info.inodes - 1
    BY <2>1, <2>3, <2>4
  <2> QED BY <2>3, <2>5 DEF LessBut, f
<1>5. A \subseteq Owned /\ B \subseteq Owned /\ C \subseteq Owned /\ h \in Owned
  BY LessOwned DEF Owned
<1> HIDE DEF u, v, w, A, B, C
<1>6. <<u, v, w>> \in Seq(Writes)
  BY <1>1
<1>7. Written(h, u) \in A \cap Owned
  BY <1>2, <1>5
<1>8. \A e \in A : Written(e, v) \in B \cap Owned
  BY <1>3, <1>5
<1>9. \A e \in B : Written(e, w) \in C \cap Owned
  BY <1>4, <1>5
<1>10. Leads(h, <<u, v, w>>, C, Owned)
  BY <1>5, <1>7, <1>8, <1>9, LeadsThree
<1> QED BY <1>6, <1>10 DEF u, v, w, C

\* The disks where inode c of d is not in use any more, counted off m times.
Unmade(d, c, m) ==
  {e \in DiskType : /\ BlocksSound(e) /\ OthersSame(e, d, c) /\ e.inode[c] = FreeInode
                    /\ e.inodeMap = d.inodeMap \ {c} /\ e.info.inodes = d.info.inodes - m}

\* A disk without an inode is as before for the others.
LEMMA LessOthers ==
  ASSUME NEW d, NEW h, NEW c, BlocksSound(h), OthersSame(h, d, c), SameInodeMap(h, d), h.inode[c] = FreeInode,
         NEW m, NEW f \in LessBut(h, {c}, m)
  PROVE  f \in Unmade(d, c, m)
<1>1. /\ f \in DiskType /\ f.inode = h.inode /\ f.blk = h.blk /\ f.blockMap = h.blockMap
      /\ f.inodeMap = h.inodeMap \ {c} /\ f.info.inodes = h.info.inodes - m
  BY DEF LessBut
<1>2. BlocksSound(f) /\ \A i, k : PtrOf(f, i, k) = PtrOf(h, i, k)
  BY <1>1, SameData
<1>3. OthersSame(f, d, c)
  BY <1>1, <1>2 DEF OthersSame
<1> QED BY <1>1, <1>2, <1>3 DEF Unmade, SameInodeMap

\* A file is given up: its blocks, then its inode.
LEMMA FileGivenUp ==
  ASSUME NEW d \in DiskType, BlocksSound(d), NEW c \in InodeNum, d.inode[c].type = "file"
  PROVE  LET ws == FreeFile(d, c) \o <<PutInode(c, FreeInode), ResetInodeBitmap(c), Count(0, -1)>>
         IN  ws \in Seq(Writes) /\ Leads(d, ws, Unmade(d, c, 1), Owned)
<1> DEFINE us == FreeFile(d, c)
           vs == <<PutInode(c, FreeInode), ResetInodeBitmap(c), Count(0, -1)>>
<1>1. us \in Seq(Writes) /\ Leads(d, us, Erased(d, c), Owned)
  BY FreeFileLeads
<1>2. vs \in Seq(Writes)
  <2>1. PutInode(c, FreeInode) \in Writes /\ ResetInodeBitmap(c) \in Writes /\ Count(0, -1) \in Writes
    BY WritesAre, FreeInodeTyped
  <2> QED BY <2>1
<1>3. ASSUME NEW e \in Erased(d, c) PROVE Leads(e, vs, Unmade(d, c, 1), Owned)
  <2>1. /\ e \in DiskType /\ BlocksSound(e) /\ OwnedOnce(e) /\ SameInodeMap(e, d) /\ OthersSame(e, d, c)
        /\ e.inode[c] = FreeInode
    BY DEF Erased, BlocksSound, FreeInode
  <2>2. Leads(e, vs, LessBut(e, {c}, 1), Owned)
    BY <2>1, FileUnmarked
  <2>3. LessBut(e, {c}, 1) \subseteq Unmade(d, c, 1)
    BY <2>1, LessOthers
  <2> HIDE DEF vs
  <2> QED BY <2>2, <2>3, LeadsWeaker
<1> HIDE DEF us, vs
<1>4. Leads(d, us \o vs, Unmade(d, c, 1), Owned) /\ us \o vs \in Seq(Writes)
  BY <1>1, <1>2, <1>3, LeadsConcat
<1> QED BY <1>4 DEF us, vs

\* An inode is written as one that is not in use; its blocks stay marked.
LEMMA InodeDropped ==
  ASSUME NEW e \in DiskType, BlocksSound(e), NEW c \in InodeNum, NEW f \in DiskType,
         \A x \in InodeNum : f.inode[x] = IF x = c THEN FreeInode ELSE e.inode[x],
         f.blk = e.blk, f.blockMap = e.blockMap
  PROVE  BlocksSound(f) /\ OthersSame(f, e, c)
<1>1. \A l \in Pos : PtrOf(f, c, l) = 0
  <2>1. f.inode[c] = FreeInode
    OBVIOUS
  <2> QED BY <2>1, FreeLinksNothing
<1>2. \A j \in InodeNum \ {c} : f.inode[j] = e.inode[j] /\ \A l \in Pos : PtrOf(f, j, l) = PtrOf(e, j, l)
  <2> TAKE j \in InodeNum \ {c}
  <2>1. f.inode[j] = e.inode[j]
    OBVIOUS
  <2> QED BY <2>1, PtrsReadFrom
<1>3. /\ OwnedOnce(e) /\ Marked(e) /\ KindsRight(e)
      /\ \A b \in Block \ e.blockMap : e.blk[b] = Zero
  BY DEF BlocksSound
<1>4. \A j \in InodeNum, l \in Pos : PtrOf(f, j, l) # 0 => j # c /\ PtrOf(f, j, l) = PtrOf(e, j, l) /\ f.inode[j] = e.inode[j]
  BY <1>1, <1>2
<1>5. OwnedOnce(f) /\ Marked(f)
  BY <1>3, <1>4 DEF OwnedOnce, Marked
<1>6. KindsRight(f)
  <2> SUFFICES ASSUME NEW j \in InodeNum, NEW l \in Pos, PtrOf(f, j, l) # 0
               PROVE  f.blk[PtrOf(f, j, l)].kind \in {"zero", KindOf(f.inode[j], l)}
    BY DEF KindsRight
  <2>1. PtrOf(f, j, l) = PtrOf(e, j, l) /\ f.inode[j] = e.inode[j]
    BY <1>4
  <2> QED BY <1>3, <2>1 DEF KindsRight
<1>7. OthersSame(f, e, c)
  BY <1>2 DEF OthersSame
<1> QED BY <1>3, <1>5, <1>6, <1>7 DEF BlocksSound

\* A directory is given up: its first block is zeroed, its inode is not in use
\* any more.  The bit of block 0 is reset, which is none of a block.
LEMMA DirGivenUp ==
  ASSUME NEW d \in DiskType, BlocksSound(d), NEW c \in InodeNum, PtrOf(d, c, 1) # 0
  PROVE  LET ws == <<WriteBlock(d.inode[c].direct[1], Zero), PutInode(c, FreeInode),
                     ResetBlockBitmap(0), ResetInodeBitmap(c)>>
         IN  ws \in Seq(Writes) /\ Leads(d, ws, Unmade(d, c, 0), Owned)
<1> DEFINE b == PtrOf(d, c, 1)
           t == WriteBlock(b, Zero)
           u == PutInode(c, FreeInode)
           v == ResetBlockBitmap(0)
           w == ResetInodeBitmap(c)
           O == {e \in DiskType : BlocksSound(e) /\ OthersSame(e, d, c) /\ SameInodeMap(e, d)}
           A == {e \in O : e.inode[c] = FreeInode}
           C == Unmade(d, c, 0)
<1>0. d.inode[c].direct[1] = b
  BY PtrByPos
<1>1. 1 \in DataPos /\ 1 \in Pos /\ b # 0 /\ b \in Block /\ b \in Pointer /\ 0 \in Pointer
  <2>1. 1 \in DataPos /\ 1 \in Pos /\ b # 0 /\ 0 \in Pointer
    BY PosIs DEF Pointer
  <2>2. b \in Pointer
    BY <2>1, PtrTyped
  <2> QED BY <2>1, <2>2 DEF Pointer
<1>2. t \in Writes /\ u \in Writes /\ v \in Writes /\ w \in Writes
  BY <1>1, WritesAre, FreeInodeTyped, BlocksAre
<1>3. O \subseteq Owned /\ A \subseteq Owned /\ C \subseteq Owned
  BY DEF Owned, BlocksSound, Unmade
<1>4. Written(d, t) \in O
  <2> DEFINE f == Written(d, t)
  <2>1. /\ f \in DiskType /\ SameBut(f, d, "blk") /\ BlocksSound(f)
        /\ \A x \in Block : f.blk[x] = IF x = b THEN Zero ELSE d.blk[x]
        /\ SamePtrs(f, d) /\ SameTypes(f, d)
    <3>1. Zero \in BlockType /\ Zero.kind = "zero"
      BY BlocksAre DEF Zero
    <3> HIDE DEF b
    <3> QED BY <1>1, <3>1, ContentWritten DEF b
  <2> HIDE DEF f
  <2>2. f.inode = d.inode /\ SameInodeMap(f, d)
    BY <2>1 DEF SameBut, SameInodeMap
  <2>3. OthersSame(f, d, c)
    <3> SUFFICES ASSUME NEW j \in InodeNum \ {c}, NEW l \in Pos
                 PROVE  /\ PtrOf(f, j, l) = PtrOf(d, j, l)
                        /\ PtrOf(d, j, l) # 0 => f.blk[PtrOf(d, j, l)] = d.blk[PtrOf(d, j, l)]
      BY <2>2 DEF OthersSame
    <3>1. PtrOf(f, j, l) = PtrOf(d, j, l) /\ PtrOf(d, j, l) \in Pointer
      BY <2>1, PtrTyped DEF SamePtrs
    <3>2. PtrOf(d, j, l) # b
      BY <1>1 DEF BlocksSound, OwnedOnce
    <3> QED BY <2>1, <3>1, <3>2 DEF Pointer
  <2> QED BY <2>1, <2>2, <2>3 DEF f
<1>5. ASSUME NEW e \in O PROVE Written(e, u) \in A
  <2> DEFINE f == Written(e, u)
  <2>1. f \in DiskType /\ SameBut(f, e, "inode") /\ \A x \in InodeNum : f.inode[x] = IF x = c THEN FreeInode ELSE e.inode[x]
    BY FreeInodeTyped, InodeWritten
  <2> HIDE DEF f
  <2>2. f.blk = e.blk /\ f.blockMap = e.blockMap /\ SameInodeMap(f, e) /\ f.inode[c] = FreeInode
    BY <2>1 DEF SameBut, SameInodeMap
  <2>3. BlocksSound(f) /\ OthersSame(f, e, c)
    BY <2>1, <2>2, InodeDropped
  <2>4. OthersSame(f, d, c) /\ SameInodeMap(f, d)
    BY <2>2, <2>3, OthersOn DEF SameInodeMap
  <2> QED BY <2>1, <2>2, <2>3, <2>4 DEF f
<1>6. ASSUME NEW e \in A PROVE Written(e, v) \in A
  <2> DEFINE f == Written(e, v)
  <2>1. f \in DiskType /\ SameBut(f, e, "blockMap") /\ f.blockMap = e.blockMap \ {0}
    BY <1>1, BlockBitReset
  <2> HIDE DEF f
  <2>2. f.inode = e.inode /\ f.blk = e.blk /\ SameInodeMap(f, e)
    BY <2>1 DEF SameBut, SameInodeMap
  <2>3. f.blockMap = e.blockMap
    <3>1. e.blockMap \subseteq Block
      BY DiskParts
    <3> QED BY <2>1, <3>1, BlocksArePositive
  <2>4. BlocksSound(f) /\ \A i, k : PtrOf(f, i, k) = PtrOf(e, i, k)
    BY <2>2, <2>3, SameData
  <2>5. OthersSame(f, d, c)
    BY <2>2, <2>4 DEF OthersSame
  <2> QED BY <2>1, <2>2, <2>4, <2>5 DEF f, SameInodeMap
<1>7. ASSUME NEW e \in A PROVE Written(e, w) \in C
  <2>1. Written(e, w) \in LessBut(e, {c}, 0)
    BY InodeUnmarked
  <2> HIDE DEF w
  <2> QED BY <2>1, LessOthers
<1> HIDE DEF t, u, v, w, O, A, C
<1>8. d \in Owned
  BY DEF Owned, BlocksSound
<1>9. Leads(d, <<t>>, O, Owned)
  BY <1>3, <1>4, <1>8, LeadsOne
<1>10. ASSUME NEW e \in O PROVE Leads(e, <<u, v, w>>, C, Owned)
  <2>1. e \in Owned /\ Written(e, u) \in A \cap Owned
    BY <1>3, <1>5
  <2>2. \A h \in A : Written(h, v) \in A \cap Owned
    BY <1>3, <1>6
  <2>3. \A h \in A : Written(h, w) \in C \cap Owned
    BY <1>3, <1>7
  <2> QED BY <2>1, <2>2, <2>3, LeadsThree
<1>11. <<t>> \in Seq(Writes) /\ <<u, v, w>> \in Seq(Writes) /\ <<t, u, v, w>> \in Seq(Writes)
       /\ <<t>> \o <<u, v, w>> = <<t, u, v, w>>
  <2>1. <<t>> \in Seq(Writes) /\ <<u, v, w>> \in Seq(Writes)
    BY <1>2
  <2>2. <<t, u, v, w>> \in Seq(Writes)
    BY <1>2
  <2>3. <<t>> \o <<u, v, w>> = <<t, u, v, w>>
    <3> DEFINE r == <<t>> \o <<u, v, w>>
               s == <<t, u, v, w>>
    <3>1. r \in Seq(Writes) /\ s \in Seq(Writes) /\ Len(r) = 4 /\ Len(s) = 4
      BY <2>1, <2>2
    <3>2. r[1] = s[1] /\ r[2] = s[2] /\ r[3] = s[3] /\ r[4] = s[4]
      BY <2>1, <2>2
    <3> HIDE DEF r, s
    <3>3. \A x \in 1 .. Len(r) : r[x] = s[x]
      BY <3>1, <3>2
    <3>4. r = s
      BY <3>1, <3>3, SameSequence
    <3> QED BY <3>4 DEF r, s
  <2> QED BY <2>1, <2>2, <2>3
<1>12. Leads(d, <<t>> \o <<u, v, w>>, C, Owned)
  BY <1>9, <1>10, <1>11, LeadsConcat
<1> QED BY <1>0, <1>11, <1>12 DEF t, u, v, w, C

---------------------------------------------------------------------------
(* Names are removed *)

\* What holds where the path q, for inode c without names, is about to be taken
\* out of directory p: its entry is at place, entry j behind pointer k.
Removing(d, q, p, place, c, k, j) ==
  /\ Sound(d) /\ q \in Path /\ Reached(d, q) /\ p = Ino(d, Up(q)) /\ c = Ino(d, q)
  /\ place \in PlaceType /\ IsAt(d, p, k, j, q[Len(q)]) /\ PlaceAt(place, d, p, k, j)
  /\ EntryAt(d, p, k, j).ino = c
  /\ \A x \in Name, b \in InodeNum : Plain(x) => ~Has(d, c, x, b)

\* The entry a call removes, and that it is the only one of its inode.
LEMMA RemovingIs ==
  ASSUME NEW d, NEW q, NEW p, NEW place, NEW c, NEW k, NEW j, Removing(d, q, p, place, c, k, j)
  PROVE  /\ d \in DiskType /\ TreeSound(d) /\ p \in DirInodes(d) /\ p \in InodeNum
         /\ c \in d.inodeMap \ {0} /\ c \in InodeNum /\ c # p
         /\ k \in DataPos /\ j \in Entry /\ PtrOf(d, p, k) # 0 /\ PtrOf(d, p, k) \in Block
         /\ place.ents = EntsAt(d, p, k) /\ place.idx = j /\ place.blk = PtrOf(d, p, k)
         /\ <<k, j>> \in PlainCells(d, p) /\ EntryAt(d, p, k, j).ino = c
         /\ \A i \in DirInodes(d) : \A x \in PlainCells(d, i) :
              EntryAt(d, i, x[1], x[2]).ino = c => i = p /\ x = <<k, j>>
<1>1. /\ Sound(d) /\ q \in Path /\ Reached(d, q) /\ p = Ino(d, Up(q)) /\ c = Ino(d, q)
      /\ IsAt(d, p, k, j, q[Len(q)]) /\ PlaceAt(place, d, p, k, j) /\ EntryAt(d, p, k, j).ino = c
  BY DEF Removing
<1>2. d \in DiskType /\ TreeSound(d) /\ d.inodeMap \subseteq InodeNum
  BY <1>1, SoundParts, DiskParts
<1>3. p \in DirInodes(d) /\ c \in d.inodeMap \ {0} /\ p \in InodeNum /\ c \in InodeNum
  BY <1>1, <1>2, ReachedIs DEF DirInodes
<1>4. /\ k \in DataPos /\ j \in Entry /\ PtrOf(d, p, k) # 0 /\ EntryAt(d, p, k, j).name = q[Len(q)]
      /\ k \in Pos
  BY <1>1, PosIs DEF IsAt
<1>5. PtrOf(d, p, k) \in Block
  BY <1>2, <1>3, <1>4, PtrTyped DEF Pointer
<1>6. place.ents = EntsAt(d, p, k) /\ place.idx = j /\ place.blk = PtrOf(d, p, k)
  BY <1>1, <1>4, PlaceAtParts DEF EntsAt
<1>7. Plain(q[Len(q)]) /\ q[Len(q)] # ""
  <2>1. Len(q) \in 1 .. Len(q)
    BY <1>1, PathIs
  <2> QED BY <1>1, <2>1, PathIs DEF Plain
<1>8. <<k, j>> \in PlainCells(d, p)
  BY <1>4, <1>7 DEF PlainCells, Cells
<1>9. \A i \in DirInodes(d) : \A x \in PlainCells(d, i) :
        EntryAt(d, i, x[1], x[2]).ino = c => i = p /\ x = <<k, j>>
  <2>1. EntriesOnce(d)
    BY <1>2 DEF TreeSound
  <2> DEFINE y == <<k, j>>
  <2>2. y \in PlainCells(d, p) /\ EntryAt(d, p, y[1], y[2]).ino = c
    BY <1>1, <1>8
  <2> HIDE DEF y
  <2>3. \A i \in DirInodes(d) : \A x \in PlainCells(d, i) :
          EntryAt(d, i, x[1], x[2]).ino = c => i = p /\ x = y
    BY <1>3, <2>1, <2>2 DEF EntriesOnce
  <2> QED BY <2>3 DEF y
<1>10. c # p
  <2>1. CASE Up(q) = <<>>
    BY <1>1, <1>3, <2>1, RootReached
  <2>2. CASE Up(q) \in Path
    <3>1. Reached(d, Up(q))
      BY <1>1, <1>2, ReachedIs
    <3>2. c = p => Up(q) = q
      BY <1>1, <1>2, <2>2, <3>1, OnePathEach
    <3>3. Len(Up(q)) = Len(q) - 1 /\ Len(q) \in Nat
      BY <1>1, PathIs, UpIs
    <3> QED BY <3>2, <3>3
  <2> QED BY <1>1, <2>1, <2>2, UpOfPath
<1> QED BY <1>1, <1>2, <1>3, <1>4, <1>5, <1>6, <1>8, <1>9, <1>10

\* The disks where inode c of d is not in use any more and the block behind
\* pointer k of directory p holds the entries ents.
PutIn(d, c, m, p, k, ents) ==
  {e \in DiskType : /\ BlocksSound(e) /\ e.inode[c] = FreeInode
                    /\ e.inodeMap = d.inodeMap \ {c} /\ e.info.inodes = d.info.inodes - m
                    /\ \A i \in InodeNum \ {c} :
                         e.inode[i] = d.inode[i] /\ \A l \in Pos : PtrOf(e, i, l) = PtrOf(d, i, l)
                    /\ EntsAt(e, p, k) = ents
                    /\ \A i \in InodeNum \ {c}, l \in DataPos :
                         i # p \/ l # k => EntsAt(e, i, l) = EntsAt(d, i, l)}

\* Before its entry is cleared an inode that is not there any more leaves the
\* directory's entries.
LEMMA UnmadeIsPutIn ==
  ASSUME NEW d, NEW c, NEW m, NEW p \in InodeNum \ {c}, NEW k \in DataPos
  PROVE  Unmade(d, c, m) \subseteq PutIn(d, c, m, p, k, EntsAt(d, p, k))
<1> SUFFICES ASSUME NEW e \in Unmade(d, c, m) PROVE e \in PutIn(d, c, m, p, k, EntsAt(d, p, k))
  OBVIOUS
<1>1. /\ e \in DiskType /\ BlocksSound(e) /\ OthersSame(e, d, c) /\ e.inode[c] = FreeInode
      /\ e.inodeMap = d.inodeMap \ {c} /\ e.info.inodes = d.info.inodes - m
  BY DEF Unmade
<1>2. \A i \in InodeNum \ {c}, l \in DataPos : EntsAt(e, i, l) = EntsAt(d, i, l)
  <2> TAKE i \in InodeNum \ {c}, l \in DataPos
  <2>1. /\ PtrOf(e, i, l) = PtrOf(d, i, l)
        /\ PtrOf(d, i, l) # 0 => e.blk[PtrOf(d, i, l)] = d.blk[PtrOf(d, i, l)]
    BY <1>1, PosIs DEF OthersSame
  <2> QED BY <2>1 DEF EntsAt
<1> QED BY <1>1, <1>2 DEF PutIn, OthersSame

\* Other entries are written.
LEMMA PutInOther ==
  ASSUME NEW d, NEW c, NEW m, NEW p \in InodeNum \ {c}, NEW k \in DataPos, PtrOf(d, p, k) # 0,
         IsDirIn(d, p), NEW old, NEW h \in PutIn(d, c, m, p, k, old), NEW ents \in [Entry -> EntryType],
         NEW b, b = PtrOf(d, p, k)
  PROVE  LET w == WriteBlock(b, DirBlock(ents))
         IN  Written(h, w) \in PutIn(d, c, m, p, k, ents)
<1> DEFINE w == WriteBlock(b, DirBlock(ents))
           f == Written(h, w)
<1>1. /\ h \in DiskType /\ BlocksSound(h) /\ h.inode[c] = FreeInode
      /\ h.inodeMap = d.inodeMap \ {c} /\ h.info.inodes = d.info.inodes - m
      /\ \A i \in InodeNum \ {c} :
           h.inode[i] = d.inode[i] /\ \A l \in Pos : PtrOf(h, i, l) = PtrOf(d, i, l)
      /\ \A i \in InodeNum \ {c}, l \in DataPos :
           i # p \/ l # k => EntsAt(h, i, l) = EntsAt(d, i, l)
  BY DEF PutIn
<1>2. k \in Pos /\ k # 0 /\ b # 0 /\ PtrOf(h, p, k) = b /\ IsDirIn(h, p)
  BY <1>1, PosIs DEF IsDirIn, DataPos
<1>3. DirBlock(ents) \in BlockType /\ DirBlock(ents).kind = "dir" /\ Ents(DirBlock(ents)) = ents
  BY BlocksAre DEF DirBlock, Ents
<1>4. KindOf(h.inode[p], k) = "dir"
  BY <1>2 DEF KindOf, IsDirIn
<1> DEFINE v == DirBlock(ents)
<1> HIDE DEF v
<1>5. /\ f \in DiskType /\ SameBut(f, h, "blk") /\ BlocksSound(f)
      /\ \A x \in Block : f.blk[x] = IF x = b THEN v ELSE h.blk[x]
      /\ SamePtrs(f, h) /\ SameTypes(f, h)
  BY <1>1, <1>2, <1>3, <1>4, ContentWritten DEF v
<1> HIDE DEF f, w
<1>6. f.inode = h.inode /\ f.inodeMap = h.inodeMap /\ f.info = h.info
  BY <1>5 DEF SameBut
<1>7. OwnedOnce(h)
  BY <1>1 DEF BlocksSound
<1>8. /\ EntsAt(f, p, k) = Ents(v)
      /\ \A i \in InodeNum, l \in DataPos : i # p \/ l # k => EntsAt(f, i, l) = EntsAt(h, i, l)
  BY <1>1, <1>2, <1>5, <1>7, EntsWritten
<1>9. \A i \in InodeNum \ {c} :
           f.inode[i] = d.inode[i] /\ \A l \in Pos : PtrOf(f, i, l) = PtrOf(d, i, l)
  BY <1>1, <1>5, <1>6 DEF SamePtrs
<1>10. \A i \in InodeNum \ {c}, l \in DataPos : i # p \/ l # k => EntsAt(f, i, l) = EntsAt(d, i, l)
  BY <1>1, <1>8
<1>11. EntsAt(f, p, k) = ents
  BY <1>3, <1>8 DEF v
<1>12. f \in PutIn(d, c, m, p, k, ents)
  BY <1>1, <1>5, <1>6, <1>9, <1>10, <1>11 DEF PutIn
<1> QED BY <1>12 DEF f, w

\* The entries of a block when one is cleared: that at z moves to its place.
Final(place) == IF Behind(place) = {} THEN Cleared(place) ELSE Moved(place)
\* The entries when one is removed: the last name behind it is in its place.
LEMMA FinalIs ==
  ASSUME NEW place \in PlaceType
  PROVE  /\ Cleared(place) \in [Entry -> EntryType] /\ Final(place) \in [Entry -> EntryType]
         /\ Behind(place) # {} => Moved(place) \in [Entry -> EntryType]
         /\ place.ents[place.idx].name # "" =>
              \E z \in Entry : /\ z = place.idx \/ z > place.idx
                               /\ place.ents[z].name # ""
                               /\ \A n \in Entry : Final(place)[n] =
                                    IF n = z THEN NoEntry
                                    ELSE IF n = place.idx THEN place.ents[z] ELSE place.ents[n]
<1>1. /\ place.ents \in [Entry -> EntryType] /\ place.idx \in Entry /\ NoEntry \in EntryType
  BY PlaceParts, NoEntryTyped
<1>2. Cleared(place) \in [Entry -> EntryType]
      /\ \A n \in Entry : Cleared(place)[n] = IF n = place.idx THEN NoEntry ELSE place.ents[n]
  BY <1>1 DEF Cleared
<1>3. CASE Behind(place) = {}
  <2>1. Final(place) = Cleared(place)
    BY <1>3 DEF Final
  <2> QED BY <1>1, <1>2, <1>3, <2>1
<1>4. CASE Behind(place) # {}
  <2> DEFINE z == LastBehind(place)
  <2>1. Final(place) = Moved(place)
    BY <1>4 DEF Final
  <2>2. z \in Entry /\ z > place.idx /\ place.ents[z].name # "" /\ z # place.idx
    <3>1. z \in Behind(place)
      BY <1>4, LastBehindIs
    <3>2. Entry \subseteq Nat
      BY EntryIsBig
    <3> HIDE DEF z
    <3>3. z \in Entry /\ z > place.idx /\ place.ents[z].name # ""
      BY <3>1 DEF Behind
    <3> DEFINE x == place.idx
    <3>4. z \in Nat /\ x \in Nat /\ z > x
      BY <1>1, <3>2, <3>3
    <3> HIDE DEF x
    <3>6. z # x
      BY <3>4
    <3>5. z # place.idx
      BY <3>6 DEF x
    <3> QED BY <3>3, <3>5
  <2> HIDE DEF z
  <2>3. Moved(place) = [Cleared(place) EXCEPT ![place.idx] = place.ents[z], ![z] = NoEntry]
    BY DEF Moved, z
  <2>4. Moved(place) \in [Entry -> EntryType]
    BY <1>1, <1>2, <2>2, <2>3
  <2>5. \A n \in Entry : Moved(place)[n] =
          IF n = z THEN NoEntry ELSE IF n = place.idx THEN place.ents[z] ELSE place.ents[n]
    BY <1>1, <1>2, <2>2, <2>3
  <2>6. /\ z = place.idx \/ z > place.idx
        /\ place.ents[z].name # ""
        /\ \A n \in Entry : Final(place)[n] =
             IF n = z THEN NoEntry ELSE IF n = place.idx THEN place.ents[z] ELSE place.ents[n]
    BY <2>1, <2>2, <2>5
  <2>7. Cleared(place) \in [Entry -> EntryType] /\ Final(place) \in [Entry -> EntryType]
    BY <1>2, <2>1, <2>4
  <2> QED BY <2>2, <2>4, <2>6, <2>7
<1> QED BY <1>3, <1>4

\* An entry is cleared.
LEMMA ClearLeads ==
  ASSUME NEW d, NEW q, NEW p, NEW place, NEW c, NEW k, NEW j, Removing(d, q, p, place, c, k, j),
         NEW m, NEW h \in Unmade(d, c, m)
  PROVE  Leads(h, ClearEntry(place), PutIn(d, c, m, p, k, Final(place)), Owned)
<1>0. /\ p \in DirInodes(d) /\ p \in InodeNum /\ c # p
      /\ k \in DataPos /\ PtrOf(d, p, k) # 0 /\ place.blk = PtrOf(d, p, k)
  <2>1. /\ p \in DirInodes(d) /\ p \in InodeNum /\ c # p
        /\ k \in DataPos /\ PtrOf(d, p, k) # 0 /\ place.blk = PtrOf(d, p, k) /\ <<k, j>> \in PlainCells(d, p)
        /\ \A x \in PlainCells(d, p) : EntryAt(d, p, x[1], x[2]).ino = c => x = <<k, j>>
    BY RemovingIs
  <2> QED BY <2>1
<1> DEFINE b == place.blk
           u == WriteBlock(b, DirBlock(Cleared(place)))
           v == WriteBlock(b, DirBlock(Moved(place)))
           P(x) == PutIn(d, c, m, p, k, x)
           A == P(Cleared(place))
           B == P(Final(place))
<1>1. /\ p \in InodeNum \ {c} /\ k \in DataPos /\ PtrOf(d, p, k) # 0 /\ b = PtrOf(d, p, k)
      /\ IsDirIn(d, p) /\ place \in PlaceType
  <2>1. place \in PlaceType
    BY DEF Removing
  <2> QED BY <1>0, <2>1 DEF DirInodes
<1>2. h \in P(EntsAt(d, p, k))
  BY <1>1, UnmadeIsPutIn
<1> HIDE DEF b
<1>3. Written(h, u) \in A
  <2>1. Cleared(place) \in [Entry -> EntryType]
    BY <1>1, FinalIs
  <2> QED BY <1>1, <1>2, <2>1, PutInOther
<1>4. A \subseteq Owned /\ B \subseteq Owned /\ h \in Owned
  BY DEF PutIn, Owned, BlocksSound, Unmade
<1>5. u \in Writes /\ ClearEntry(place) = <<u>> \o IF Behind(place) = {} THEN <<>> ELSE <<v>>
  <2>1. Cleared(place) \in [Entry -> EntryType]
    BY <1>1, FinalIs
  <2>2. b \in Pointer
    BY <1>1, PlaceParts DEF b
  <2> QED BY <2>1, <2>2, WritesAre, BlocksAre, ClearEntryIs DEF b
<1>6. CASE Behind(place) = {}
  <2>1. ClearEntry(place) = <<u>> /\ Final(place) = Cleared(place)
    <3>1. ClearEntry(place) = <<u>> \o <<>>
      BY <1>5, <1>6
    <3> HIDE DEF u, A, B
    <3> QED BY <1>5, <1>6, <3>1 DEF Final
  <2> HIDE DEF u, P
  <2>2. Leads(h, <<u>>, A, Owned)
    BY <1>3, <1>4, LeadsOne
  <2> QED BY <2>1, <2>2 DEF P
<1>7. CASE Behind(place) # {}
  <2>1. ClearEntry(place) = <<u>> \o <<v>> /\ Final(place) = Moved(place)
    BY <1>5, <1>7 DEF Final
  <2>2. Moved(place) \in [Entry -> EntryType]
    BY <1>1, <1>7, FinalIs
  <2>3. v \in Writes
    <3>1. b \in Pointer
      BY <1>1, PlaceParts DEF b
    <3> QED BY <2>2, <3>1, WritesAre, BlocksAre
  <2>4. ASSUME NEW e \in A PROVE Written(e, v) \in B
    <3>1. Written(e, v) \in P(Moved(place))
      BY <1>1, <2>2, PutInOther
    <3> QED BY <2>1, <3>1
  <2> HIDE DEF u, v, A, B
  <2>5. \A e \in A : Leads(e, <<v>>, B, Owned)
    BY <1>4, <2>4, LeadsOne
  <2>6. Leads(h, <<u>>, A, Owned)
    BY <1>3, <1>4, LeadsOne
  <2>7. <<u>> \in Seq(Writes) /\ <<v>> \in Seq(Writes)
    BY <1>5, <2>3
  <2>8. Leads(h, <<u>> \o <<v>>, B, Owned)
    BY <2>5, <2>6, <2>7, LeadsConcat
  <2> QED BY <2>1, <2>8 DEF B
<1> QED BY <1>6, <1>7

\* Directory p has one entry less.
LEMMA EntryGone ==
  ASSUME NEW d, NEW q, NEW p, NEW place, NEW c, NEW k, NEW j, Removing(d, q, p, place, c, k, j),
         NEW m, NEW e \in PutIn(d, c, m, p, k, Final(place))
  PROVE  \E f : OneLess(e, d, p, f, c)
<1> DEFINE y == <<k, j>>
           ents == EntsAt(d, p, k)
<1>1. /\ d \in DiskType /\ TreeSound(d) /\ p \in DirInodes(d) /\ p \in InodeNum \ {c}
      /\ k \in DataPos /\ j \in Entry /\ place.ents = ents /\ place.idx = j
      /\ y \in PlainCells(d, p) /\ EntryAt(d, p, k, j).ino = c
      /\ \A x \in PlainCells(d, p) : EntryAt(d, p, x[1], x[2]).ino = c => x = y
  BY RemovingIs
<1>2. NamesOnce(d, p) /\ DotRight(d, p)
  BY <1>1, SoundDir
<1>3. place \in PlaceType
  BY DEF Removing
<1>4. y \in Cells(d, p) /\ Plain(EntryAt(d, p, k, j).name) /\ ents[j].name # "" /\ ents[j] = EntryAt(d, p, k, j)
  <2>1. y \in Cells(d, p) /\ Plain(EntryAt(d, p, k, j).name)
    BY <1>1 DEF PlainCells
  <2>2. EntryAt(d, p, k, j) = ents[j]
    <3>1. y[1] = k /\ y[2] = j
      OBVIOUS
    <3> HIDE DEF y
    <3>2. EntryAt(d, p, y[1], y[2]) = EntsAt(d, p, y[1])[y[2]]
      BY <2>1, CellsAre
    <3> QED BY <3>1, <3>2
  <2> QED BY <2>1, <2>2 DEF Plain
<1> HIDE DEF ents
<1>5. PICK z \in Entry : /\ z = j \/ z > j
                         /\ ents[z].name # ""
                         /\ \A n \in Entry : Final(place)[n] =
                              IF n = z THEN NoEntry ELSE IF n = j THEN ents[z] ELSE ents[n]
  <2>1. place.ents[place.idx].name # "" /\ place.ents = ents /\ place.idx = j
    BY <1>1, <1>4
  <2>2. \E z \in Entry : /\ z = place.idx \/ z > place.idx
                         /\ place.ents[z].name # ""
                         /\ \A n \in Entry : Final(place)[n] =
                              IF n = z THEN NoEntry
                              ELSE IF n = place.idx THEN place.ents[z] ELSE place.ents[n]
    BY <1>3, <2>1, FinalIs
  <2> HIDE DEF y
  <2> QED BY <2>1, <2>2
<1> DEFINE t == <<k, z>>
<1>6. /\ PtrOf(e, p, 1) = PtrOf(d, p, 1) /\ EntsAt(e, p, k) = Final(place)
      /\ \A l \in DataPos \ {k} : EntsAt(e, p, l) = EntsAt(d, p, l)
  <2>1. 1 \in Pos
    BY PosIs
  <2> QED BY <1>1, <2>1 DEF PutIn
<1>7. t \in Cells(d, p) /\ EntryAt(d, p, t[1], t[2]) = ents[z]
  <2>1. t[1] = k /\ t[2] = z /\ t \in DataPos \X Entry
    BY <1>1
  <2>2. EntsAt(d, p, t[1])[t[2]] = ents[z]
    BY <2>1 DEF ents
  <2> HIDE DEF t, y
  <2>3. t \in Cells(d, p)
    BY <1>5, <2>1, <2>2, CellsAre
  <2>4. EntryAt(d, p, t[1], t[2]) = EntsAt(d, p, t[1])[t[2]]
    BY <2>3, CellsAre
  <2> QED BY <2>2, <2>3, <2>4
<1>8. t = y \/ t[1] # 1 \/ t[2] > 2
  <2> SUFFICES ASSUME k = 1, z > j PROVE z > 2
    BY <1>5
  <2>1. EntryAt(d, p, 1, 1).name = "."
    BY <1>2 DEF DotRight
  <2>2. j # 1
    BY <1>4, <2>1 DEF Plain
  <2>3. j >= 1 /\ j \in Nat /\ z \in Nat
    BY <1>1, GeometryAssumption DEF Entry
  <2> QED BY <2>2, <2>3
<1>13. t[1] = k /\ t[2] = z /\ y[1] = k /\ y[2] = j /\ NoEntry.name = ""
  BY DEF NoEntry
<1>14. ASSUME NEW x \in DataPos \X Entry
       PROVE  x[1] \in DataPos /\ x[2] \in Entry /\ (x = t <=> x[1] = k /\ x[2] = z)
              /\ (x = y <=> x[1] = k /\ x[2] = j)
  <2>1. x[1] \in DataPos /\ x[2] \in Entry /\ x = <<x[1], x[2]>>
    BY PairIs
  <2> QED BY <2>1
<1> HIDE DEF t, y
<1>9. \A x : x \in Cells(e, p) <=> x \in Cells(d, p) /\ x # t
  <2>0. ASSUME NEW x \in DataPos \X Entry
        PROVE  EntsAt(e, p, x[1])[x[2]].name # "" <=> EntsAt(d, p, x[1])[x[2]].name # "" /\ x # t
    <3>1. x[1] \in DataPos /\ x[2] \in Entry /\ (x = t <=> x[1] = k /\ x[2] = z)
      BY <1>14
    <3>2. CASE x[1] # k
      BY <1>6, <3>1, <3>2
    <3>3. CASE x[1] = k
      <4>1. EntsAt(e, p, x[1])[x[2]] = IF x[2] = z THEN NoEntry ELSE IF x[2] = j THEN ents[z] ELSE ents[x[2]]
        BY <1>5, <1>6, <3>1, <3>3
      <4>2. EntsAt(d, p, x[1])[x[2]] = ents[x[2]]
        BY <3>3 DEF ents
      <4>3. x = t <=> x[2] = z
        BY <3>1, <3>3
      <4>4. CASE x[2] = z
        BY <1>13, <4>1, <4>3, <4>4
      <4>5. CASE x[2] # z /\ x[2] = j
        <5>1. EntsAt(e, p, x[1])[x[2]].name # "" /\ EntsAt(d, p, x[1])[x[2]].name # ""
          BY <1>4, <1>5, <4>1, <4>2, <4>5
        <5> QED BY <4>3, <4>5, <5>1
      <4>6. CASE x[2] # z /\ x[2] # j
        BY <4>1, <4>2, <4>3, <4>6
      <4> QED BY <4>4, <4>5, <4>6
    <3> QED BY <3>2, <3>3
  <2>1. \A x : x \in Cells(e, p) <=> x \in DataPos \X Entry /\ EntsAt(e, p, x[1])[x[2]].name # ""
    BY CellsAre
  <2>2. \A x : x \in Cells(d, p) <=> x \in DataPos \X Entry /\ EntsAt(d, p, x[1])[x[2]].name # ""
    BY CellsAre
  <2> QED BY <2>0, <2>1, <2>2, Zenon
<1>10. \A x \in Cells(e, p) : EntryAt(e, p, x[1], x[2]) =
                                IF x = y THEN EntryAt(d, p, t[1], t[2]) ELSE EntryAt(d, p, x[1], x[2])
  <2> TAKE x \in Cells(e, p)
  <2>1. x \in Cells(d, p) /\ x # t
    BY <1>9
  <2>2. /\ EntryAt(e, p, x[1], x[2]) = EntsAt(e, p, x[1])[x[2]]
        /\ EntryAt(d, p, x[1], x[2]) = EntsAt(d, p, x[1])[x[2]]
        /\ x \in DataPos \X Entry
    BY <2>1, CellsAre
  <2>3. x[1] \in DataPos /\ x[2] \in Entry /\ (x = t <=> x[1] = k /\ x[2] = z)
        /\ (x = y <=> x[1] = k /\ x[2] = j)
    BY <1>14, <2>2
  <2>4. CASE x[1] # k
    BY <1>6, <2>2, <2>3, <2>4
  <2>5. CASE x[1] = k
    <3>1. x[2] # z /\ (x = y <=> x[2] = j)
      BY <2>1, <2>3, <2>5
    <3>2. EntsAt(e, p, x[1])[x[2]] = IF x[2] = j THEN ents[z] ELSE ents[x[2]]
      BY <1>5, <1>6, <2>3, <2>5, <3>1
    <3>3. EntsAt(d, p, x[1])[x[2]] = ents[x[2]]
      BY <2>5 DEF ents
    <3> QED BY <1>7, <2>2, <3>1, <3>2, <3>3
  <2> QED BY <2>4, <2>5
<1>11. PtrOf(e, p, 1) # 0
  BY <1>2, <1>6 DEF DotRight
<1>12. EntryAt(d, p, y[1], y[2]).ino = c
  BY <1>1, <1>13
<1> QED BY <1>1, <1>2, <1>7, <1>8, <1>9, <1>10, <1>11, <1>12, TookOne

\* The tree is sound without the entry, and the paths lead where they led.
LEMMA RemovedTree ==
  ASSUME NEW d, NEW q, NEW p, NEW place, NEW c, NEW k, NEW j, Removing(d, q, p, place, c, k, j),
         NEW m, NEW e \in PutIn(d, c, m, p, k, Final(place))
  PROVE  /\ TreeSound(e) /\ DirInodes(e) = DirInodes(d) \ {c}
         /\ \A i \in DirInodes(e) : NoHoles(e, i) /\ \A x \in PlainCells(e, i) : EntryAt(e, i, x[1], x[2]).ino # c
         /\ AllNamed(e, InodesAt(e)) /\ FreeBlank(e)
<1>1. /\ d \in DiskType /\ TreeSound(d) /\ p \in DirInodes(d) /\ p \in InodeNum /\ c \in InodeNum
      /\ c # 0 /\ c # p /\ c \in d.inodeMap
      /\ \A i \in DirInodes(d) : \A x \in PlainCells(d, i) :
              EntryAt(d, i, x[1], x[2]).ino = c => i = p /\ x = <<k, j>>
  <2>1. /\ d \in DiskType /\ TreeSound(d) /\ p \in DirInodes(d) /\ p \in InodeNum /\ c \in InodeNum
        /\ c # p /\ c \in d.inodeMap \ {0} /\ <<k, j>> \in PlainCells(d, p)
        /\ \A i \in DirInodes(d) : \A x \in PlainCells(d, i) :
              EntryAt(d, i, x[1], x[2]).ino = c => i = p /\ x = <<k, j>>
    BY RemovingIs
  <2> QED BY <2>1
<1>2. Sound(d) /\ \A x \in Name, b \in InodeNum : Plain(x) => ~Has(d, c, x, b)
  BY DEF Removing
<1>3. /\ e \in DiskType /\ BlocksSound(e) /\ e.inode[c] = FreeInode
      /\ e.inodeMap = d.inodeMap \ {c}
      /\ \A i \in InodeNum \ {c} :
           e.inode[i] = d.inode[i] /\ \A l \in Pos : PtrOf(e, i, l) = PtrOf(d, i, l)
      /\ \A i \in InodeNum \ {c}, l \in DataPos : i # p \/ l # k => EntsAt(e, i, l) = EntsAt(d, i, l)
  BY DEF PutIn
<1>4. KindsRight(e)
  BY <1>3 DEF BlocksSound
<1>5. DirInodes(e) = DirInodes(d) \ {c}
  <2>1. ~IsDirIn(e, c)
    BY <1>3 DEF IsDirIn, FreeInode
  <2>2. \A i \in InodeNum \ {c} : IsDirIn(e, i) <=> IsDirIn(d, i)
    BY <1>3 DEF IsDirIn
  <2> QED BY <2>1, <2>2 DEF DirInodes
<1>6. \A i \in DirInodes(e) \ {p} : SameCells(e, d, i)
  <2> TAKE i \in DirInodes(e) \ {p}
  <2>1. i \in InodeNum \ {c}
    BY <1>5 DEF DirInodes
  <2>2. \A l \in DataPos : EntsAt(e, i, l) = EntsAt(d, i, l)
    BY <1>3, <2>1
  <2> QED BY <2>2, SameEnts
<1>7. PICK f : OneLess(e, d, p, f, c)
  BY EntryGone
<1>8. \A i \in DirInodes(e) \ {p} : \A x \in PlainCells(d, i) : EntryAt(d, i, x[1], x[2]).ino # c
  BY <1>1, <1>5
<1>9. /\ TreeSound(e)
      /\ \A i \in DirInodes(d) \ {c} : \A x, b : Plain(x) /\ b # c /\ Has(d, i, x, b) => Has(e, i, x, b)
  BY <1>1, <1>3, <1>4, <1>5, <1>6, <1>7, <1>8, LessSound
<1>10. \A i \in DirInodes(e) : NoHoles(e, i)
  <2> TAKE i \in DirInodes(e)
  <2>1. i \in InodeNum \ {c} /\ i \in DirInodes(d)
    BY <1>5 DEF DirInodes
  <2>2. NoHoles(d, i)
    BY <1>2, <2>1, SoundParts
  <2>3. \A l \in DataPos : PtrOf(e, i, l) = PtrOf(d, i, l)
    BY <1>3, <2>1, PosIs
  <2> QED BY <2>2, <2>3 DEF NoHoles
<1>11. ASSUME NEW i \in DirInodes(e), NEW x \in PlainCells(e, i) PROVE EntryAt(e, i, x[1], x[2]).ino # c
  <2>1. CASE i = p
    BY <1>7, <2>1 DEF OneLess
  <2>2. CASE i # p
    <3>1. SameCells(e, d, i) /\ i \in DirInodes(d)
      BY <1>5, <1>6, <2>2
    <3>2. NamesOnce(d, i) /\ DotRight(d, i)
      BY <1>1, <3>1, SoundDir
    <3>3. x \in PlainCells(d, i) /\ x \in Cells(d, i)
      BY <3>1, <3>2, SameCellsRight DEF PlainCells
    <3>4. EntryAt(e, i, x[1], x[2]) = EntryAt(d, i, x[1], x[2])
      BY <3>1, <3>3 DEF SameCells
    <3>5. EntryAt(d, i, x[1], x[2]).ino # c
      BY <1>8, <2>2, <3>3
    <3> QED BY <3>4, <3>5
  <2> QED BY <2>1, <2>2
<1>12. FreeBlank(e)
  <2>1. \A b \in Block \ e.blockMap : e.blk[b] = Zero
    BY <1>3 DEF BlocksSound
  <2>2. \A i \in InodeNum \ d.inodeMap : d.inode[i] = FreeInode
    BY <1>2, SoundParts DEF FreeBlank
  <2>3. \A i \in InodeNum \ e.inodeMap : e.inode[i] = FreeInode
    BY <1>3, <2>2
  <2> QED BY <2>1, <2>3 DEF FreeBlank
<1>13. AllNamed(e, InodesAt(e))
  <2> DEFINE gone == {c}
  <2>1. \A i \in DirInodes(d), x \in Name, b \in InodeNum : Plain(x) /\ Has(d, i, x, b) /\ b \notin gone => Has(e, i, x, b)
    BY <1>2, <1>9
  <2>2. \A i \in gone, x \in Name, b \in InodeNum : Plain(x) => ~Has(d, i, x, b)
    BY <1>2
  <2>3. /\ \A b \in e.inodeMap : b \in d.inodeMap \ gone
        /\ 0 \in e.inodeMap
    <3>1. 0 \in d.inodeMap
      BY <1>2, SoundParts
    <3> QED BY <1>1, <1>3, <3>1
  <2>4. AllNamed(d, InodesAt(d))
    BY <1>2, SoundParts
  <2> HIDE DEF gone
  <2> QED BY <1>1, <1>3, <1>9, <1>10, <2>1, <2>2, <2>3, <2>4, NamedKept
<1> QED BY <1>5, <1>9, <1>10, <1>11, <1>12, <1>13

\* The sound disks with the inodes of d but c.
Gone(d, c) == {e \in DiskType : /\ Sound(e) /\ e.inodeMap = d.inodeMap \ {c}
                                /\ \A j \in InodeNum \ {c} : e.inode[j].type = d.inode[j].type}
\* With the entry gone the rest of the tree is sound.
LEMMA RemovedSound ==
  ASSUME NEW d, NEW q, NEW p, NEW place, NEW c, NEW k, NEW j, Removing(d, q, p, place, c, k, j)
  PROVE  PutIn(d, c, 1, p, k, Final(place)) \subseteq Gone(d, c)
<1> SUFFICES ASSUME NEW e \in PutIn(d, c, 1, p, k, Final(place)) PROVE e \in Gone(d, c)
  OBVIOUS
<1>1. /\ e \in DiskType /\ BlocksSound(e) /\ e.inodeMap = d.inodeMap \ {c}
      /\ e.info.inodes = d.info.inodes - 1
      /\ \A i \in InodeNum \ {c} : e.inode[i] = d.inode[i]
  BY DEF PutIn
<1>2. Sound(d)
  BY DEF Removing
<1>3. c \in d.inodeMap /\ c \in InodeNum
  <2>1. c \in d.inodeMap \ {0} /\ c \in InodeNum /\ <<k, j>> \in PlainCells(d, p)
    BY RemovingIs
  <2> QED BY <2>1
<1>4. /\ TreeSound(e) /\ AllNamed(e, InodesAt(e)) /\ FreeBlank(e)
      /\ \A i \in DirInodes(e) : NoHoles(e, i)
  BY RemovedTree
<1>5. e.info.inodes = Cardinality(e.inodeMap)
  <2>1. Cardinality(d.inodeMap \ {c}) = Cardinality(d.inodeMap) - 1
    BY <1>2, <1>3, InodesCounted
  <2>2. d.info.inodes = Cardinality(d.inodeMap)
    BY <1>2, SoundParts
  <2> QED BY <1>1, <2>1, <2>2
<1>6. OwnedOnce(e) /\ Marked(e)
  BY <1>1 DEF BlocksSound
<1>7. Sound(e)
  BY <1>1, <1>4, <1>5, <1>6 DEF Sound, Whole
<1> QED BY <1>1, <1>7 DEF Gone

\* Whether the directory gives the block back when the entry at place goes.
FileShrinks(d, p, place) == Emptied(place) /\ d.inode[p].direct[2] = place.blk
\* Removing the entry makes the directory give its block back.
DirShrinks(d, p, place) ==
  Emptied(place) /\ (d.inode[p].direct[2] = place.blk \/ d.inode[p].indir # 0)

\* The disks on which blocks are owned once and the paths are a tree: also what
\* is left where a directory gave a block back.
Trees == {e \in DiskType : OwnedOnce(e) /\ TreeSound(e)}

\* An inode is given up and its entry cleared.
LEMMA GiveUpAndClear ==
  ASSUME NEW d, NEW q, NEW p, NEW place, NEW c, NEW k, NEW j, Removing(d, q, p, place, c, k, j),
         NEW m, NEW ws \in Seq(Writes), Leads(d, ws, Unmade(d, c, m), Owned)
  PROVE  /\ ws \o ClearEntry(place) \in Seq(Writes)
         /\ Leads(d, ws \o ClearEntry(place), PutIn(d, c, m, p, k, Final(place)), Owned)
<1> DEFINE vs == ClearEntry(place)
           B == PutIn(d, c, m, p, k, Final(place))
<1>1. vs \in Seq(Writes)
  <2>1. place \in PlaceType
    BY DEF Removing
  <2> QED BY <2>1, ClearEntryTyped
<1>2. \A h \in Unmade(d, c, m) : Leads(h, vs, B, Owned)
  BY ClearLeads
<1> HIDE DEF vs, B
<1>3. Leads(d, ws \o vs, B, Owned) /\ ws \o vs \in Seq(Writes)
  BY <1>1, <1>2, LeadsConcat
<1> QED BY <1>3 DEF vs, B

\* The block behind pointer k of inode p has no entries.
NoNames(e, p, k) == \A n \in Entry : EntsAt(e, p, k)[n].name = ""

\* The entries are the same where one block has none before and after.
LEMMA EmptyEnts ==
  ASSUME NEW e, NEW g, NEW p, NEW k \in DataPos,
         NoNames(e, p, k), NoNames(g, p, k),
         \A l \in DataPos : l # k => EntsAt(g, p, l) = EntsAt(e, p, l)
  PROVE  SameCells(g, e, p)
<1>1. ASSUME NEW x \in DataPos \X Entry
      PROVE  EntsAt(g, p, x[1])[x[2]].name # "" <=> EntsAt(e, p, x[1])[x[2]].name # ""
  <2>1. x[1] \in DataPos /\ x[2] \in Entry
    BY PairIs
  <2>2. CASE x[1] = k
    BY <2>1, <2>2 DEF NoNames
  <2>3. CASE x[1] # k
    BY <2>1, <2>3
  <2> QED BY <2>2, <2>3
<1>2. \A x : x \in Cells(g, p) <=> x \in DataPos \X Entry /\ EntsAt(g, p, x[1])[x[2]].name # ""
  BY CellsAre
<1>3. \A x : x \in Cells(e, p) <=> x \in DataPos \X Entry /\ EntsAt(e, p, x[1])[x[2]].name # ""
  BY CellsAre
<1>4. \A x : x \in Cells(g, p) <=> x \in Cells(e, p)
  BY <1>1, <1>2, <1>3, Zenon
<1>5. \A x \in Cells(e, p) : EntryAt(g, p, x[1], x[2]) = EntryAt(e, p, x[1], x[2])
  <2> TAKE x \in Cells(e, p)
  <2>1. /\ EntryAt(g, p, x[1], x[2]) = EntsAt(g, p, x[1])[x[2]]
        /\ EntryAt(e, p, x[1], x[2]) = EntsAt(e, p, x[1])[x[2]]
    BY <1>4, CellsAre
  <2>2. x[1] \in DataPos /\ x[2] \in Entry /\ EntsAt(e, p, x[1])[x[2]].name # ""
    BY <1>3, PairIs
  <2>3. x[1] # k
    BY <2>2 DEF NoNames
  <2>4. EntsAt(g, p, x[1]) = EntsAt(e, p, x[1])
    BY <2>2, <2>3
  <2> QED BY <2>1, <2>4
<1>6. Cells(g, p) = Cells(e, p)
  BY <1>4
<1> QED BY <1>5, <1>6 DEF SameCells

\* A block of a directory without entries is given back: the pointer stays.
LEMMA FreedKeepsTree ==
  ASSUME NEW e \in DiskType, OwnedOnce(e), TreeSound(e), NEW p \in InodeNum, NEW k \in DataPos,
         NEW b \in Block, PtrOf(e, p, k) = b, NoNames(e, p, k),
         NEW g \in FreedOf(e, b)
  PROVE  /\ OwnedOnce(g) /\ TreeSound(g) /\ DirInodes(g) = DirInodes(e)
         /\ \A i \in DirInodes(e) : SameCells(g, e, i)
<1>1. /\ g \in DiskType /\ g.inode = e.inode /\ SameInodeMap(g, e) /\ SamePtrs(g, e)
      /\ \A x \in Block : g.blk[x] = IF x = b THEN Zero ELSE e.blk[x]
  BY DEF FreedOf
<1>2. OwnedOnce(g)
  BY <1>1, SameOwned
<1>3. /\ EntsAt(g, p, k) = Ents(Zero)
      /\ \A i \in InodeNum, l \in DataPos : i # p \/ l # k => EntsAt(g, i, l) = EntsAt(e, i, l)
  <2> DEFINE zero == Zero
  <2>1. PtrOf(e, p, k) # 0
    <3>1. b # 0
      BY BlocksArePositive
    <3> QED BY <3>1
  <2>2. \A x \in Block : g.blk[x] = IF x = PtrOf(e, p, k) THEN zero ELSE e.blk[x]
    <3> HIDE DEF zero
    <3>1. PtrOf(e, p, k) = b
      OBVIOUS
    <3>2. \A x \in Block : g.blk[x] = IF x = b THEN zero ELSE e.blk[x]
      BY <1>1 DEF zero
    <3> QED BY ONLY <3>1, <3>2
  <2>3. g \in DiskType /\ SamePtrs(g, e) /\ OwnedOnce(e)
    BY <1>1
  <2>5. p \in InodeNum /\ k \in DataPos /\ e \in DiskType /\ OwnedOnce(e)
    OBVIOUS
  <2> HIDE DEF zero
  <2>4. /\ EntsAt(g, p, k) = Ents(zero)
        /\ \A i \in InodeNum, l \in DataPos : i # p \/ l # k => EntsAt(g, i, l) = EntsAt(e, i, l)
    BY ONLY <2>1, <2>2, <2>3, <2>5, EntsWritten
  <2> QED BY <2>4 DEF zero
<1>4. NoNames(g, p, k)
  <2>1. Ents(Zero) = NoEntries
    BY ZeroHasNoEntries
  <2>2. \A n \in Entry : NoEntries[n].name = ""
    BY DEF NoEntries, NoEntry
  <2> QED BY <1>3, <2>1, <2>2 DEF NoNames
<1>5. ASSUME NEW i \in DirInodes(e) PROVE SameCells(g, e, i)
  <2>1. i \in InodeNum
    BY DEF DirInodes
  <2>2. CASE i # p
    <3>1. \A l \in DataPos : EntsAt(g, i, l) = EntsAt(e, i, l)
      BY <1>3, <2>1, <2>2
    <3> QED BY <3>1, SameEnts
  <2>3. CASE i = p
    <3>1. NoNames(e, p, k)
      OBVIOUS
    <3>2. \A l \in DataPos : l # k => EntsAt(g, p, l) = EntsAt(e, p, l)
      BY <1>3
    <3>3. SameCells(g, e, p)
      BY ONLY <1>4, <3>1, <3>2, k \in DataPos, EmptyEnts
    <3> QED BY <2>3, <3>3
  <2> QED BY <2>2, <2>3
<1>6. SameTypes(g, e)
  BY <1>1 DEF SameTypes
<1>7. KindsRight(g)
  <2> SUFFICES ASSUME NEW i \in InodeNum, NEW l \in Pos, PtrOf(g, i, l) # 0
               PROVE  g.blk[PtrOf(g, i, l)].kind \in {"zero", KindOf(g.inode[i], l)}
    BY DEF KindsRight
  <2>1. PtrOf(g, i, l) = PtrOf(e, i, l) /\ PtrOf(e, i, l) \in Block /\ g.inode[i] = e.inode[i]
    BY <1>1, PtrTyped DEF SamePtrs, Pointer
  <2>2. e.blk[PtrOf(e, i, l)].kind \in {"zero", KindOf(e.inode[i], l)}
    BY <2>1 DEF TreeSound, KindsRight
  <2>3. g.blk[PtrOf(e, i, l)] = Zero \/ g.blk[PtrOf(e, i, l)] = e.blk[PtrOf(e, i, l)]
    BY <1>1, <2>1
  <2>4. Zero.kind = "zero"
    BY DEF Zero
  <2> QED BY <2>1, <2>2, <2>3, <2>4
<1>8. TreeSound(g) /\ DirInodes(g) = DirInodes(e)
  BY <1>1, <1>5, <1>6, <1>7, StaySound DEF SameInodeMap
<1> QED BY <1>2, <1>5, <1>8

\* A block whose entry was the last one has no entries.
LEMMA EmptiedFinal ==
  ASSUME NEW place \in PlaceType, Emptied(place)
  PROVE  \A n \in Entry : Final(place)[n].name = ""
<1>1. \A j \in Entry : Cleared(place)[j].name = ""
  BY DEF Emptied
<1>2. Behind(place) = {}
  <2> SUFFICES ASSUME NEW j \in Behind(place) PROVE FALSE
    OBVIOUS
  <2>1. j \in Entry /\ j > place.idx /\ place.ents[j].name # ""
    BY DEF Behind
  <2>2. Entry \subseteq Nat /\ place.idx \in Entry /\ place.ents \in [Entry -> EntryType]
    BY EntryIsBig, PlaceParts
  <2>3. j # place.idx
    <3> DEFINE x == place.idx
    <3>1. j \in Nat /\ x \in Nat /\ j > x
      BY <2>1, <2>2
    <3> HIDE DEF x
    <3>2. j # x
      BY <3>1
    <3> QED BY <3>2 DEF x
  <2>4. Cleared(place)[j] = place.ents[j]
    BY <2>1, <2>2, <2>3 DEF Cleared
  <2> QED BY <1>1, <2>1, <2>4
<1> QED BY <1>1, <1>2 DEF Final

\* The block is given back: the paths do not notice.
LEMMA BlockGivenBack ==
  ASSUME NEW d, NEW q, NEW p, NEW place, NEW c, NEW k, NEW j, Removing(d, q, p, place, c, k, j),
         NEW m, NEW e \in PutIn(d, c, m, p, k, Final(place)), Emptied(place), NEW b, b = place.blk
  PROVE  /\ Free(b) \in Seq(Writes) /\ Leads(e, Free(b), FreedOf(e, b), Owned)
         /\ e \in DiskType /\ BlocksSound(e) /\ TreeSound(e) /\ p \in InodeNum /\ k \in DataPos
         /\ b \in Block /\ PtrOf(e, p, k) = b
         /\ \A g \in FreedOf(e, b) :
              /\ OwnedOnce(g) /\ TreeSound(g) /\ DirInodes(g) = DirInodes(e)
              /\ \A i \in DirInodes(e) : SameCells(g, e, i)
<1>1. /\ <<k, j>> \in PlainCells(d, p) /\ p \in InodeNum /\ c # p /\ k \in DataPos
      /\ PtrOf(d, p, k) \in Block /\ place.blk = PtrOf(d, p, k) /\ c \in InodeNum
  BY RemovingIs
<1>2. place \in PlaceType
  BY DEF Removing
<1>3. e \in DiskType /\ BlocksSound(e) /\ EntsAt(e, p, k) = Final(place)
  BY DEF PutIn
<1>4. PtrOf(e, p, k) = b /\ b \in Block
  <2>1. k \in Pos
    BY <1>1, PosIs
  <2>2. \A i \in InodeNum \ {c} : \A l \in Pos : PtrOf(e, i, l) = PtrOf(d, i, l)
    BY DEF PutIn
  <2> QED BY <1>1, <2>1, <2>2
<1>5. TreeSound(e)
  BY RemovedTree
<1>6. OwnedOnce(e)
  BY <1>3 DEF BlocksSound
<1>7. NoNames(e, p, k)
  BY <1>2, <1>3, EmptiedFinal DEF NoNames
<1>8. NotRead(e, b)
  <2>1. PtrOf(e, p, k) # 0
    BY <1>4, BlocksArePositive
  <2> QED BY <1>1, <1>4, <1>6, <2>1, DataNotRead
<1>9. Free(b) \in Seq(Writes)
  BY <1>4, FreeTyped
<1>10. Leads(e, Free(b), FreedOf(e, b), Owned)
  BY <1>3, <1>4, <1>6, <1>8, FreeLeads
<1>11. ASSUME NEW g \in FreedOf(e, b)
       PROVE  /\ OwnedOnce(g) /\ TreeSound(g) /\ DirInodes(g) = DirInodes(e)
              /\ \A i \in DirInodes(e) : SameCells(g, e, i)
  BY <1>1, <1>3, <1>4, <1>5, <1>6, <1>7, FreedKeepsTree
<1> QED BY <1>1, <1>3, <1>4, <1>5, <1>9, <1>10, <1>11

\* How a file is removed.
LEMMA RemoveFileIs ==
  ASSUME NEW d, NEW p, NEW place, NEW c, place.ents[place.idx].ino = c
  PROVE  myRemoveFile(d, p, place) =
           (FreeFile(d, c) \o <<PutInode(c, FreeInode), ResetInodeBitmap(c), Count(0, -1)>>)
           \o ClearEntry(place) \o IF FileShrinks(d, p, place) THEN Free(place.blk) ELSE <<>>
BY DEF myRemoveFile, FileShrinks

\* A file is removed.
LEMMA RemoveFileLeads ==
  ASSUME NEW d, NEW q, NEW p, NEW place, NEW c, NEW k, NEW j, Removing(d, q, p, place, c, k, j),
         d.inode[c].type = "file"
  PROVE  /\ FileShrinks(d, p, place) => Leads(d, myRemoveFile(d, p, place), Trees, Owned)
         /\ ~FileShrinks(d, p, place) => Leads(d, myRemoveFile(d, p, place), Gone(d, c), Owned)
<1> DEFINE us == <<PutInode(c, FreeInode), ResetInodeBitmap(c), Count(0, -1)>>
           vs == ClearEntry(place)
           ws == FreeFile(d, c) \o us
           zs == IF FileShrinks(d, p, place) THEN Free(place.blk) ELSE <<>>
           P == PutIn(d, c, 1, p, k, Final(place))
<1>1. /\ <<k, j>> \in PlainCells(d, p) /\ d \in DiskType /\ c \in InodeNum /\ place.ents[place.idx].ino = c
  <2>1. /\ <<k, j>> \in PlainCells(d, p) /\ EntryAt(d, p, k, j).ino = c /\ d \in DiskType /\ c \in InodeNum
        /\ place.ents = EntsAt(d, p, k) /\ place.idx = j /\ PtrOf(d, p, k) # 0
    BY RemovingIs
  <2>2. <<k, j>> \in Cells(d, p)
    BY <2>1 DEF PlainCells
  <2>3. EntryAt(d, p, k, j) = EntsAt(d, p, k)[j]
    BY <2>1 DEF EntryAt, EntsAt
  <2> QED BY <2>1, <2>3
<1>2. BlocksSound(d)
  <2>1. Sound(d)
    BY DEF Removing
  <2> QED BY <2>1, SoundParts
<1>3. ws \in Seq(Writes) /\ Leads(d, ws, Unmade(d, c, 1), Owned)
  BY <1>1, <1>2, FileGivenUp
<1>4. myRemoveFile(d, p, place) = (ws \o vs) \o zs
  BY <1>1, RemoveFileIs
<1> HIDE DEF us, vs, ws
<1>5. ws \o vs \in Seq(Writes) /\ Leads(d, ws \o vs, P, Owned)
  BY <1>3, GiveUpAndClear DEF vs
<1>6. CASE ~FileShrinks(d, p, place)
  <2>1. zs = <<>>
    BY <1>6
  <2>2. (ws \o vs) \o zs = ws \o vs
    <3> DEFINE s == ws \o vs
    <3>1. s \in Seq(Writes)
      BY <1>5
    <3> HIDE DEF s, zs
    <3>2. s \o <<>> = s
      BY <3>1
    <3>3. s \o zs = s
      BY <2>1, <3>2
    <3> QED BY <3>3 DEF s
  <2>3. P \subseteq Gone(d, c)
    BY RemovedSound
  <2> HIDE DEF P, zs
  <2>4. Leads(d, ws \o vs, Gone(d, c), Owned)
    BY <1>5, <2>3, LeadsWeaker
  <2> QED BY <1>4, <1>6, <2>2, <2>4
<1>7. CASE FileShrinks(d, p, place)
  <2>1. zs = Free(place.blk) /\ Emptied(place)
    BY <1>7 DEF FileShrinks
  <2> DEFINE b == place.blk
  <2>2. ASSUME NEW e \in P PROVE Leads(e, zs, Trees, Owned) /\ zs \in Seq(Writes)
    <3>1. /\ Free(b) \in Seq(Writes) /\ Leads(e, Free(b), FreedOf(e, b), Owned)
          /\ \A g \in FreedOf(e, b) : OwnedOnce(g) /\ TreeSound(g)
      BY <2>1, BlockGivenBack
    <3>2. FreedOf(e, b) \subseteq Trees
      BY <3>1 DEF FreedOf, Trees
    <3>3. Leads(e, Free(b), Trees, Owned)
      BY <3>1, <3>2, LeadsWeaker
    <3> QED BY <2>1, <3>1, <3>3
  <2>3. P # {}
    BY <1>5 DEF Leads
  <2>4. zs \in Seq(Writes)
    BY <2>2, <2>3
  <2> HIDE DEF P, zs
  <2>5. Leads(d, (ws \o vs) \o zs, Trees, Owned)
    BY <1>5, <2>2, <2>4, LeadsConcat
  <2> QED BY <1>4, <1>7, <2>5
<1> QED BY <1>6, <1>7

\* The counters are not part of the tree.
LEMMA CountedSame ==
  ASSUME NEW e \in DiskType, NEW n \in Int, NEW m \in Int
  PROVE  LET f == Written(e, Count(n, m))
         IN  /\ f \in DiskType /\ f.inode = e.inode /\ f.blk = e.blk /\ f.blockMap = e.blockMap
             /\ f.inodeMap = e.inodeMap /\ f.info.inodes = e.info.inodes + m
             /\ \A i, k : PtrOf(f, i, k) = PtrOf(e, i, k)
             /\ \A i, k : EntsAt(f, i, k) = EntsAt(e, i, k)
<1> DEFINE f == Written(e, Count(n, m))
<1>1. f \in DiskType /\ SameBut(f, e, "info") /\ f.info.inodes = e.info.inodes + m
  BY Counted
<1> HIDE DEF f
<1>2. f.inode = e.inode /\ f.blk = e.blk /\ f.blockMap = e.blockMap /\ f.inodeMap = e.inodeMap
  BY <1>1 DEF SameBut
<1>3. \A i, k : PtrOf(f, i, k) = PtrOf(e, i, k)
  BY <1>2 DEF PtrOf, IndirectPtrs
<1>4. \A i, k : EntsAt(f, i, k) = EntsAt(e, i, k)
  BY <1>2, <1>3 DEF EntsAt
<1> QED BY <1>1, <1>2, <1>3, <1>4 DEF f

\* Bits of blocks and counters are not part of the tree.
LEMMA SameTree ==
  ASSUME NEW e \in Trees, NEW f \in DiskType, f.inode = e.inode, f.blk = e.blk, f.inodeMap = e.inodeMap
  PROVE  f \in Trees \cap Owned
<1>1. e \in DiskType /\ OwnedOnce(e) /\ TreeSound(e) /\ KindsRight(e)
  BY DEF Trees, TreeSound
<1>2. /\ \A i, k : PtrOf(f, i, k) = PtrOf(e, i, k)
      /\ \A i, k : EntsAt(f, i, k) = EntsAt(e, i, k)
  BY DEF PtrOf, IndirectPtrs, EntsAt
<1>3. OwnedOnce(f)
  BY <1>1, <1>2, SameOwned DEF SamePtrs
<1>4. KindsRight(f)
  BY <1>1, <1>2 DEF KindsRight
<1>5. \A i \in DirInodes(e) : SameCells(f, e, i)
  BY <1>2, SameEnts
<1>6. TreeSound(f)
  BY <1>1, <1>4, <1>5, StaySound DEF SameTypes
<1> QED BY <1>3, <1>6 DEF Trees, Owned

\* Counting leaves the tree.
LEMMA CountedTrees ==
  ASSUME NEW e \in Trees, NEW n \in Int, NEW m \in Int
  PROVE  Written(e, Count(n, m)) \in Trees \cap Owned
<1> DEFINE f == Written(e, Count(n, m))
<1>1. e \in DiskType
  BY DEF Trees
<1>2. f \in DiskType /\ f.inode = e.inode /\ f.blk = e.blk /\ f.inodeMap = e.inodeMap
  BY <1>1, CountedSame
<1> HIDE DEF f
<1>3. f \in Trees \cap Owned
  BY <1>2, SameTree
<1> QED BY <1>3 DEF f

\* A directory that was removed is counted off.
LEMMA CountedPutIn ==
  ASSUME NEW d \in DiskType, NEW c, NEW p, NEW k, NEW ents, NEW e \in PutIn(d, c, 0, p, k, ents)
  PROVE  Written(e, Count(-1, -1)) \in PutIn(d, c, 1, p, k, ents) \cap Owned
<1> DEFINE f == Written(e, Count(-1, -1))
<1>0. /\ e \in DiskType /\ BlocksSound(e) /\ e.inode[c] = FreeInode
      /\ e.inodeMap = d.inodeMap \ {c} /\ e.info.inodes = d.info.inodes - 0
      /\ \A i \in InodeNum \ {c} :
           e.inode[i] = d.inode[i] /\ \A l \in Pos : PtrOf(e, i, l) = PtrOf(d, i, l)
      /\ EntsAt(e, p, k) = ents
      /\ \A i \in InodeNum \ {c}, l \in DataPos :
           i # p \/ l # k => EntsAt(e, i, l) = EntsAt(d, i, l)
  BY DEF PutIn
<1>1. /\ f \in DiskType /\ f.inode = e.inode /\ f.blk = e.blk /\ f.blockMap = e.blockMap
      /\ f.inodeMap = e.inodeMap /\ f.info.inodes = e.info.inodes + (-1)
      /\ \A i, l : PtrOf(f, i, l) = PtrOf(e, i, l)
      /\ \A i, l : EntsAt(f, i, l) = EntsAt(e, i, l)
  <2>1. -1 \in Int
    OBVIOUS
  <2> QED BY <1>0, <2>1, CountedSame
<1> HIDE DEF f
<1>2. BlocksSound(f)
  BY <1>0, <1>1, SameData
<1>3. f.info.inodes = d.info.inodes - 1
  <2>1. d.info.inodes \in Int
    BY DiskParts DEF InfoType
  <2> DEFINE x == d.info.inodes
             y == e.info.inodes
             z == f.info.inodes
  <2>2. x \in Int /\ y = x - 0 /\ z = y + (-1)
    BY <1>0, <1>1, <2>1
  <2> HIDE DEF x, y, z
  <2>3. z = x - 1
    BY <2>2
  <2> QED BY <2>3 DEF x, z
<1>4. f \in PutIn(d, c, 1, p, k, ents)
  BY <1>0, <1>1, <1>2, <1>3 DEF PutIn
<1> QED BY <1>1, <1>2, <1>4 DEF f, Owned, BlocksSound

\* A directory is given up and its entry cleared.
LEMMA DirTakenOut ==
  ASSUME NEW d, NEW q, NEW p, NEW place, NEW c, NEW k, NEW j, Removing(d, q, p, place, c, k, j), IsDirIn(d, c)
  PROVE  \E ws \in Seq(Writes) :
           /\ Leads(d, ws, PutIn(d, c, 0, p, k, Final(place)), Owned)
           /\ myRemoveDir(d, p, place) = ws \o ShrinkOf(d, p, place) \o CountOf(d, p, place)
<1> DEFINE us == <<WriteBlock(d.inode[c].direct[1], Zero), PutInode(c, FreeInode),
                   ResetBlockBitmap(0), ResetInodeBitmap(c)>>
           ws == us \o ClearEntry(place)
<1>1. /\ <<k, j>> \in PlainCells(d, p) /\ d \in DiskType /\ c \in InodeNum /\ place.ents[place.idx].ino = c
  <2>1. /\ <<k, j>> \in PlainCells(d, p) /\ EntryAt(d, p, k, j).ino = c /\ d \in DiskType /\ c \in InodeNum
        /\ place.ents = EntsAt(d, p, k) /\ place.idx = j /\ PtrOf(d, p, k) # 0
    BY RemovingIs
  <2>3. EntryAt(d, p, k, j) = EntsAt(d, p, k)[j]
    BY <2>1 DEF EntryAt, EntsAt
  <2> QED BY <2>1, <2>3
<1>2. BlocksSound(d) /\ PtrOf(d, c, 1) # 0
  <2>1. Sound(d)
    BY DEF Removing
  <2>2. c \in DirInodes(d)
    BY <1>1 DEF DirInodes
  <2> QED BY <2>1, <2>2, SoundParts
<1>3. us \in Seq(Writes) /\ Leads(d, us, Unmade(d, c, 0), Owned)
  BY <1>1, <1>2, DirGivenUp
<1>4. myRemoveDir(d, p, place) = ws \o ShrinkOf(d, p, place) \o CountOf(d, p, place)
  <2>1. myRemoveDir(d, p, place) = us \o ClearEntry(place) \o ShrinkOf(d, p, place) \o CountOf(d, p, place)
    BY <1>1, RemoveDirIs
  <2> QED BY <2>1
<1> HIDE DEF us
<1>5. ws \in Seq(Writes) /\ Leads(d, ws, PutIn(d, c, 0, p, k, Final(place)), Owned)
  BY <1>3, GiveUpAndClear
<1> QED BY <1>4, <1>5

\* A directory is removed and no block given back.
LEMMA RemoveDirLeads ==
  ASSUME NEW d, NEW q, NEW p, NEW place, NEW c, NEW k, NEW j, Removing(d, q, p, place, c, k, j), IsDirIn(d, c),
         ~DirShrinks(d, p, place)
  PROVE  Leads(d, myRemoveDir(d, p, place), Gone(d, c), Owned)
<1> DEFINE P == PutIn(d, c, 0, p, k, Final(place))
           R == PutIn(d, c, 1, p, k, Final(place))
           w == Count(-1, -1)
<1>1. ShrinkOf(d, p, place) = <<>>
  <2>1. ~Emptied(place) \/ (d.inode[p].direct[2] # place.blk /\ d.inode[p].indir = 0)
    BY DEF DirShrinks
  <2> QED BY <2>1 DEF ShrinkOf
<1>2. CountOf(d, p, place) = <<w>>
  <2> DEFINE s == ShrinkOf(d, p, place)
  <2>1. DOMAIN s = {}
    BY <1>1
  <2> HIDE DEF s
  <2>2. ~(\E x \in DOMAIN s : s[x].part = "info")
    BY <2>1
  <2> QED BY <2>2 DEF CountOf, s
<1>3. PICK ws \in Seq(Writes) : Leads(d, ws, P, Owned)
                  /\ myRemoveDir(d, p, place) = ws \o ShrinkOf(d, p, place) \o CountOf(d, p, place)
  BY DirTakenOut
<1>4. myRemoveDir(d, p, place) = ws \o <<w>>
  BY <1>1, <1>2, <1>3
<1>5. d \in DiskType
  BY SoundParts DEF Removing
<1>6. \A e \in P : Written(e, w) \in R \cap Owned
  BY <1>5, CountedPutIn
<1>7. \A e \in P : e \in Owned
  BY DEF PutIn, BlocksSound, Owned
<1>8. w \in Writes
  BY WritesAre
<1>9. R \subseteq Gone(d, c)
  BY RemovedSound
<1> HIDE DEF w, P, R
<1>10. \A e \in P : Leads(e, <<w>>, Gone(d, c), Owned)
  BY <1>6, <1>7, <1>9, LeadsOne
<1>11. <<w>> \in Seq(Writes)
  BY <1>8
<1>12. Leads(d, ws \o <<w>>, Gone(d, c), Owned)
  BY <1>3, <1>10, <1>11, LeadsConcat
<1> QED BY <1>4, <1>12

\* The indirect block of inode i written: only pointers of i change.
LEMMA SlotsWritten ==
  ASSUME NEW e \in DiskType, OwnedOnce(e), NEW i \in InodeNum, NEW b, b = PtrOf(e, i, 0), b # 0,
         NEW c \in BlockType, NEW ptrs, ptrs = Ptrs(c)
  PROVE  LET f == Written(e, WriteBlock(b, c))
         IN  /\ f \in DiskType /\ f.inode = e.inode /\ f.inodeMap = e.inodeMap /\ b \in Block
             /\ \A x \in Block : f.blk[x] = IF x = b THEN c ELSE e.blk[x]
             /\ \A j \in InodeNum \ {i}, l \in Pos : PtrOf(f, j, l) = PtrOf(e, j, l)
             /\ \A l \in 0 .. 2 : PtrOf(f, i, l) = PtrOf(e, i, l)
             /\ \A s \in Slot : PtrOf(f, i, s + 2) = ptrs[s]
<1> DEFINE f == Written(e, WriteBlock(b, c))
<1>2. b \in Block /\ b \in Pointer
  BY PtrTyped, PosIs DEF Pointer
<1>3. /\ f \in DiskType /\ SameBut(f, e, "blk")
      /\ \A x \in Block : f.blk[x] = IF x = b THEN c ELSE e.blk[x]
  BY <1>2, BlockWritten
<1> HIDE DEF f
<1>4. f.inode = e.inode /\ f.inodeMap = e.inodeMap
  BY <1>3 DEF SameBut
<1>5. ASSUME NEW j \in InodeNum \ {i}, NEW l \in Pos PROVE PtrOf(f, j, l) = PtrOf(e, j, l)
  <2>1. PtrOf(e, j, 0) \in Pointer
    BY PtrTyped, PosIs
  <2>2. PtrOf(e, j, 0) # 0 => PtrOf(e, j, 0) # b
    BY <1>5, PosIs DEF OwnedOnce
  <2>3. PtrOf(e, j, 0) # 0 => f.blk[PtrOf(e, j, 0)] = e.blk[PtrOf(e, j, 0)]
    BY <1>3, <2>1, <2>2 DEF Pointer
  <2> QED BY <1>4, <2>3, PtrsReadFrom
<1>6. IndirectPtrs(f, f.inode[i]) = ptrs
  <2>1. f.inode[i].indir = b
    BY <1>4, PtrByPos
  <2>2. f.blk[b] = c
    BY <1>2, <1>3
  <2> QED BY <2>1, <2>2 DEF IndirectPtrs
<1>7. \A s \in Slot : PtrOf(f, i, s + 2) = ptrs[s]
  BY <1>6, PtrByPos
<1>8. \A l \in 0 .. 2 : PtrOf(f, i, l) = PtrOf(e, i, l)
  <2> TAKE l \in 0 .. 2
  <2>1. l = 0 \/ l = 1 \/ l = 2
    OBVIOUS
  <2> QED BY <1>4, <2>1, PtrByPos
<1> QED BY <1>2, <1>3, <1>4, <1>5, <1>7, <1>8 DEF f

\* The pointer at m is moved to k, behind which there were no entries.
LEMMA PointerMoved ==
  ASSUME NEW g \in DiskType, OwnedOnce(g), TreeSound(g), NEW p \in DirInodes(g), NEW k \in DataPos, NEW m \in DataPos,
         k # m, k > 2, m > 2, NEW b, b = PtrOf(g, p, 0), b # 0, NEW ptrs \in [Slot -> Pointer],
         \A s \in Slot : ptrs[s] = IF s + 2 = k THEN PtrOf(g, p, m) ELSE IF s + 2 = m THEN 0 ELSE PtrOf(g, p, s + 2)
  PROVE  LET f == Written(g, WriteBlock(b, PtrBlock(ptrs)))
         IN  /\ f \in DiskType /\ f.inode = g.inode /\ f.inodeMap = g.inodeMap
             /\ \A j \in InodeNum \ {p}, l \in Pos : PtrOf(f, j, l) = PtrOf(g, j, l)
             /\ \A l \in Pos : PtrOf(f, p, l) = IF l = k THEN PtrOf(g, p, m)
                                                ELSE IF l = m THEN 0 ELSE PtrOf(g, p, l)
             /\ \A x \in Block : x # b => f.blk[x] = g.blk[x]
             /\ b \in Block /\ f.blk[b].kind = "ptr"
<1> DEFINE c == PtrBlock(ptrs)
           f == Written(g, WriteBlock(b, c))
<1>0. p \in InodeNum
  BY DEF DirInodes
<1>1. c \in BlockType /\ Ptrs(c) = ptrs /\ c.kind = "ptr"
  BY BlocksAre DEF Ptrs, PtrBlock
<1> HIDE DEF c
<1>2. /\ f \in DiskType /\ f.inode = g.inode /\ f.inodeMap = g.inodeMap /\ b \in Block
      /\ \A x \in Block : f.blk[x] = IF x = b THEN c ELSE g.blk[x]
      /\ \A j \in InodeNum \ {p}, l \in Pos : PtrOf(f, j, l) = PtrOf(g, j, l)
      /\ \A l \in 0 .. 2 : PtrOf(f, p, l) = PtrOf(g, p, l)
      /\ \A s \in Slot : PtrOf(f, p, s + 2) = ptrs[s]
  BY <1>0, <1>1, SlotsWritten
<1> HIDE DEF f
<1>3. ASSUME NEW l \in Pos
      PROVE  PtrOf(f, p, l) = IF l = k THEN PtrOf(g, p, m) ELSE IF l = m THEN 0 ELSE PtrOf(g, p, l)
  <2>1. k \in Nat /\ m \in Nat /\ l \in Nat
    BY PosIs
  <2>2. CASE l \in 0 .. 2
    <3>1. l # k /\ l # m
      BY <2>1, <2>2
    <3> QED BY <1>2, <2>2, <3>1
  <2>3. CASE l \notin 0 .. 2
    <3>1. l \in DataPos /\ l # 1 /\ l # 2
      BY <2>1, <2>3 DEF DataPos
    <3>2. l - 2 \in Slot
      BY <3>1, PosIs
    <3> DEFINE s == l - 2
    <3>3. s \in Slot /\ s + 2 = l
      BY <2>1, <3>2
    <3> HIDE DEF s
    <3> QED BY <1>2, <3>3
  <2> QED BY <2>2, <2>3
<1>4. f.blk[b].kind = "ptr"
  BY <1>1, <1>2
<1> QED BY <1>2, <1>3, <1>4 DEF f, c

\* f is g but that the pointer of directory p at m, to b's blocks, is at k.
MovedTo(f, g, p, k, m, b) ==
  /\ f \in DiskType /\ f.inode = g.inode /\ f.inodeMap = g.inodeMap
  /\ \A j \in InodeNum \ {p}, l \in Pos : PtrOf(f, j, l) = PtrOf(g, j, l)
  /\ \A l \in Pos : PtrOf(f, p, l) = IF l = k THEN PtrOf(g, p, m)
                                     ELSE IF l = m THEN 0 ELSE PtrOf(g, p, l)
  /\ \A x \in Block : x # b => f.blk[x] = g.blk[x]
  /\ b \in Block /\ f.blk[b].kind = "ptr"

\* Where each pointer was.
LEMMA MovedFrom ==
  ASSUME NEW f, NEW g, NEW p \in InodeNum, NEW k \in DataPos, NEW m \in DataPos, k # m, NEW b, MovedTo(f, g, p, k, m, b),
         NEW j \in InodeNum, NEW l \in Pos, PtrOf(f, j, l) # 0
  PROVE  \E y \in Pos : /\ PtrOf(f, j, l) = PtrOf(g, j, y)
                        /\ y = IF j = p /\ l = k THEN m ELSE l
                        /\ ~(j = p /\ l = m)
<1>1. k \in Pos /\ m \in Pos
  BY PosIs
<1>2. CASE j # p
  <2>1. PtrOf(f, j, l) = PtrOf(g, j, l)
    BY <1>2 DEF MovedTo
  <2> QED BY <1>2, <2>1
<1>3. CASE j = p
  <2>1. PtrOf(f, p, l) = IF l = k THEN PtrOf(g, p, m) ELSE IF l = m THEN 0 ELSE PtrOf(g, p, l)
    BY DEF MovedTo
  <2>2. CASE l = k
    BY <1>1, <1>3, <2>1, <2>2
  <2>3. CASE l # k
    BY <1>3, <2>1, <2>3
  <2> QED BY <2>2, <2>3
<1> QED BY <1>2, <1>3

\* Moving a pointer into another slot keeps blocks owned once.
LEMMA MovedOwned ==
  ASSUME NEW f, NEW g, OwnedOnce(g), NEW p \in InodeNum, NEW k \in DataPos, NEW m \in DataPos, k # m,
         NEW b, MovedTo(f, g, p, k, m, b)
  PROVE  OwnedOnce(f)
<1> SUFFICES ASSUME NEW i \in InodeNum, NEW j \in InodeNum, NEW v \in Pos, NEW w \in Pos,
                    PtrOf(f, i, v) = PtrOf(f, j, w), PtrOf(f, i, v) # 0
             PROVE  i = j /\ v = w
  BY DEF OwnedOnce
<1>1. PICK x \in Pos : /\ PtrOf(f, i, v) = PtrOf(g, i, x)
                       /\ x = IF i = p /\ v = k THEN m ELSE v
                       /\ ~(i = p /\ v = m)
  BY MovedFrom
<1>2. PtrOf(f, j, w) # 0
  OBVIOUS
<1>3. PICK y \in Pos : /\ PtrOf(f, j, w) = PtrOf(g, j, y)
                       /\ y = IF j = p /\ w = k THEN m ELSE w
                       /\ ~(j = p /\ w = m)
  BY <1>2, MovedFrom
<1>4. i = j /\ x = y
  <2>1. PtrOf(g, i, x) = PtrOf(g, j, y) /\ PtrOf(g, i, x) # 0
    BY <1>1, <1>3
  <2> QED BY ONLY <2>1, OwnedOnce(g), i \in InodeNum, j \in InodeNum, x \in Pos, y \in Pos DEF OwnedOnce
<1>5. v = w
  BY <1>1, <1>3, <1>4
<1> QED BY <1>4, <1>5

\* The blocks hold what they did.
LEMMA MovedKinds ==
  ASSUME NEW f, NEW g \in DiskType, OwnedOnce(g), KindsRight(g), NEW p \in InodeNum, NEW k \in DataPos, NEW m \in DataPos, k # m,
         k > 2, m > 2, NEW b, b = PtrOf(g, p, 0), MovedTo(f, g, p, k, m, b)
  PROVE  KindsRight(f)
<1> SUFFICES ASSUME NEW j \in InodeNum, NEW l \in Pos, PtrOf(f, j, l) # 0
             PROVE  f.blk[PtrOf(f, j, l)].kind \in {"zero", KindOf(f.inode[j], l)}
  BY DEF KindsRight
<1>0. b \in Block /\ b # 0 /\ 0 \in Pos /\ k # 0 /\ m # 0
  BY BlocksArePositive, PosIs DEF MovedTo, DataPos
<1>1. PICK y \in Pos : /\ PtrOf(f, j, l) = PtrOf(g, j, y)
                       /\ y = IF j = p /\ l = k THEN m ELSE l
                       /\ ~(j = p /\ l = m)
  BY MovedFrom
<1>2. y = 0 <=> l = 0
  BY <1>0, <1>1
<1>3. KindOf(g.inode[j], y) = KindOf(f.inode[j], l)
  <2>1. f.inode = g.inode
    BY DEF MovedTo
  <2> QED BY <1>2, <2>1 DEF KindOf
<1>4. PtrOf(g, j, y) \in Block /\ g.blk[PtrOf(g, j, y)].kind \in {"zero", KindOf(g.inode[j], y)}
  BY <1>1, PtrTyped DEF KindsRight, Pointer
<1>5. CASE PtrOf(g, j, y) # b
  <2>1. f.blk[PtrOf(g, j, y)] = g.blk[PtrOf(g, j, y)]
    BY <1>4, <1>5 DEF MovedTo
  <2> QED BY <1>1, <1>3, <1>4, <2>1
<1>6. CASE PtrOf(g, j, y) = b
  <2>1. j = p /\ y = 0
    BY <1>0, <1>6 DEF OwnedOnce
  <2>2. l = 0 /\ PtrOf(f, j, l) = b
    BY <1>1, <1>2, <1>6, <2>1
  <2>3. KindOf(f.inode[j], l) = "ptr"
    BY <2>2 DEF KindOf
  <2>4. f.blk[b].kind = "ptr"
    BY DEF MovedTo
  <2> QED BY <2>2, <2>3, <2>4
<1> QED BY <1>5, <1>6

\* A block behind a moved pointer holds the same entries.
LEMMA MovedBlock ==
  ASSUME NEW f, NEW g \in DiskType, OwnedOnce(g), NEW p \in InodeNum, NEW k, NEW m,
         NEW b, b = PtrOf(g, p, 0), MovedTo(f, g, p, k, m, b),
         NEW i \in InodeNum, NEW v \in DataPos, NEW j \in InodeNum, NEW l \in DataPos, PtrOf(f, j, l) = PtrOf(g, i, v)
  PROVE  EntsAt(f, j, l) = EntsAt(g, i, v)
<1>0. b \in Block /\ b # 0 /\ 0 \in Pos /\ DataPos \subseteq Pos /\ 0 \notin DataPos
  BY BlocksArePositive, PosIs DEF MovedTo, DataPos
<1>1. CASE PtrOf(g, i, v) = 0
  BY <1>1 DEF EntsAt
<1>2. CASE PtrOf(g, i, v) # 0
  <2>1. PtrOf(g, i, v) \in Block
    BY <1>0, <1>2, PtrTyped DEF Pointer
  <2>2. PtrOf(g, i, v) # b
    BY <1>0, <1>2 DEF OwnedOnce
  <2>3. f.blk[PtrOf(g, i, v)] = g.blk[PtrOf(g, i, v)]
    BY <2>1, <2>2 DEF MovedTo
  <2> QED BY <1>2, <2>3 DEF EntsAt
<1> QED BY <1>1, <1>2

\* Other directories read the same.
LEMMA MovedOthers ==
  ASSUME NEW f, NEW g \in DiskType, OwnedOnce(g), NEW p \in InodeNum, NEW k, NEW m,
         NEW b, b = PtrOf(g, p, 0), MovedTo(f, g, p, k, m, b), NEW j \in InodeNum \ {p}, NEW l \in DataPos
  PROVE  EntsAt(f, j, l) = EntsAt(g, j, l)
<1>1. PtrOf(f, j, l) = PtrOf(g, j, l)
  BY PosIs DEF MovedTo
<1> QED BY <1>1, MovedBlock

\* The directory reads the same entries from another position.
LEMMA MovedEnts ==
  ASSUME NEW f, NEW g \in DiskType, OwnedOnce(g), NEW p \in InodeNum, NEW k \in DataPos, NEW m \in DataPos, k # m,
         NEW b, b = PtrOf(g, p, 0), MovedTo(f, g, p, k, m, b)
  PROVE  \A l \in DataPos : EntsAt(f, p, l) = IF l = k THEN EntsAt(g, p, m)
                                              ELSE IF l = m THEN NoEntries ELSE EntsAt(g, p, l)
<1>0. b \in Block /\ b # 0 /\ 0 \in Pos /\ DataPos \subseteq Pos /\ 0 \notin DataPos
  BY BlocksArePositive, PosIs DEF MovedTo, DataPos
<1>1. ASSUME NEW v \in DataPos, NEW l \in DataPos, PtrOf(f, p, l) = PtrOf(g, p, v)
      PROVE  EntsAt(f, p, l) = EntsAt(g, p, v)
  BY <1>1, MovedBlock
<1>2. ASSUME NEW l \in DataPos
      PROVE  EntsAt(f, p, l) = IF l = k THEN EntsAt(g, p, m) ELSE IF l = m THEN NoEntries ELSE EntsAt(g, p, l)
  <2>1. PtrOf(f, p, l) = IF l = k THEN PtrOf(g, p, m) ELSE IF l = m THEN 0 ELSE PtrOf(g, p, l)
    BY <1>0 DEF MovedTo
  <2>2. CASE l = k
    <3>1. EntsAt(f, p, l) = EntsAt(g, p, m)
      BY <1>1, <2>1, <2>2
    <3> QED BY <2>2, <3>1
  <2>3. CASE l # k /\ l = m
    <3>1. PtrOf(f, p, l) = 0
      BY <2>1, <2>3
    <3>2. EntsAt(f, p, l) = NoEntries
      BY <3>1 DEF EntsAt
    <3> QED BY <2>3, <3>2
  <2>4. CASE l # k /\ l # m
    <3>1. EntsAt(f, p, l) = EntsAt(g, p, l)
      BY <1>1, <2>1, <2>4
    <3> QED BY <2>4, <3>1
  <2> QED BY <2>2, <2>3, <2>4
<1> QED BY <1>2

\* Where the entry at x of the directory was.
Swapped(x, k, m) == IF x[1] = k THEN <<m, x[2]>> ELSE x
\* Where an entry is after the move.
LEMMA SwappedIs ==
  ASSUME NEW k \in DataPos, NEW m \in DataPos, NEW x \in DataPos \X Entry
  PROVE  /\ Swapped(x, k, m) \in DataPos \X Entry
         /\ Swapped(x, k, m)[1] = (IF x[1] = k THEN m ELSE x[1]) /\ Swapped(x, k, m)[2] = x[2]
<1>1. x[1] \in DataPos /\ x[2] \in Entry
  BY PairIs
<1>2. CASE x[1] = k
  BY <1>1, <1>2 DEF Swapped
<1>3. CASE x[1] # k
  BY <1>1, <1>3 DEF Swapped
<1> QED BY <1>2, <1>3

\* Different entries are at different places after it.
LEMMA SwappedOnce ==
  ASSUME NEW k \in DataPos, NEW m \in DataPos, NEW x \in DataPos \X Entry, NEW z \in DataPos \X Entry,
         Swapped(x, k, m) = Swapped(z, k, m), x[1] # m, z[1] # m
  PROVE  x = z
<1> DEFINE y == Swapped(x, k, m)
           w == Swapped(z, k, m)
<1>1. /\ y[1] = (IF x[1] = k THEN m ELSE x[1]) /\ y[2] = x[2]
      /\ w[1] = (IF z[1] = k THEN m ELSE z[1]) /\ w[2] = z[2]
  BY SwappedIs
<1>2. y = w
  OBVIOUS
<1> HIDE DEF y, w
<1>3. x[2] = z[2] /\ x[1] = z[1]
  BY <1>1, <1>2
<1>4. x = <<x[1], x[2]>> /\ z = <<z[1], z[2]>>
  BY PairIs
<1> QED BY <1>3, <1>4

\* No entry is lost by it.
LEMMA SwappedAll ==
  ASSUME NEW k \in DataPos, NEW m \in DataPos, k # m, NEW z \in DataPos \X Entry, z[1] # k
  PROVE  \E x \in DataPos \X Entry : x[1] # m /\ Swapped(x, k, m) = z
<1>1. z = <<z[1], z[2]>> /\ z[1] \in DataPos /\ z[2] \in Entry
  BY PairIs
<1>2. CASE z[1] = m
  <2> DEFINE y == z[2]
             x == <<k, y>>
  <2>1. x \in DataPos \X Entry /\ x[1] = k /\ x[2] = y
    BY <1>1
  <2>2. Swapped(x, k, m) = <<m, y>>
    BY <2>1 DEF Swapped
  <2>3. Swapped(x, k, m) = z
    BY <1>1, <1>2, <2>2
  <2> HIDE DEF x
  <2>4. x[1] # m
    BY <2>1
  <2> QED BY <2>1, <2>3, <2>4
<1>3. CASE z[1] # m
  <2>1. Swapped(z, k, m) = z
    BY DEF Swapped
  <2> QED BY <1>3, <2>1
<1> QED BY <1>2, <1>3

\* The directory has the entries it had, some in other places.
LEMMA MovedCells ==
  ASSUME NEW f, NEW g \in DiskType, OwnedOnce(g), TreeSound(g), NEW p \in DirInodes(g),
         NEW k \in DataPos, NEW m \in DataPos, k # m, k > 2, m > 2,
         NEW b, b = PtrOf(g, p, 0), MovedTo(f, g, p, k, m, b), NoNames(g, p, k),
         NEW c, \A x \in PlainCells(g, p) : EntryAt(g, p, x[1], x[2]).ino # c
  PROVE  \E F : OneLess(f, g, p, F, c)
<1>0. p \in InodeNum /\ k # 1 /\ m # 1
  <2>1. p \in InodeNum
    BY DEF DirInodes
  <2>2. k # 1 /\ m # 1
    BY ONLY k > 2, m > 2, k \in DataPos, m \in DataPos, PosIs
  <2> QED BY <2>1, <2>2
<1>4. \A l \in DataPos : EntsAt(f, p, l) = IF l = k THEN EntsAt(g, p, m)
                                             ELSE IF l = m THEN NoEntries ELSE EntsAt(g, p, l)
  BY ONLY <1>0, g \in DiskType, OwnedOnce(g), k \in DataPos, m \in DataPos, k # m,
          b = PtrOf(g, p, 0), MovedTo(f, g, p, k, m, b), MovedEnts
<1> DEFINE M(x) == Swapped(x, k, m)
<1>1. /\ \A x \in DataPos \X Entry : M(x) \in DataPos \X Entry /\ M(x)[1] = (IF x[1] = k THEN m ELSE x[1]) /\ M(x)[2] = x[2]
      /\ \A x \in DataPos \X Entry : x[1] \in DataPos /\ x[2] \in Entry
  <2>1. \A x \in DataPos \X Entry : M(x) \in DataPos \X Entry /\ M(x)[1] = (IF x[1] = k THEN m ELSE x[1]) /\ M(x)[2] = x[2]
    BY ONLY k \in DataPos, m \in DataPos, SwappedIs
  <2>2. \A x \in DataPos \X Entry : x[1] \in DataPos /\ x[2] \in Entry
    BY ONLY PairIs
  <2> QED BY <2>1, <2>2
<1>2. \A x, z \in DataPos \X Entry : M(x) = M(z) /\ x[1] # m /\ z[1] # m => x = z
  BY SwappedOnce
<1>3. \A z \in DataPos \X Entry : z[1] # k => \E x \in DataPos \X Entry : x[1] # m /\ M(x) = z
  BY SwappedAll
<1>5. \A x : x \in Cells(f, p) <=> x \in DataPos \X Entry /\ EntsAt(f, p, x[1])[x[2]].name # ""
  BY CellsAre
<1>6. \A x : x \in Cells(g, p) <=> x \in DataPos \X Entry /\ EntsAt(g, p, x[1])[x[2]].name # ""
  BY CellsAre
<1>7. ASSUME NEW x \in DataPos \X Entry, x[1] # m
      PROVE  EntsAt(f, p, x[1])[x[2]] = EntsAt(g, p, M(x)[1])[M(x)[2]]
  <2>1. CASE x[1] = k
    BY <1>1, <1>4, <2>1
  <2>2. CASE x[1] # k
    BY <1>1, <1>4, <1>7, <2>2
  <2> QED BY <2>1, <2>2
<1>8. ASSUME NEW x \in Cells(f, p) PROVE x \in DataPos \X Entry /\ x[1] # m
  <2>1. x \in DataPos \X Entry /\ EntsAt(f, p, x[1])[x[2]].name # "" /\ x[2] \in Entry
    BY <1>5, PairIs
  <2>2. CASE x[1] = m
    <3>1. EntsAt(f, p, x[1]) = NoEntries
      BY <1>4, <2>2
    <3>2. NoEntries[x[2]].name = ""
      BY <2>1 DEF NoEntries, NoEntry
    <3> QED BY <2>1, <3>1, <3>2
  <2> QED BY <2>1, <2>2
<1>9. ASSUME NEW z \in Cells(g, p) PROVE z \in DataPos \X Entry /\ z[1] # k
  <2>1. z \in DataPos \X Entry /\ EntsAt(g, p, z[1])[z[2]].name # "" /\ z[2] \in Entry
    BY <1>6, PairIs
  <2> QED BY <2>1 DEF NoNames
<1>10. ASSUME NEW x \in Cells(f, p)
       PROVE  M(x) \in Cells(g, p) /\ EntryAt(f, p, x[1], x[2]) = EntryAt(g, p, M(x)[1], M(x)[2])
  <2>1. x \in DataPos \X Entry /\ x[1] # m /\ M(x) \in DataPos \X Entry
    BY <1>1, <1>8
  <2>2. EntsAt(f, p, x[1])[x[2]] = EntsAt(g, p, M(x)[1])[M(x)[2]]
    BY <1>7, <2>1
  <2>3. EntsAt(f, p, x[1])[x[2]].name # ""
    BY <1>5
  <2>4. M(x) \in Cells(g, p)
    BY <1>6, <2>1, <2>2, <2>3
  <2>5. EntryAt(f, p, x[1], x[2]) = EntsAt(f, p, x[1])[x[2]]
    BY CellsAre
  <2>6. EntryAt(g, p, M(x)[1], M(x)[2]) = EntsAt(g, p, M(x)[1])[M(x)[2]]
    BY <2>4, CellsAre
  <2> QED BY <2>2, <2>4, <2>5, <2>6
<1>11. ASSUME NEW z \in Cells(g, p) PROVE \E x \in Cells(f, p) : M(x) = z
  <2>1. PICK x \in DataPos \X Entry : x[1] # m /\ M(x) = z
    BY <1>3, <1>9
  <2>2. EntsAt(f, p, x[1])[x[2]] = EntsAt(g, p, z[1])[z[2]]
    BY <1>7, <2>1
  <2>3. EntsAt(g, p, z[1])[z[2]].name # ""
    BY <1>6
  <2>4. x \in Cells(f, p)
    BY <1>5, <2>2, <2>3
  <2> QED BY <2>1, <2>4
<1> DEFINE F == [x \in Cells(f, p) |-> M(x)]
<1>12. F \in [Cells(f, p) -> Cells(g, p)]
       /\ \A x \in Cells(f, p) : F[x] = M(x)
  BY <1>10
<1> HIDE DEF F
<1>13. \A x \in Cells(f, p) : EntryAt(f, p, x[1], x[2]) = EntryAt(g, p, F[x][1], F[x][2])
  BY <1>10, <1>12
<1>14. \A x, z \in Cells(f, p) : F[x] = F[z] => x = z
  <2> TAKE x, z \in Cells(f, p)
  <2>1. x \in DataPos \X Entry /\ x[1] # m /\ z \in DataPos \X Entry /\ z[1] # m
    BY <1>8
  <2>2. F[x] = M(x) /\ F[z] = M(z)
    BY <1>12
  <2> QED BY <1>2, <2>1, <2>2
<1>15. \A x \in PlainCells(f, p) : EntryAt(f, p, x[1], x[2]).ino # c
  <2> TAKE x \in PlainCells(f, p)
  <2>1. x \in Cells(f, p) /\ Plain(EntryAt(f, p, x[1], x[2]).name)
    BY DEF PlainCells
  <2> DEFINE y == M(x)
  <2>2. y \in Cells(g, p) /\ EntryAt(f, p, x[1], x[2]) = EntryAt(g, p, y[1], y[2])
    BY <1>10, <2>1
  <2> HIDE DEF y
  <2>3. y \in PlainCells(g, p)
    BY <2>1, <2>2 DEF PlainCells
  <2> QED BY <2>2, <2>3
<1>16. \A z \in PlainCells(g, p) : EntryAt(g, p, z[1], z[2]).ino # c => \E x \in Cells(f, p) : F[x] = z
  <2> TAKE z \in PlainCells(g, p)
  <2>1. z \in Cells(g, p)
    BY DEF PlainCells
  <2> QED BY <1>11, <1>12, <2>1
<1>17. PtrOf(f, p, 1) = PtrOf(g, p, 1) /\ PtrOf(g, p, 1) # 0 /\ EntsAt(f, p, 1) = EntsAt(g, p, 1)
  <2>1. 1 \in Pos /\ 1 \in DataPos
    BY PosIs
  <2>2. DotRight(g, p)
    BY SoundDir
  <2> QED BY <1>0, <1>4, <2>1, <2>2 DEF MovedTo, DotRight
<1>18. \A j \in 1 .. 2 : EntryAt(f, p, 1, j) = EntryAt(g, p, 1, j)
  BY <1>17 DEF EntryAt, EntsAt
<1>19. OneLess(f, g, p, F, c)
  BY <1>12, <1>13, <1>14, <1>15, <1>16, <1>17, <1>18 DEF OneLess
<1> QED BY <1>19

\* A directory that moves its last pointer into the slot of an empty block is
\* still one of a tree.
LEMMA MovedTree ==
  ASSUME NEW f, NEW g \in DiskType, OwnedOnce(g), TreeSound(g), NEW p \in DirInodes(g),
         NEW k \in DataPos, NEW m \in DataPos, k # m, k > 2, m > 2,
         NEW b, b = PtrOf(g, p, 0), MovedTo(f, g, p, k, m, b), NoNames(g, p, k),
         NEW c \in InodeNum, c # 0, c \notin g.inodeMap, c \notin DirInodes(g),
         \A i \in DirInodes(g) : \A x \in PlainCells(g, i) : EntryAt(g, i, x[1], x[2]).ino # c
  PROVE  f \in Trees \cap Owned
<1>0. p \in InodeNum /\ c # p
  BY DEF DirInodes
<1>1. f \in DiskType /\ f.inode = g.inode /\ f.inodeMap = g.inodeMap
  BY DEF MovedTo
<1>2. OwnedOnce(f)
  BY <1>0, MovedOwned
<1>3. KindsRight(g)
  BY DEF TreeSound
<1>4. KindsRight(f)
  BY <1>0, <1>3, MovedKinds
<1>5. DirInodes(f) = DirInodes(g)
  BY <1>1 DEF DirInodes, IsDirIn
<1>6. ASSUME NEW i \in DirInodes(g) \ {p} PROVE SameCells(f, g, i)
  <2>1. i \in InodeNum \ {p}
    BY DEF DirInodes
  <2>2. \A l \in DataPos : EntsAt(f, i, l) = EntsAt(g, i, l)
    BY ONLY <1>0, <2>1, g \in DiskType, OwnedOnce(g), k \in DataPos, m \in DataPos, k # m,
            b = PtrOf(g, p, 0), MovedTo(f, g, p, k, m, b), MovedOthers
  <2> QED BY <2>2, SameEnts
<1>7. PICK F : OneLess(f, g, p, F, c)
  BY MovedCells
<1>8. DirInodes(f) = DirInodes(g) \ {c} /\ f.inodeMap = g.inodeMap \ {c}
  BY <1>1, <1>5
<1>9. /\ \A i \in DirInodes(f) \ {p} : SameCells(f, g, i)
      /\ \A i \in DirInodes(f) \ {p} : \A x \in PlainCells(g, i) : EntryAt(g, i, x[1], x[2]).ino # c
  BY <1>5, <1>6
<1>10. TreeSound(f)
  BY <1>0, <1>1, <1>4, <1>7, <1>8, <1>9, LessSound
<1> QED BY <1>1, <1>2, <1>10 DEF Trees, Owned

\* The writes by which an indirect block changes when its pointer s is dropped:
\* another pointer is moved to s, or it was the last one, or nothing is written.
ShrinkMoves(n, ptrs, s, two) ==
  \E from \in Slot, moved \in [Slot -> Pointer] :
    /\ from # s
    /\ \A i \in Slot : moved[i] = IF i = s THEN ptrs[from] ELSE IF i = from THEN 0 ELSE ptrs[i]
    /\ two = <<WriteBlock(n.indir, PtrBlock(moved))>>
\* Giving back the indirect block itself.
ShrinkDrops(n) == <<ResetBlockBitmap(n.indir), Count(-1, 0), WriteBlock(n.indir, Zero)>>

\* What giving back a block behind the indirect one writes: the block
\* alone, the last pointer moved into its slot, or the indirect block given
\* back too.
LEMMA ShrinkIs ==
  ASSUME NEW d \in DiskType, NEW n \in InodeType, NEW b \in Block, NEW ptrs, ptrs = IndirectPtrs(d, n),
         NEW s \in Slot, \A i \in Slot : ptrs[i] = b <=> i = s
  PROVE  \/ ShrinkIndirect(d, n, b) = Free(b)
         \/ \E two : ShrinkMoves(n, ptrs, s, two) /\ ShrinkIndirect(d, n, b) = Free(b) \o two
         \/ /\ \A i \in Slot : i # s => ptrs[i] = 0
            /\ ShrinkIndirect(d, n, b) = Free(b) \o ShrinkDrops(n)
<1> DEFINE hit == {i \in Slot : ptrs[i] = b}
           to == IF hit = {} THEN 1 ELSE Least(hit)
           rest == [i \in Slot |-> IF i \in hit THEN 0 ELSE ptrs[i]]
           movable == {i \in Slot : rest[i] # 0 /\ i > (IF i < to THEN 1 ELSE to)}
           from == CHOOSE i \in movable : \A k \in movable : k <= i
           moved == [i \in Slot |-> IF i = to THEN rest[from] ELSE IF i = from THEN 0 ELSE rest[i]]
           one == IF hit = {} THEN <<>> ELSE Free(b)
           two == IF movable = {} THEN <<>> ELSE <<WriteBlock(n.indir, PtrBlock(moved))>>
           three == IF rest # NoPtrs THEN <<>>
                    ELSE <<ResetBlockBitmap(n.indir), Count(-1, 0), WriteBlock(n.indir, Zero)>>
<1>1. ShrinkIndirect(d, n, b) = one \o two \o three
  BY DEF ShrinkIndirect
<1>2. n.indir \in Pointer /\ ptrs \in [Slot -> Pointer]
  BY IndirectTyped DEF InodeType
<1>3. hit = {s}
  OBVIOUS
<1>4. to = s
  <2>1. Least({s}) = s
    <3>1. s \in Nat
      BY SlotsAre
    <3> QED BY <3>1 DEF Least
  <2> HIDE DEF hit
  <2>2. hit # {}
    BY <1>3
  <2> QED BY <1>3, <2>1, <2>2
<1>5. one = Free(b)
  <2> HIDE DEF hit, Free
  <2>2. hit # {}
    BY <1>3
  <2> QED BY <2>2
<1>6. rest \in [Slot -> Pointer] /\ \A i \in Slot : rest[i] = IF i = s THEN 0 ELSE ptrs[i]
  <2> HIDE DEF hit
  <2>1. 0 \in Pointer
    BY DEF Pointer
  <2> QED BY <1>2, <1>3, <2>1
<1>7. Free(b) \in Seq(Writes)
  BY FreeTyped
<1> HIDE DEF hit, to, rest, one
<1>8. CASE movable = {}
  <2>1. two = <<>>
    BY <1>8
  <2>2. CASE rest # NoPtrs
    <3>1. three = <<>>
      BY <2>2
    <3> HIDE DEF two, three
    <3>2. one \o two \o three = Free(b)
      BY <1>5, <1>7, <2>1, <3>1
    <3> QED BY <1>1, <3>2
  <2>3. CASE rest = NoPtrs
    <3>1. three = ShrinkDrops(n)
      BY <2>3 DEF ShrinkDrops
    <3>2. \A i \in Slot : i # s => ptrs[i] = 0
      <4>1. \A i \in Slot : rest[i] = 0
        BY <2>3 DEF NoPtrs
      <4> QED BY <1>6, <4>1
    <3> HIDE DEF two, three
    <3>3. one \o two \o three = Free(b) \o ShrinkDrops(n)
      <4> DEFINE f == Free(b)
      <4>1. f \in Seq(Writes)
        BY <1>7
      <4> HIDE DEF f
      <4>2. f \o <<>> = f
        BY <4>1
      <4>3. one = f
        BY <1>5 DEF f
      <4> QED BY <2>1, <3>1, <4>2, <4>3 DEF f
    <3> QED BY <1>1, <3>2, <3>3
  <2> QED BY <2>2, <2>3
<1>9. CASE movable # {}
  <2>1. movable \subseteq 1 .. PtrsPerBlock /\ PtrsPerBlock \in Nat
    BY GeometryAssumption DEF Slot
  <2>3. from \in movable
    <3> HIDE DEF movable
    <3>1. \E x \in movable : \A y \in movable : y <= x
      BY <1>9, <2>1, GreatestIs
    <3> QED BY <3>1
  <2>4. from \in Slot /\ rest[from] # 0
    <3> HIDE DEF from
    <3> QED BY <2>3
  <2> HIDE DEF movable, from
  <2>5. from # s /\ rest[from] = ptrs[from]
    BY <1>6, <2>4
  <2>6. /\ moved \in [Slot -> Pointer]
        /\ \A i \in Slot : moved[i] = IF i = s THEN ptrs[from] ELSE IF i = from THEN 0 ELSE ptrs[i]
    <3>1. 0 \in Pointer
      BY DEF Pointer
    <3> QED BY <1>4, <1>6, <2>4, <2>5, <3>1
  <2> HIDE DEF moved
  <2>7. two = <<WriteBlock(n.indir, PtrBlock(moved))>>
    BY <1>9
  <2>8. three = <<>>
    <3>1. rest # NoPtrs
      BY <2>4 DEF NoPtrs
    <3> QED BY <3>1
  <2>9. ShrinkMoves(n, ptrs, s, two)
    BY <2>4, <2>5, <2>6, <2>7 DEF ShrinkMoves
  <2>10. two \in Seq(Writes)
    <3> DEFINE w == WriteBlock(n.indir, PtrBlock(moved))
    <3>1. w \in Writes
      BY <1>2, <2>6, WritesAre, BlocksAre
    <3> HIDE DEF w
    <3>2. <<w>> \in Seq(Writes)
      BY <3>1
    <3> QED BY <2>7, <3>2 DEF w
  <2> HIDE DEF two, three
  <2>11. one \o two \o three = Free(b) \o two
    <3> DEFINE f == Free(b)
    <3>1. f \in Seq(Writes) /\ one = f
      BY <1>5, <1>7
    <3> HIDE DEF f
    <3>2. f \o two \in Seq(Writes)
      BY <2>10, <3>1
    <3>3. (f \o two) \o <<>> = f \o two
      BY <3>2
    <3> QED BY <2>8, <3>1, <3>3 DEF f
  <2> QED BY <1>1, <2>9, <2>11
<1> QED BY <1>8, <1>9

\* The indirect block of directory p, with a pointer to a block without entries
\* at most, is given back: the inode still leads to it.
LEMMA IndirDropped ==
  ASSUME NEW h \in Trees, NEW p \in DirInodes(h), NEW s \in Slot, NEW k, k = s + 2,
         NoNames(h, p, k), \A i \in Slot : i # s => PtrOf(h, p, i + 2) = 0,
         NEW b, b = PtrOf(h, p, 0), b # 0
  PROVE  Written(h, WriteBlock(b, Zero)) \in Trees \cap Owned
<1> DEFINE f == Written(h, WriteBlock(b, Zero))
           z == Zero
<1>0. /\ h \in DiskType /\ OwnedOnce(h) /\ TreeSound(h) /\ KindsRight(h) /\ p \in InodeNum
      /\ k \in DataPos /\ k \in Pos /\ DataPos \subseteq Pos /\ 0 \notin DataPos /\ 0 \in Pos /\ k # 0
  <2>1. h \in DiskType /\ OwnedOnce(h) /\ TreeSound(h) /\ KindsRight(h) /\ p \in InodeNum
    BY DEF Trees, TreeSound, DirInodes
  <2>2. k \in DataPos
    BY PosIs
  <2> QED BY <2>1, <2>2, PosIs DEF DataPos
<1>1. z \in BlockType /\ NoPtrs = Ptrs(z) /\ z.kind = "zero"
  BY BlocksAre DEF Ptrs, Zero
<1> HIDE DEF z
<1>2. /\ f \in DiskType /\ f.inode = h.inode /\ f.inodeMap = h.inodeMap /\ b \in Block
      /\ \A x \in Block : f.blk[x] = IF x = b THEN z ELSE h.blk[x]
      /\ \A j \in InodeNum \ {p}, l \in Pos : PtrOf(f, j, l) = PtrOf(h, j, l)
      /\ \A l \in 0 .. 2 : PtrOf(f, p, l) = PtrOf(h, p, l)
      /\ \A i \in Slot : PtrOf(f, p, i + 2) = NoPtrs[i]
  <2>1. LET g == Written(h, WriteBlock(b, z))
        IN  /\ g \in DiskType /\ g.inode = h.inode /\ g.inodeMap = h.inodeMap /\ b \in Block
            /\ \A x \in Block : g.blk[x] = IF x = b THEN z ELSE h.blk[x]
            /\ \A j \in InodeNum \ {p}, l \in Pos : PtrOf(g, j, l) = PtrOf(h, j, l)
            /\ \A l \in 0 .. 2 : PtrOf(g, p, l) = PtrOf(h, p, l)
            /\ \A i \in Slot : PtrOf(g, p, i + 2) = NoPtrs[i]
    BY ONLY <1>0, <1>1, b = PtrOf(h, p, 0), b # 0, SlotsWritten
  <2> QED BY <2>1 DEF z
<1> HIDE DEF f
<1>3. ASSUME NEW l \in Pos PROVE PtrOf(f, p, l) = IF l = k THEN 0 ELSE PtrOf(h, p, l)
  <2>1. l \in Nat /\ s \in Nat /\ k = s + 2 /\ s # 0
    BY PosIs
  <2>2. CASE l \in 0 .. 2
    <3>1. l # k
      BY <2>1, <2>2
    <3> QED BY <1>2, <2>2, <3>1
  <2>3. CASE l \notin 0 .. 2
    <3>1. l \in DataPos /\ l # 1 /\ l # 2
      BY <2>1, <2>3 DEF DataPos
    <3>2. l - 2 \in Slot
      BY <3>1, PosIs
    <3> DEFINE i == l - 2
    <3>3. i \in Slot /\ i + 2 = l /\ (i = s <=> l = k)
      BY <2>1, <3>2
    <3> HIDE DEF i
    <3>4. NoPtrs[i] = 0
      BY <3>3 DEF NoPtrs
    <3>5. PtrOf(f, p, l) = 0 /\ (l # k => PtrOf(h, p, l) = 0)
      BY <1>2, <3>3, <3>4
    <3> QED BY <3>5
  <2> QED BY <2>2, <2>3
<1>4. OnlyPtr(f, h, p, k, 0)
  BY <1>2, <1>3 DEF OnlyPtr
<1>5. OwnedOnce(f)
  BY <1>0, <1>4, DroppedOwned
<1>6. \A j \in InodeNum, l \in Pos : PtrOf(f, j, l) = 0 \/ PtrOf(f, j, l) = PtrOf(h, j, l)
  BY <1>4 DEF OnlyPtr
<1>7. KindsRight(f)
  <2> SUFFICES ASSUME NEW j \in InodeNum, NEW l \in Pos, PtrOf(f, j, l) # 0
               PROVE  f.blk[PtrOf(f, j, l)].kind \in {"zero", KindOf(f.inode[j], l)}
    BY DEF KindsRight
  <2>1. PtrOf(f, j, l) = PtrOf(h, j, l) /\ PtrOf(h, j, l) \in Block /\ f.inode[j] = h.inode[j]
    BY <1>0, <1>2, <1>6, PtrTyped DEF Pointer
  <2>2. h.blk[PtrOf(h, j, l)].kind \in {"zero", KindOf(h.inode[j], l)}
    BY <1>0, <2>1 DEF KindsRight
  <2>3. f.blk[PtrOf(h, j, l)] = z \/ f.blk[PtrOf(h, j, l)] = h.blk[PtrOf(h, j, l)]
    BY <1>2, <2>1
  <2> QED BY <1>1, <2>1, <2>2, <2>3
<1>8. ASSUME NEW j \in InodeNum, NEW l \in DataPos, j # p \/ l # k
      PROVE  EntsAt(f, j, l) = EntsAt(h, j, l)
  <2>1. PtrOf(f, j, l) = PtrOf(h, j, l)
    BY <1>0, <1>4, <1>8 DEF OnlyPtr
  <2>2. CASE PtrOf(h, j, l) = 0
    BY <2>1, <2>2 DEF EntsAt
  <2>3. CASE PtrOf(h, j, l) # 0
    <3>1. PtrOf(h, j, l) \in Block
      BY <1>0, <2>3, PtrTyped DEF Pointer
    <3>2. PtrOf(h, j, l) # b
      BY <1>0, <2>3 DEF OwnedOnce
    <3>3. f.blk[PtrOf(h, j, l)] = h.blk[PtrOf(h, j, l)]
      BY <1>2, <3>1, <3>2
    <3> QED BY <2>1, <2>3, <3>3 DEF EntsAt
  <2> QED BY <2>2, <2>3
<1>9. NoNames(f, p, k)
  <2>1. PtrOf(f, p, k) = 0
    BY <1>0, <1>3
  <2> QED BY <2>1 DEF EntsAt, NoEntries, NoEntry, NoNames
<1>10. ASSUME NEW i \in DirInodes(h) PROVE SameCells(f, h, i)
  <2>1. i \in InodeNum
    BY DEF DirInodes
  <2>2. CASE i # p
    <3>1. \A l \in DataPos : EntsAt(f, i, l) = EntsAt(h, i, l)
      BY <1>8, <2>1, <2>2
    <3> QED BY <3>1, SameEnts
  <2>3. CASE i = p
    <3>1. NoNames(h, p, k)
      OBVIOUS
    <3>2. \A l \in DataPos : l # k => EntsAt(f, p, l) = EntsAt(h, p, l)
      BY <1>0, <1>8
    <3>3. SameCells(f, h, p)
      BY ONLY <1>0, <1>9, <3>1, <3>2, EmptyEnts
    <3> QED BY <2>3, <3>3
  <2> QED BY <2>2, <2>3
<1>11. SameTypes(f, h)
  BY <1>2 DEF SameTypes
<1>12. TreeSound(f)
  BY <1>0, <1>2, <1>7, <1>10, <1>11, StaySound
<1> QED BY <1>2, <1>5, <1>12 DEF f, z, Trees, Owned

\* The block that is emptied is not the first one, which has ".".
LEMMA NotFirst ==
  ASSUME NEW d, NEW q, NEW p, NEW place, NEW c, NEW k, NEW j, Removing(d, q, p, place, c, k, j), Emptied(place)
  PROVE  k # 1
<1>1. /\ <<k, j>> \in PlainCells(d, p) /\ p \in DirInodes(d) /\ j \in Entry /\ TreeSound(d)
      /\ place.ents = EntsAt(d, p, k) /\ place.idx = j
  BY RemovingIs
<1>2. Sound(d) /\ place \in PlaceType
  BY DEF Removing
<1>3. PtrOf(d, p, 1) # 0 /\ EntryAt(d, p, 1, 1) = [name |-> ".", ino |-> p]
  BY <1>1, SoundDir DEF DotRight
<1>4. SUFFICES ASSUME k = 1 PROVE FALSE
  OBVIOUS
<1>5. place.ents[1].name = "."
  <2>1. EntryAt(d, p, 1, 1) = place.ents[1]
    BY <1>1, <1>3, <1>4 DEF EntryAt, EntsAt
  <2> QED BY <1>3, <2>1
<1>6. Plain(place.ents[j].name)
  <2>1. <<k, j>>[1] = 1 /\ <<k, j>>[2] = j
    BY <1>4
  <2> DEFINE x == <<k, j>>
  <2>2. x \in PlainCells(d, p) /\ x[1] = 1 /\ x[2] = j
    BY <1>1, <2>1
  <2> HIDE DEF x
  <2>3. Plain(EntryAt(d, p, 1, j).name)
    BY <2>2 DEF PlainCells
  <2>4. EntryAt(d, p, 1, j) = place.ents[j]
    BY <1>1, <1>3, <1>4 DEF EntryAt, EntsAt
  <2> QED BY <2>3, <2>4
<1>7. j # 1
  BY <1>5, <1>6 DEF Plain
<1>8. 1 \in Entry
  BY EntryIsBig
<1>9. Cleared(place)[1] = place.ents[1]
  <2>1. place.ents \in [Entry -> EntryType]
    BY <1>2, PlaceParts
  <2> QED BY <1>1, <1>7, <1>8, <2>1 DEF Cleared
<1>10. Cleared(place)[1].name = ""
  BY <1>8 DEF Emptied
<1> QED BY <1>5, <1>9, <1>10

\* What holds where the block was given back.
LEMMA GivenBackIs ==
  ASSUME NEW d, NEW q, NEW p, NEW place, NEW c, NEW k, NEW j, Removing(d, q, p, place, c, k, j),
         NEW m, NEW e \in PutIn(d, c, m, p, k, Final(place)), Emptied(place), NEW b, b = place.blk,
         NEW g \in FreedOf(e, b)
  PROVE  /\ g \in Trees \cap Owned /\ p \in DirInodes(g) /\ NoNames(g, p, k)
         /\ c \in InodeNum /\ c # 0 /\ c \notin g.inodeMap /\ c \notin DirInodes(g)
         /\ \A i \in DirInodes(g) : \A x \in PlainCells(g, i) : EntryAt(g, i, x[1], x[2]).ino # c
         /\ \A l \in Pos : PtrOf(g, p, l) = PtrOf(d, p, l)
<1>1. /\ <<k, j>> \in PlainCells(d, p) /\ p \in InodeNum /\ c # p /\ k \in DataPos /\ c # 0
      /\ p \in DirInodes(d) /\ c \in InodeNum
  BY RemovingIs
<1>2. /\ e \in DiskType /\ BlocksSound(e) /\ TreeSound(e) /\ b \in Block /\ PtrOf(e, p, k) = b
      /\ OwnedOnce(g) /\ TreeSound(g) /\ DirInodes(g) = DirInodes(e)
      /\ \A i \in DirInodes(e) : SameCells(g, e, i)
  <2>1. e \in DiskType /\ BlocksSound(e) /\ TreeSound(e) /\ b \in Block /\ PtrOf(e, p, k) = b
    BY BlockGivenBack
  <2>2. \A h \in FreedOf(e, b) : /\ OwnedOnce(h) /\ TreeSound(h) /\ DirInodes(h) = DirInodes(e)
                               /\ \A i \in DirInodes(e) : SameCells(h, e, i)
    BY BlockGivenBack
  <2> QED BY <2>1, <2>2
<1>3. /\ DirInodes(e) = DirInodes(d) \ {c}
      /\ \A i \in DirInodes(e) : \A x \in PlainCells(e, i) : EntryAt(e, i, x[1], x[2]).ino # c
  BY RemovedTree
<1>4. /\ g \in DiskType /\ g.inode = e.inode /\ SameInodeMap(g, e) /\ SamePtrs(g, e)
      /\ \A x \in Block : g.blk[x] = IF x = b THEN Zero ELSE e.blk[x]
  BY DEF FreedOf
<1>5. e.inodeMap = d.inodeMap \ {c} /\ \A i \in InodeNum \ {c} : \A l \in Pos : PtrOf(e, i, l) = PtrOf(d, i, l)
  BY DEF PutIn
<1>6. \A l \in Pos : PtrOf(g, p, l) = PtrOf(d, p, l)
  BY <1>1, <1>4, <1>5 DEF SamePtrs
<1>7. NoNames(g, p, k)
  <2>1. PtrOf(g, p, k) = b /\ b # 0
    BY <1>1, <1>2, <1>4, PosIs, BlocksArePositive DEF SamePtrs
  <2>2. g.blk[b] = Zero
    BY <1>2, <1>4
  <2>3. EntsAt(g, p, k) = Ents(Zero)
    BY <2>1, <2>2 DEF EntsAt
  <2>4. Ents(Zero) = NoEntries
    BY ZeroHasNoEntries
  <2>5. \A n \in Entry : NoEntries[n].name = ""
    BY DEF NoEntries, NoEntry
  <2> QED BY <2>3, <2>4, <2>5 DEF NoNames
<1>8. ASSUME NEW i \in DirInodes(g), NEW x \in PlainCells(g, i)
      PROVE  EntryAt(g, i, x[1], x[2]).ino # c
  <2>1. SameCells(g, e, i) /\ i \in DirInodes(e)
    BY <1>2
  <2>2. x \in Cells(g, i) /\ Plain(EntryAt(g, i, x[1], x[2]).name)
    BY DEF PlainCells
  <2>3. x \in Cells(e, i) /\ EntryAt(g, i, x[1], x[2]) = EntryAt(e, i, x[1], x[2])
    BY <2>1, <2>2 DEF SameCells
  <2>4. x \in PlainCells(e, i)
    BY <2>2, <2>3 DEF PlainCells
  <2> QED BY <1>3, <2>1, <2>3, <2>4
<1>9. c \notin g.inodeMap /\ c \notin DirInodes(g) /\ p \in DirInodes(g)
  <2>1. g.inodeMap = e.inodeMap
    BY <1>4 DEF SameInodeMap
  <2> QED BY <1>1, <1>2, <1>3, <1>5, <2>1
<1>10. g \in Trees \cap Owned
  BY <1>2, <1>4 DEF Trees, Owned
<1> QED BY <1>1, <1>6, <1>7, <1>8, <1>9, <1>10

\* A pointer is moved, as PointerMoved says.
LEMMA MovesLead ==
  ASSUME NEW g \in Trees, NEW p \in DirInodes(g), NEW s \in Slot, NEW k, k = s + 2, NoNames(g, p, k),
         NEW c \in InodeNum, c # 0, c \notin g.inodeMap, c \notin DirInodes(g),
         \A i \in DirInodes(g) : \A x \in PlainCells(g, i) : EntryAt(g, i, x[1], x[2]).ino # c,
         NEW n, PtrOf(g, p, 0) = n.indir, n.indir # 0, NEW ptrs, \A i \in Slot : PtrOf(g, p, i + 2) = ptrs[i],
         NEW two, ShrinkMoves(n, ptrs, s, two)
  PROVE  two \in Seq(Writes) /\ Leads(g, two, Trees, Owned)
<1>0. g \in DiskType /\ OwnedOnce(g) /\ TreeSound(g) /\ g \in Owned /\ p \in InodeNum
  BY DEF Trees, Owned, DirInodes
<1>1. PICK from \in Slot, moved \in [Slot -> Pointer] :
        /\ from # s
        /\ \A i \in Slot : moved[i] = IF i = s THEN ptrs[from] ELSE IF i = from THEN 0 ELSE ptrs[i]
        /\ two = <<WriteBlock(n.indir, PtrBlock(moved))>>
  BY DEF ShrinkMoves
<1> DEFINE m == from + 2
           b == n.indir
           w == WriteBlock(b, PtrBlock(moved))
           f == Written(g, w)
<1>2. k \in DataPos /\ m \in DataPos /\ k # m /\ k > 2 /\ m > 2
  <2>1. s \in Nat /\ from \in Nat /\ s # 0 /\ from # 0 /\ k \in DataPos /\ m \in DataPos
    BY PosIs
  <2>2. from # s
    BY <1>1
  <2> QED BY <2>1, <2>2
<1>3. \A i \in Slot : moved[i] = IF i + 2 = k THEN PtrOf(g, p, m) ELSE IF i + 2 = m THEN 0 ELSE PtrOf(g, p, i + 2)
  <2> TAKE i \in Slot
  <2>1. PtrOf(g, p, m) = ptrs[from] /\ PtrOf(g, p, i + 2) = ptrs[i]
    OBVIOUS
  <2>2. (i + 2 = k <=> i = s) /\ (i + 2 = m <=> i = from)
    <3>1. s \in Nat /\ from \in Nat /\ i \in Nat
      BY PosIs
    <3> QED BY <3>1
  <2>3. moved[i] = IF i = s THEN ptrs[from] ELSE IF i = from THEN 0 ELSE ptrs[i]
    BY <1>1
  <2> HIDE DEF m
  <2> QED BY <2>1, <2>2, <2>3
<1>4. b = PtrOf(g, p, 0) /\ b # 0 /\ b \in Pointer
  BY <1>0, PtrTyped, PosIs
<1>5. w \in Writes
  BY <1>4, WritesAre, BlocksAre
<1> HIDE DEF m, b
<1>6. MovedTo(f, g, p, k, m, b)
  <2>1. LET h == Written(g, WriteBlock(b, PtrBlock(moved)))
        IN  /\ h \in DiskType /\ h.inode = g.inode /\ h.inodeMap = g.inodeMap
            /\ \A i \in InodeNum \ {p}, l \in Pos : PtrOf(h, i, l) = PtrOf(g, i, l)
            /\ \A l \in Pos : PtrOf(h, p, l) = IF l = k THEN PtrOf(g, p, m)
                                               ELSE IF l = m THEN 0 ELSE PtrOf(g, p, l)
            /\ \A x \in Block : x # b => h.blk[x] = g.blk[x]
            /\ b \in Block /\ h.blk[b].kind = "ptr"
    BY ONLY <1>0, <1>2, <1>3, <1>4, p \in DirInodes(g), moved \in [Slot -> Pointer], PointerMoved
  <2> QED BY <2>1 DEF MovedTo
<1> HIDE DEF w, f
<1>7. f \in Trees \cap Owned
  BY <1>0, <1>2, <1>4, <1>6, MovedTree
<1>8. Leads(g, <<w>>, Trees, Owned)
  BY <1>0, <1>7, LeadsOne DEF f
<1>9. two = <<w>>
  BY <1>1 DEF w, b
<1>10. <<w>> \in Seq(Writes)
  BY <1>5
<1> QED BY <1>8, <1>9, <1>10

\* The indirect block is given back, as IndirDropped says.
LEMMA DropsLead ==
  ASSUME NEW g \in Trees, NEW p \in DirInodes(g), NEW s \in Slot, NEW k, k = s + 2, NoNames(g, p, k),
         \A i \in Slot : i # s => PtrOf(g, p, i + 2) = 0,
         NEW n, n.indir = PtrOf(g, p, 0), n.indir # 0
  PROVE  ShrinkDrops(n) \in Seq(Writes) /\ Leads(g, ShrinkDrops(n), Trees, Owned)
<1> DEFINE b == n.indir
           u == ResetBlockBitmap(b)
           v == Count(-1, 0)
           w == WriteBlock(b, Zero)
           A == {h \in DiskType : h.inode = g.inode /\ h.blk = g.blk /\ h.inodeMap = g.inodeMap}
<1>0. g \in DiskType /\ g \in Owned /\ p \in InodeNum
  BY DEF Trees, Owned, DirInodes
<1>1. b = PtrOf(g, p, 0) /\ b # 0 /\ b \in Pointer
  BY <1>0, PtrTyped, PosIs
<1>2. u \in Writes /\ v \in Writes /\ w \in Writes
  BY <1>1, WritesAre, BlocksAre
<1>3. ASSUME NEW h \in A
      PROVE  /\ h \in Trees \cap Owned /\ p \in DirInodes(h) /\ NoNames(h, p, k)
             /\ \A l : PtrOf(h, p, l) = PtrOf(g, p, l)
  <2>1. h \in Trees \cap Owned
    BY SameTree
  <2>2. \A l : PtrOf(h, p, l) = PtrOf(g, p, l)
    BY DEF PtrOf, IndirectPtrs
  <2>3. \A l : EntsAt(h, p, l) = EntsAt(g, p, l)
    BY <2>2 DEF EntsAt
  <2>4. NoNames(h, p, k)
    BY <2>3 DEF NoNames
  <2>5. p \in DirInodes(h)
    BY DEF DirInodes, IsDirIn
  <2> QED BY <2>1, <2>2, <2>4, <2>5
<1> HIDE DEF b
<1>4. Written(g, u) \in A
  <2> DEFINE h == Written(g, u)
  <2>1. h \in DiskType /\ SameBut(h, g, "blockMap")
    BY <1>0, <1>1, BlockBitReset
  <2> HIDE DEF h
  <2>2. h.inode = g.inode /\ h.blk = g.blk /\ h.inodeMap = g.inodeMap
    BY <2>1 DEF SameBut
  <2>3. h \in A
    BY <2>1, <2>2
  <2> QED BY <2>3 DEF h
<1>5. ASSUME NEW e \in A PROVE Written(e, v) \in A
  <2>1. e \in DiskType /\ -1 \in Int /\ 0 \in Int
    OBVIOUS
  <2> DEFINE h == Written(e, v)
  <2>2. h \in DiskType /\ h.inode = e.inode /\ h.blk = e.blk /\ h.inodeMap = e.inodeMap
    BY <2>1, CountedSame
  <2> HIDE DEF h
  <2>3. h \in A
    BY <2>2
  <2> QED BY <2>3 DEF h
<1>6. ASSUME NEW e \in A PROVE Written(e, w) \in Trees \cap Owned
  <2>1. e \in Trees /\ p \in DirInodes(e) /\ NoNames(e, p, k) /\ b = PtrOf(e, p, 0) /\ b # 0
    BY <1>1, <1>3
  <2>2. \A i \in Slot : i # s => PtrOf(e, p, i + 2) = 0
    BY <1>3
  <2> HIDE DEF A
  <2> QED BY <2>1, <2>2, IndirDropped
<1>7. ShrinkDrops(n) = <<u, v, w>>
  BY DEF ShrinkDrops, b
<1>8. \A h \in A : h \in Owned
  BY <1>3
<1> HIDE DEF A, u, v, w
<1>9. Leads(g, <<u, v, w>>, Trees, Owned)
  BY <1>0, <1>4, <1>5, <1>6, <1>8, LeadsThree
<1>10. <<u, v, w>> \in Seq(Writes)
  BY <1>2
<1> QED BY <1>7, <1>9, <1>10

\* What holds where directory p, with an indirect block, is without the entries
\* of block b.
LEMMA SlotOf ==
  ASSUME NEW d, NEW q, NEW p, NEW place, NEW c, NEW k, NEW j, Removing(d, q, p, place, c, k, j),
         Emptied(place), d.inode[p].direct[2] # place.blk
  PROVE  \E s \in Slot : k = s + 2 /\ \A i \in Slot : IndirectPtrs(d, d.inode[p])[i] = place.blk <=> i = s
<1> DEFINE b == place.blk
           ptrs == IndirectPtrs(d, d.inode[p])
<1>1. /\ <<k, j>> \in PlainCells(d, p) /\ p \in InodeNum /\ k \in DataPos /\ d \in DiskType
      /\ place.blk = PtrOf(d, p, k) /\ PtrOf(d, p, k) # 0
  BY RemovingIs
<1>2. OwnedOnce(d)
  BY SoundParts DEF Removing, BlocksSound
<1>3. k # 1
  BY NotFirst
<1>4. k # 2
  <2>1. PtrOf(d, p, 2) = d.inode[p].direct[2]
    BY DEF PtrOf
  <2> QED BY <1>1, <2>1
<1>5. \E s \in Slot : k = s + 2
  BY <1>1, <1>3, <1>4, PosIs
<1>6. PICK s \in Slot : k = s + 2
  BY <1>5
<1>7. \A i \in Slot : ptrs[i] = PtrOf(d, p, i + 2) /\ i + 2 \in Pos
  <2> TAKE i \in Slot
  <2>1. i \in Nat /\ i + 2 \in Pos /\ i # 0
    BY PosIs
  <2>2. i + 2 # 0 /\ ~(i + 2 <= 2) /\ (i + 2) - 2 = i
    BY <2>1
  <2> QED BY <2>1, <2>2 DEF PtrOf
<1>8. ASSUME NEW i \in Slot PROVE ptrs[i] = b <=> i = s
  <2>1. ptrs[i] = PtrOf(d, p, i + 2) /\ i + 2 \in Pos /\ k \in Pos
    BY <1>1, <1>7, PosIs
  <2>2. PtrOf(d, p, i + 2) = PtrOf(d, p, k) => i + 2 = k
    BY <1>1, <1>2, <2>1 DEF OwnedOnce
  <2>3. i + 2 = k <=> i = s
    <3>1. i \in Nat /\ s \in Nat
      BY PosIs
    <3> QED BY <1>6, <3>1
  <2> QED BY <1>1, <2>1, <2>2, <2>3
<1> QED BY <1>6, <1>8

\* A block behind the second one is given back, and the indirect block after it
\* or another pointer moved to its slot.
LEMMA ShrinkLeads ==
  ASSUME NEW d, NEW q, NEW p, NEW place, NEW c, NEW k, NEW j, Removing(d, q, p, place, c, k, j),
         Emptied(place), NEW n, n = d.inode[p], n.direct[2] # place.blk, n.indir # 0,
         NEW e \in PutIn(d, c, 0, p, k, Final(place))
  PROVE  Leads(e, ShrinkIndirect(d, n, place.blk), Trees, Owned)
<1> DEFINE b == place.blk
           ptrs == IndirectPtrs(d, n)
           F == FreedOf(e, b)
<1>1. /\ <<k, j>> \in PlainCells(d, p) /\ d \in DiskType /\ p \in InodeNum
  BY RemovingIs
<1>2. Free(b) \in Seq(Writes) /\ Leads(e, Free(b), F, Owned) /\ b \in Block
  <2>1. /\ Free(b) \in Seq(Writes) /\ Leads(e, Free(b), FreedOf(e, b), Owned)
        /\ e \in DiskType /\ BlocksSound(e) /\ TreeSound(e) /\ p \in InodeNum /\ k \in DataPos
        /\ b \in Block /\ PtrOf(e, p, k) = b
    BY BlockGivenBack
  <2> QED BY <2>1
<1>3. PICK s \in Slot : k = s + 2 /\ \A i \in Slot : ptrs[i] = b <=> i = s
  <2>1. \E s \in Slot : k = s + 2 /\ \A i \in Slot : IndirectPtrs(d, d.inode[p])[i] = place.blk <=> i = s
    BY SlotOf
  <2> QED BY <2>1
<1>4. n \in InodeType
  BY <1>1, PointersOf
<1>5. \A i \in Slot : ptrs[i] = PtrOf(d, p, i + 2)
  BY PtrByPos
<1>6. n.indir = PtrOf(d, p, 0)
  BY PtrByPos
<1>7. \/ ShrinkIndirect(d, n, b) = Free(b)
      \/ \E two : ShrinkMoves(n, ptrs, s, two) /\ ShrinkIndirect(d, n, b) = Free(b) \o two
      \/ /\ \A i \in Slot : i # s => ptrs[i] = 0
         /\ ShrinkIndirect(d, n, b) = Free(b) \o ShrinkDrops(n)
  <2>1. ASSUME NEW m \in InodeType, NEW x \in Block, NEW r, r = IndirectPtrs(d, m),
               NEW t \in Slot, \A i \in Slot : r[i] = x <=> i = t
        PROVE  \/ ShrinkIndirect(d, m, x) = Free(x)
               \/ \E two : ShrinkMoves(m, r, t, two) /\ ShrinkIndirect(d, m, x) = Free(x) \o two
               \/ /\ \A i \in Slot : i # t => r[i] = 0
                  /\ ShrinkIndirect(d, m, x) = Free(x) \o ShrinkDrops(m)
    BY ONLY <1>1, <2>1, ShrinkIs
  <2>2. b \in Block /\ \A i \in Slot : ptrs[i] = b <=> i = s
    BY <1>2, <1>3
  <2> HIDE DEF b
  <2> QED BY ONLY <1>4, s \in Slot, <2>1, <2>2
<1>8. ASSUME NEW g \in F
      PROVE  /\ g \in Trees \cap Owned /\ p \in DirInodes(g) /\ NoNames(g, p, k)
             /\ c \in InodeNum /\ c # 0 /\ c \notin g.inodeMap /\ c \notin DirInodes(g)
             /\ \A i \in DirInodes(g) : \A x \in PlainCells(g, i) : EntryAt(g, i, x[1], x[2]).ino # c
             /\ \A l \in Pos : PtrOf(g, p, l) = PtrOf(d, p, l)
  BY GivenBackIs
<1>9. \A i \in Slot : i + 2 \in Pos
  BY PosIs
<1>10. 0 \in Pos
  BY PosIs
<1>11. CASE ShrinkIndirect(d, n, b) = Free(b)
  <2>1. F \subseteq Trees
    BY <1>8
  <2> HIDE DEF F
  <2>2. Leads(e, Free(b), F, Owned) /\ Owned \subseteq Owned
    BY <1>2
  <2>3. Leads(e, Free(b), Trees, Owned)
    BY ONLY <2>1, <2>2, LeadsWeaker
  <2> QED BY <1>11, <2>3
<1>12. ASSUME NEW two, ShrinkMoves(n, ptrs, s, two), ShrinkIndirect(d, n, b) = Free(b) \o two
       PROVE  Leads(e, ShrinkIndirect(d, n, b), Trees, Owned)
  <2>1. ASSUME NEW g \in F PROVE two \in Seq(Writes) /\ Leads(g, two, Trees, Owned)
    <3>1. /\ g \in Trees /\ p \in DirInodes(g) /\ NoNames(g, p, k)
          /\ c \in InodeNum /\ c # 0 /\ c \notin g.inodeMap /\ c \notin DirInodes(g)
          /\ \A i \in DirInodes(g) : \A x \in PlainCells(g, i) : EntryAt(g, i, x[1], x[2]).ino # c
      BY <1>8
    <3>2. PtrOf(g, p, 0) = n.indir /\ \A i \in Slot : PtrOf(g, p, i + 2) = ptrs[i]
      BY <1>5, <1>6, <1>8, <1>9, <1>10
    <3>3. ShrinkMoves(n, ptrs, s, two) /\ k = s + 2 /\ n.indir # 0 /\ s \in Slot
      BY <1>3, <1>12
    <3> HIDE DEF ptrs, F
    <3> QED BY ONLY <3>1, <3>2, <3>3, MovesLead
  <2>2. F # {}
    BY <1>2 DEF Leads
  <2>3. two \in Seq(Writes)
    BY <2>1, <2>2
  <2> HIDE DEF F, b
  <2>4. Leads(e, Free(b) \o two, Trees, Owned)
    BY <1>2, <2>1, <2>3, LeadsConcat
  <2> QED BY <1>12, <2>4
<1>13. ASSUME \A i \in Slot : i # s => ptrs[i] = 0, ShrinkIndirect(d, n, b) = Free(b) \o ShrinkDrops(n)
       PROVE  Leads(e, ShrinkIndirect(d, n, b), Trees, Owned)
  <2> DEFINE two == ShrinkDrops(n)
  <2>1. ASSUME NEW g \in F PROVE two \in Seq(Writes) /\ Leads(g, two, Trees, Owned)
    <3>1. g \in Trees /\ p \in DirInodes(g) /\ NoNames(g, p, k)
      BY <1>8
    <3>2. n.indir = PtrOf(g, p, 0) /\ \A i \in Slot : PtrOf(g, p, i + 2) = ptrs[i]
      BY <1>5, <1>6, <1>8, <1>9, <1>10
    <3>3. \A i \in Slot : i # s => PtrOf(g, p, i + 2) = 0
      BY <1>13, <3>2
    <3>4. k = s + 2 /\ n.indir # 0 /\ s \in Slot
      BY <1>3
    <3> HIDE DEF ptrs, F
    <3> QED BY ONLY <3>1, <3>2, <3>3, <3>4, DropsLead
  <2>2. F # {}
    BY <1>2 DEF Leads
  <2>3. two \in Seq(Writes)
    BY <2>1, <2>2
  <2> HIDE DEF F, b, two
  <2>4. Leads(e, Free(b) \o two, Trees, Owned)
    BY <1>2, <2>1, <2>3, LeadsConcat
  <2> QED BY <1>13, <2>4 DEF two
<1> QED BY <1>7, <1>11, <1>12, <1>13

\* A directory is removed and its parent gives a block back.
LEMMA RemoveDirShrinks ==
  ASSUME NEW d, NEW q, NEW p, NEW place, NEW c, NEW k, NEW j, Removing(d, q, p, place, c, k, j), IsDirIn(d, c),
         DirShrinks(d, p, place)
  PROVE  Leads(d, myRemoveDir(d, p, place), Trees, Owned)
<1> DEFINE P == PutIn(d, c, 0, p, k, Final(place))
           n == d.inode[p]
           us == ShrinkOf(d, p, place)
           vs == CountOf(d, p, place)
           w == Count(-1, -1)
<1>1. <<k, j>> \in PlainCells(d, p) /\ d \in DiskType /\ p \in InodeNum
  BY RemovingIs
<1>2. Emptied(place) /\ (n.direct[2] = place.blk \/ n.indir # 0)
  BY DEF DirShrinks
<1>3. PICK ws \in Seq(Writes) : Leads(d, ws, P, Owned)
                  /\ myRemoveDir(d, p, place) = ws \o us \o vs
  BY DirTakenOut
<1>4. us \in Seq(Writes) /\ vs \in {<<>>, <<w>>} /\ w \in Writes
  <2>1. place.blk \in Block /\ n \in InodeType
    <3>1. place \in PlaceType
      BY DEF Removing
    <3> QED BY <1>1, <3>1, PlaceParts, PointersOf
  <2>2. CASE n.direct[2] = place.blk
    <3>1. us = Free(place.blk)
      BY <1>2, <2>2 DEF ShrinkOf
    <3>2. Free(place.blk) \in Seq(Writes)
      BY <2>1, FreeTyped
    <3> QED BY <3>1, <3>2, WritesAre DEF CountOf
  <2>3. CASE n.direct[2] # place.blk
    <3>1. us = ShrinkIndirect(d, n, place.blk) /\ n.indir # 0
      BY <1>2, <2>3 DEF ShrinkOf
    <3>2. ShrinkIndirect(d, n, place.blk) \in Seq(Writes)
      BY <1>1, <2>1, <3>1, ShrinkIndirectTyped
    <3> QED BY <3>1, <3>2, WritesAre DEF CountOf
  <2> QED BY <2>2, <2>3
<1>5. ASSUME NEW e \in P PROVE Leads(e, us, Trees, Owned)
  <2>1. CASE n.direct[2] = place.blk
    <3> DEFINE b == place.blk
    <3>1. us = Free(b)
      BY <1>2, <2>1 DEF ShrinkOf
    <3>2. Leads(e, Free(b), FreedOf(e, b), Owned) /\ \A g \in FreedOf(e, b) : OwnedOnce(g) /\ TreeSound(g)
      <4>1. /\ Free(b) \in Seq(Writes) /\ Leads(e, Free(b), FreedOf(e, b), Owned)
            /\ \A g \in FreedOf(e, b) : OwnedOnce(g) /\ TreeSound(g)
        BY <1>2, BlockGivenBack
      <4> QED BY <4>1
    <3>3. FreedOf(e, b) \subseteq Trees
      BY <3>2 DEF FreedOf, Trees
    <3> HIDE DEF us, b
    <3> QED BY <3>1, <3>2, <3>3, LeadsWeaker
  <2>2. CASE n.direct[2] # place.blk
    <3>1. us = ShrinkIndirect(d, n, place.blk) /\ n.indir # 0
      BY <1>2, <2>2 DEF ShrinkOf
    <3>2. Leads(e, ShrinkIndirect(d, n, place.blk), Trees, Owned)
      BY <1>2, <2>2, <3>1, ShrinkLeads
    <3> QED BY <3>1, <3>2
  <2> QED BY <2>1, <2>2
<1> HIDE DEF P, us, vs, w, n
<1>6. ws \o us \in Seq(Writes) /\ Leads(d, ws \o us, Trees, Owned)
  BY <1>3, <1>4, <1>5, LeadsConcat
<1>7. CASE vs = <<>>
  <2> DEFINE s == ws \o us
  <2>1. s \in Seq(Writes) /\ Leads(d, s, Trees, Owned) /\ myRemoveDir(d, p, place) = s \o vs
    BY <1>3, <1>6
  <2> HIDE DEF s
  <2>2. s \o <<>> = s
    BY <2>1
  <2> QED BY <1>7, <2>1, <2>2
<1>8. CASE vs = <<w>>
  <2> DEFINE s == ws \o us
  <2>1. s \in Seq(Writes) /\ Leads(d, s, Trees, Owned) /\ myRemoveDir(d, p, place) = s \o vs
    BY <1>3, <1>6
  <2> HIDE DEF s
  <2>2. ASSUME NEW e \in Trees PROVE Leads(e, <<w>>, Trees, Owned)
    <3>1. Written(e, w) \in Trees \cap Owned
      BY CountedTrees DEF w
    <3>2. e \in Owned
      BY DEF Trees, Owned
    <3> QED BY <3>1, <3>2, LeadsOne
  <2>3. <<w>> \in Seq(Writes)
    BY <1>4
  <2>4. Leads(d, s \o <<w>>, Trees, Owned)
    BY <2>1, <2>2, <2>3, LeadsConcat
  <2> QED BY <1>8, <2>1, <2>4
<1> QED BY <1>4, <1>7, <1>8

---------------------------------------------------------------------------
(* Every call keeps the invariant *)

\* Where a path ends that is there.
LEMMA FoundIs ==
  ASSUME Sound(disk), NEW path \in Path, NEW type, AskedAs(path, type),
         NEW w, w = Walk(disk, path), w.n = Len(path)
  PROVE  /\ Reached(disk, path) /\ Ino(disk, path) = w.ino /\ w.dir = Ino(disk, Up(path))
         /\ w.ino \in disk.inodeMap \ {0} /\ w.ino \in InodeNum /\ w.dir \in InodeNum /\ w.place \in PlaceType
         /\ disk.inode[w.ino].type = type
         /\ \E k, j : /\ IsAt(disk, w.dir, k, j, path[Len(path)]) /\ PlaceAt(w.place, disk, w.dir, k, j)
                      /\ w.ino = EntryAt(disk, w.dir, k, j).ino
<1>1. disk \in DiskType /\ TreeSound(disk)
  BY SoundParts
<1>2. path \in Seq(Name) /\ path # <<>> /\ Len(path) \in Nat \ {0}
  BY PathIs
<1>3. WalkRight(disk, path, w)
  BY <1>1, <1>2, WalkIsRight
<1>4. Reached(disk, path) /\ Ino(disk, path) = w.ino
  BY DEF Reached, Ino
<1>5. w.ino \in disk.inodeMap \ {0}
  BY <1>1, <1>4, ReachedIs
<1>6. /\ \E k, j : /\ IsAt(disk, w.dir, k, j, path[Len(path)]) /\ PlaceAt(w.place, disk, w.dir, k, j)
                   /\ w.ino = EntryAt(disk, w.dir, k, j).ino
      /\ Walk(disk, SubSeq(path, 1, Len(path))) = w
      /\ w.ino \in InodeNum /\ w.dir \in InodeNum /\ w.place \in PlaceType
  BY <1>2, <1>3 DEF WalkRight
<1>7. disk.inode[w.ino].type = type
  <2>1. Len(path) \in 1 .. Len(path)
    BY <1>2
  <2>2. LET v == Walk(disk, SubSeq(path, 1, Len(path)))
        IN  v.n = Len(path) =>
              disk.inode[v.ino].type = (IF Len(path) < Len(path) THEN "dir" ELSE type)
    BY <2>1 DEF AskedAs
  <2>3. ~(Len(path) < Len(path))
    BY <1>2
  <2> QED BY <1>6, <2>2, <2>3
<1>8. w.dir = Ino(disk, Up(path))
  <2> DEFINE l == Len(path)
             v == Walk(disk, Up(path))
             f == findName(disk, v.ino, path[l], v.place)
  <2>1. w = IF v.n = l - 1 /\ f.found
              THEN [n |-> l, ino |-> f.ents[f.idx].ino, dir |-> v.ino, place |-> f] ELSE v
    BY <1>1, <1>2, WalkLonger DEF WalkOn
  <2>2. v.n # l
    <3>1. Up(path) \in Seq(Name) /\ Len(Up(path)) = l - 1
      BY <1>2, UpIs
    <3>2. WalkRight(disk, Up(path), v)
      BY <1>1, <3>1, WalkIsRight
    <3>3. v.n \in 0 .. l - 1
      BY <3>1, <3>2 DEF WalkRight
    <3> HIDE DEF v
    <3> QED BY <1>2, <3>3
  <2> HIDE DEF v, f
  <2>3. w.dir = v.ino
    BY <2>1, <2>2
  <2> QED BY <2>3 DEF v, Ino
<1> QED BY <1>4, <1>5, <1>6, <1>7, <1>8

\* An empty directory has no names but dots.
LEMMA EmptyHasNothing ==
  ASSUME NEW d \in DiskType, NEW c \in InodeNum, IsEmptyDir(d, c), NEW x, Plain(x), NEW b
  PROVE  ~Has(d, c, x, b)
<1> SUFFICES ASSUME NEW y \in Cells(d, c), EntryAt(d, c, y[1], y[2]).name = x PROVE FALSE
  BY DEF Has
<1>1. y[1] \in DataPos /\ y[2] \in Entry /\ PtrOf(d, c, y[1]) # 0
  BY DEF Cells
<1> DEFINE n == d.inode[c]
           ptrs == IndirectPtrs(d, n)
           names(z) == {Ents(d.blk[z])[j].name : j \in Entry}
           dots == {"", ".", ".."}
<1>2. /\ \A i \in 1 .. 2 : n.direct[i] # 0 => names(n.direct[i]) \subseteq dots
      /\ \A i \in Slot : ptrs[i] # 0 => names(ptrs[i]) \subseteq {""}
  BY DEF IsEmptyDir
<1>3. x \notin dots /\ {""} \subseteq dots
  BY DEF Plain
<1>4. x \in names(PtrOf(d, c, y[1]))
  BY <1>1 DEF EntryAt
<1>5. /\ PtrOf(d, c, 1) = n.direct[1] /\ PtrOf(d, c, 2) = n.direct[2]
      /\ \A s \in Slot : PtrOf(d, c, s + 2) = ptrs[s]
  BY PtrByPos
<1> HIDE DEF names, dots, ptrs, n
<1>6. y[1] = 1 \/ y[1] = 2 \/ \E s \in Slot : y[1] = s + 2
  <2> DEFINE k == y[1]
  <2>1. k \in DataPos
    BY <1>1
  <2> HIDE DEF k
  <2>2. k = 1 \/ k = 2 \/ \E s \in Slot : k = s + 2
    <3>1. k \in Nat /\ (k = 1 \/ k = 2 \/ k - 2 \in Slot)
      BY <2>1, PosIs
    <3>2. (k - 2) + 2 = k
      BY <3>1
    <3> QED BY <3>1, <3>2
  <2> QED BY <2>2 DEF k
<1>7. CASE y[1] = 1
  <2>1. 1 \in 1 .. 2
    OBVIOUS
  <2> QED BY <1>1, <1>2, <1>3, <1>4, <1>5, <1>7, <2>1
<1>8. CASE y[1] = 2
  <2>1. 2 \in 1 .. 2
    OBVIOUS
  <2> QED BY <1>1, <1>2, <1>3, <1>4, <1>5, <1>8, <2>1
<1>9. CASE \E s \in Slot : y[1] = s + 2
  BY <1>1, <1>2, <1>3, <1>4, <1>5, <1>9
<1> QED BY <1>6, <1>7, <1>8, <1>9

\* The removal of a path that is there.
LEMMA RemovingAt ==
  ASSUME Sound(disk), NEW path \in Path, NEW type, AskedAs(path, type),
         NEW w, w = Walk(disk, path), w.n = Len(path),
         \A x \in Name, b \in InodeNum : Plain(x) => ~Has(disk, w.ino, x, b)
  PROVE  \E k, j : Removing(disk, path, w.dir, w.place, w.ino, k, j)
<1>1. /\ Reached(disk, path) /\ Ino(disk, path) = w.ino /\ w.dir = Ino(disk, Up(path))
      /\ w.ino \in disk.inodeMap \ {0} /\ w.ino \in InodeNum /\ w.dir \in InodeNum /\ w.place \in PlaceType
      /\ disk.inode[w.ino].type = type
      /\ \E k, j : /\ IsAt(disk, w.dir, k, j, path[Len(path)]) /\ PlaceAt(w.place, disk, w.dir, k, j)
                   /\ w.ino = EntryAt(disk, w.dir, k, j).ino
  BY FoundIs
<1>2. PICK k, j : /\ IsAt(disk, w.dir, k, j, path[Len(path)]) /\ PlaceAt(w.place, disk, w.dir, k, j)
                  /\ w.ino = EntryAt(disk, w.dir, k, j).ino
  BY <1>1
<1>3. Removing(disk, path, w.dir, w.place, w.ino, k, j)
  BY <1>1, <1>2 DEF Removing
<1> QED BY <1>3

\* A disk with a tree was formatted.
LEMMA NotBlank ==
  ASSUME NEW e, TreeSound(e)
  PROVE  e # BlankDisk
<1>1. e.inode[0].type = "dir"
  BY DEF TreeSound, IsDirIn
<1>2. BlankDisk.inode[0] = FreeInode
  <2>1. BlankDisk.inode = [i \in InodeNum |-> FreeInode]
    BY DEF BlankDisk
  <2> QED BY <2>1, FirstAre
<1>3. FreeInode.type # "dir"
  BY DEF FreeInode
<1> QED BY <1>1, <1>2, <1>3

\* The ends of a step: the disk is sound, ...
LEMMA SoundStays ==
  ASSUME TypeOK', Sound(disk'), damage' = "none", FilesOpen', (~mounted' => NothingOpen')
  PROVE  FileSystemInv'
<1>1. TreeSound(disk') /\ OwnedOnce(disk') /\ Whole(disk', InodesAt(disk'))
  BY SoundParts DEF Sound
<1>2. disk' # BlankDisk
  BY <1>1, NotBlank
<1>3. damage' # "shrunk" /\ damage' # "torn"
  OBVIOUS
<1> QED BY <1>1, <1>2, <1>3 DEF FileSystemInv, Formatted

\* ... or a directory gave a block back, ...
LEMMA ShrunkStays ==
  ASSUME TypeOK', disk' \in Trees, damage' = "shrunk", (~mounted' => NothingOpen')
  PROVE  FileSystemInv'
<1>1. TreeSound(disk') /\ OwnedOnce(disk')
  BY DEF Trees
<1>2. disk' # BlankDisk
  BY <1>1, NotBlank
<1>3. damage' # "none" /\ damage' # "torn"
  OBVIOUS
<1> QED BY <1>1, <1>2, <1>3 DEF FileSystemInv, Formatted

\* ... or the process died inside a call, ...
LEMMA TornStays ==
  ASSUME TypeOK', NEW d \in Owned, Dead(d, "torn")
  PROVE  FileSystemInv'
<1>1. disk' = d /\ damage' = "torn" /\ mounted' = FALSE /\ fds' = NoFds
  BY DEF Dead
<1>2. OwnedOnce(disk')
  BY <1>1 DEF Owned
<1>3. NothingOpen'
  BY <1>1 DEF NothingOpen, NoFds, ClosedFd
<1>4. damage' # "none" /\ damage' # "shrunk"
  BY <1>1
<1> QED BY <1>1, <1>2, <1>3, <1>4 DEF FileSystemInv

\* A death in a call leads to a disk that owns blocks once, and no process.
LEMMA DieInStays ==
  ASSUME TypeOK', NEW ws \in Seq(Writes), NEW B, Leads(disk, ws, B, Owned), DieIn(ws)
  PROVE  FileSystemInv'
<1>1. PICK k \in 1 .. Len(ws) - 1 : Dead(After(disk, ws, k), "torn")
  BY DEF DieIn
<1>2. k \in 0 .. Len(ws)
  OBVIOUS
<1>3. After(disk, ws, k) \in Owned
  BY <1>2 DEF Leads
<1> QED BY <1>1, <1>3, TornStays

\* ... or between calls.
LEMMA DeadStays ==
  ASSUME FileSystemInv, TypeOK', Dead(disk, damage)
  PROVE  FileSystemInv'
<1>1. disk' = disk /\ damage' = damage /\ mounted' = FALSE /\ fds' = NoFds
  BY DEF Dead
<1>2. NothingOpen' /\ FilesOpen'
  BY <1>1 DEF NothingOpen, FilesOpen, NoFds, ClosedFd
<1>3. OwnedOnce(disk')
  BY <1>1 DEF FileSystemInv
<1>4. Formatted' /\ damage' = "none" => Whole(disk', InodesAt(disk'))
  BY <1>1 DEF FileSystemInv, Formatted
<1>5. Formatted' /\ damage' = "shrunk" => TreeSound(disk')
  BY <1>1 DEF FileSystemInv, Formatted
<1> QED BY <1>1, <1>2, <1>3, <1>4, <1>5 DEF FileSystemInv

\* What calls start from.
LEMMA CallingIs ==
  ASSUME NothingBeyond, FileSystemInv, Calling
  PROVE  Sound(disk) /\ damage = "none" /\ mounted /\ FilesOpen /\ disk \in Owned
<1>1. mounted /\ damage = "none"
  BY DEF Calling, NothingBeyond
<1>2. Formatted /\ TypeOK /\ OwnedOnce(disk)
  BY <1>1 DEF FileSystemInv
<1>3. Whole(disk, InodesAt(disk)) /\ FilesOpen
  BY <1>1, <1>2 DEF FileSystemInv
<1>4. disk \in DiskType
  BY <1>2, TypeParts
<1> QED BY <1>1, <1>2, <1>3, <1>4 DEF Sound, Owned

\* A call that writes nothing and keeps to open files keeps the invariant.
LEMMA QuietStays ==
  ASSUME NothingBeyond, FileSystemInv, Calling, TypeOK', NEW table, NEW res, Return(<<>>, table, res), FilesOpen'
  PROVE  FileSystemInv'
<1>1. disk' = disk /\ mounted' = mounted /\ damage' = damage
  <2>1. Len(<<>>) = 0
    OBVIOUS
  <2> QED BY <2>1, AfterNone DEF Return
<1>2. Sound(disk) /\ damage = "none" /\ mounted
  BY CallingIs
<1>3. Sound(disk') /\ damage' = "none" /\ mounted'
  BY <1>1, <1>2
<1> QED BY <1>3, SoundStays

\* A call that fails keeps the invariant.
LEMMA FailStays ==
  ASSUME NothingBeyond, FileSystemInv, Calling, TypeOK', Fail
  PROVE  FileSystemInv'
<1>1. Return(<<>>, fds, Ret(-1))
  BY DEF Fail
<1>2. FilesOpen
  BY CallingIs
<1>3. fds' = fds /\ disk' = disk
  <2>1. Len(<<>>) = 0
    OBVIOUS
  <2> QED BY <1>1, <2>1, AfterNone DEF Return
<1>4. FilesOpen'
  BY <1>2, <1>3 DEF FilesOpen
<1> QED BY <1>1, <1>4, QuietStays

\* So does one that looks for a name below a file.
LEMMA LookPastEndStays ==
  ASSUME NothingBeyond, FileSystemInv, Calling, TypeOK', NEW path, LookPastEnd(path)
  PROVE  FileSystemInv'
BY FailStays, DeadStays DEF LookPastEnd

\* A call that made a file or directory, or wrote one.
LEMMA ReturnStays ==
  ASSUME NothingBeyond, FileSystemInv, Calling, TypeOK', NEW ws, NEW B, Leads(disk, ws, B, Owned),
         \A e \in B : Sound(e), NEW table, NEW res, Return(ws, table, res), FilesOpen'
  PROVE  FileSystemInv'
<1>1. disk' \in B /\ mounted' = mounted /\ damage' = damage
  BY DEF Return, Leads
<1>2. damage = "none" /\ mounted
  BY CallingIs
<1>3. Sound(disk') /\ damage' = "none" /\ mounted'
  BY <1>1, <1>2
<1> QED BY <1>3, SoundStays

\* Open files stay open where no inode of one changes.
LEMMA OpenStay ==
  ASSUME FilesOpen, fds' \in FdsType,
         \A f \in Fd : fds'[f].used =>
           \/ fds[f].used /\ fds'[f].ino = fds[f].ino
           \/ fds'[f].ino \in disk'.inodeMap /\ ~IsDirIn(disk', fds'[f].ino),
         \A f \in Fd : fds[f].used /\ fds[f].ino \in disk.inodeMap /\ ~IsDirIn(disk, fds[f].ino) =>
           fds[f].ino \in disk'.inodeMap /\ ~IsDirIn(disk', fds[f].ino)
  PROVE  FilesOpen'
BY DEF FilesOpen

\* What a call that makes something at the end of a path starts from.
LEMMA MakingAt ==
  ASSUME Sound(disk), NEW path \in Path, NEW type, AskedAs(path, type),
         NEW w, w = Walk(disk, path), w.n # Len(path),
         NEW free, free = findName(disk, w.ino, "", w.place), InodeNum \ disk.inodeMap # {}
  PROVE  \E q \in Path : /\ Making(disk, q, w.ino, w.place, free, GetFreeInodeNum(disk))
                         /\ q[Len(q)] = path[w.n + 1]
<1> DEFINE q == SubSeq(path, 1, w.n + 1)
<1>1. /\ q \in Path /\ Reached(disk, Up(q)) /\ ~Reached(disk, q) /\ Ino(disk, Up(q)) = w.ino
      /\ w.ino \in DirInodes(disk) /\ q[Len(q)] = path[w.n + 1] /\ w.place \in PlaceType
  BY MissingIs
<1>2. FreeIn(disk, w.ino, w.place, free)
  BY DEF FreeIn
<1> HIDE DEF q
<1>3. Making(disk, q, w.ino, w.place, free, GetFreeInodeNum(disk))
  BY <1>1, <1>2 DEF Making
<1> QED BY <1>1, <1>3

\* The inodes that are open were there before.
LEMMA MadeKeepsOpen ==
  ASSUME NEW c \in InodeNum \ disk.inodeMap, NEW type, disk' \in Made(disk, c, type),
         NEW f \in Fd, fds \in FdsType, fds[f].ino \in disk.inodeMap, ~IsDirIn(disk, fds[f].ino)
  PROVE  fds[f].ino \in disk'.inodeMap /\ ~IsDirIn(disk', fds[f].ino)
<1>1. /\ disk'.inodeMap = disk.inodeMap \cup {c}
      /\ \A j \in InodeNum \ {c} : disk'.inode[j].type = disk.inode[j].type
  BY DEF Made
<1>2. fds[f].ino \in InodeNum \ {c}
  BY DEF FdsType
<1> QED BY <1>1, <1>2 DEF IsDirIn

\* MakeDir keeps it.
LEMMA MakeDirStays ==
  ASSUME NothingBeyond, FileSystemInv, TypeOK', NEW p \in DirPath, MakeDir(p)
  PROVE  FileSystemInv'
<1> DEFINE w == Walk(disk, p)
           free == findName(disk, w.ino, "", w.place)
           g == Growth(disk, w.ino, free) + 1
           ws == myMakeDir(disk, p[w.n + 1], w.ino, free)
           c == GetFreeInodeNum(disk)
<1>1. /\ Calling /\ AskedAs(p, "dir") /\ p \in Path
      /\ w.n = Len(p) => LookPastEnd(p)
      /\ w.n # Len(p) => Room(g, 1) /\ (Return(ws, fds, Ret(0)) \/ DieIn(ws))
  BY DEF MakeDir, Path
<1>2. Sound(disk) /\ FilesOpen
  BY <1>1, CallingIs
<1>3. CASE w.n = Len(p)
  BY <1>1, <1>3, LookPastEndStays
<1>4. CASE w.n # Len(p)
  <2>1. Enough(disk, g) /\ InodeNum \ disk.inodeMap # {}
    <3> HIDE DEF g
    <3> QED BY <1>1, <1>4, RoomGives
  <2> DEFINE v == w
             room == free
  <2>2. /\ v = Walk(disk, p) /\ v.n # Len(p) /\ room = findName(disk, v.ino, "", v.place)
        /\ ws = myMakeDir(disk, p[v.n + 1], v.ino, room) /\ g = Growth(disk, v.ino, room) + 1
    BY <1>4
  <2> HIDE DEF w, free, g, ws, v, room, c
  <2>3. PICK q \in Path : /\ Making(disk, q, v.ino, v.place, room, c)
                          /\ q[Len(q)] = p[v.n + 1]
    <3>1. \E q \in Path : /\ Making(disk, q, v.ino, v.place, room, GetFreeInodeNum(disk))
                          /\ q[Len(q)] = p[v.n + 1]
      BY <1>1, <1>2, <2>1, <2>2, MakingAt
    <3> QED BY <3>1 DEF c
  <2>4. ws \in Seq(Writes) /\ Leads(disk, ws, Made(disk, c, "dir"), Owned)
    <3>1. Enough(disk, Growth(disk, v.ino, room) + 1)
      BY <2>1, <2>2
    <3>2. LET us == myMakeDir(disk, q[Len(q)], v.ino, room)
          IN  us \in Seq(Writes) /\ Leads(disk, us, Made(disk, c, "dir"), Owned)
      BY <2>3, <3>1, MakeDirLeads
    <3> QED BY <2>2, <2>3, <3>2
  <2>5. c \in InodeNum \ disk.inodeMap
    BY <2>3, MakingFree
  <2>6. CASE DieIn(ws)
    BY <2>4, <2>6, DieInStays
  <2>7. CASE Return(ws, fds, Ret(0))
    <3>1. disk' \in Made(disk, c, "dir") /\ fds' = fds
      BY <2>4, <2>7 DEF Return, Leads
    <3>2. fds \in FdsType /\ fds' \in FdsType
      BY <3>1, TypeParts DEF FileSystemInv
    <3>3. FilesOpen'
      <4>1. \A f \in Fd : fds[f].used /\ fds[f].ino \in disk.inodeMap /\ ~IsDirIn(disk, fds[f].ino) =>
                            fds[f].ino \in disk'.inodeMap /\ ~IsDirIn(disk', fds[f].ino)
        BY <2>5, <3>1, <3>2, MadeKeepsOpen
      <4> QED BY <1>2, <3>1, <3>2, <4>1, OpenStay
    <3>4. \A e \in Made(disk, c, "dir") : Sound(e)
      BY DEF Made
    <3> QED BY <1>1, <2>4, <2>7, <3>3, <3>4, ReturnStays
  <2> QED BY <1>1, <1>4, <2>6, <2>7
<1> QED BY <1>3, <1>4

\* OpenFile keeps it.
LEMMA OpenFileStays ==
  ASSUME NothingBeyond, FileSystemInv, TypeOK', NEW p \in FilePath, NEW create \in BOOLEAN, OpenFile(p, create)
  PROVE  FileSystemInv'
<1> DEFINE w == Walk(disk, p)
           free == findName(disk, w.ino, "", w.place)
           g == Growth(disk, w.ino, free)
           ws == myMakeFile(disk, p[w.n + 1], w.ino, free)
           c == GetFreeInodeNum(disk)
           h == Least(FreeFds)
           opened(ino) == [fds EXCEPT ![h] = [used |-> TRUE, off |-> 0, ino |-> ino]]
<1>1. /\ Calling /\ AskedAs(p, "file") /\ p \in Path /\ FreeFds # {}
      /\ w.n = Len(p) => Return(<<>>, opened(w.ino), Ret(h))
      /\ w.n # Len(p) /\ ~create => Fail
      /\ w.n # Len(p) /\ create => Room(g, 1) /\ (Return(ws, opened(c), Ret(h)) \/ DieIn(ws))
  BY DEF OpenFile, Path
<1>2. Sound(disk) /\ FilesOpen /\ fds \in FdsType /\ fds' \in FdsType
  BY <1>1, CallingIs, TypeParts DEF FileSystemInv, TypeOK, FdsType
<1>3. h \in Fd
  BY <1>1, FreeFdIs
<1>4. ASSUME NEW i, fds' = opened(i), i \in disk'.inodeMap, ~IsDirIn(disk', i),
             \A f \in Fd : fds[f].used /\ fds[f].ino \in disk.inodeMap /\ ~IsDirIn(disk, fds[f].ino) =>
                             fds[f].ino \in disk'.inodeMap /\ ~IsDirIn(disk', fds[f].ino)
      PROVE  FilesOpen'
  <2> HIDE DEF h
  <2>1. \A f \in Fd : fds'[f] = IF f = h THEN [used |-> TRUE, off |-> 0, ino |-> i] ELSE fds[f]
    BY <1>2, <1>3, <1>4 DEF FdsType
  <2>2. \A f \in Fd : fds'[f].used =>
           \/ fds[f].used /\ fds'[f].ino = fds[f].ino
           \/ fds'[f].ino \in disk'.inodeMap /\ ~IsDirIn(disk', fds'[f].ino)
    BY <1>4, <2>1
  <2> QED BY <1>2, <1>4, <2>2, OpenStay
<1> HIDE DEF h, opened
<1>5. CASE w.n = Len(p)
  <2>1. w.ino \in disk.inodeMap /\ disk.inode[w.ino].type = "file"
    <3> DEFINE v == w
    <3>1. v = Walk(disk, p) /\ v.n = Len(p)
      BY <1>5
    <3> HIDE DEF v
    <3>2. v.ino \in disk.inodeMap \ {0} /\ disk.inode[v.ino].type = "file"
      BY <1>1, <1>2, <3>1, FoundIs
    <3> QED BY <3>2 DEF v
  <2>2. ~IsDirIn(disk, w.ino)
    BY <2>1 DEF IsDirIn
  <2> HIDE DEF w
  <2>3. Return(<<>>, opened(w.ino), Ret(h))
    BY <1>1, <1>5
  <2>4. disk' = disk /\ fds' = opened(w.ino)
    <3>1. Len(<<>>) = 0
      OBVIOUS
    <3> QED BY <2>3, <3>1, AfterNone DEF Return
  <2>5. FilesOpen'
    BY <1>4, <2>1, <2>2, <2>4
  <2> QED BY <1>1, <2>3, <2>5, QuietStays
<1>6. CASE w.n # Len(p) /\ ~create
  BY <1>1, <1>6, FailStays
<1>7. CASE w.n # Len(p) /\ create
  <2>1. Enough(disk, g) /\ InodeNum \ disk.inodeMap # {}
    <3> HIDE DEF g
    <3> QED BY <1>1, <1>7, RoomGives
  <2> DEFINE v == w
             room == free
  <2>2. /\ v = Walk(disk, p) /\ v.n # Len(p) /\ room = findName(disk, v.ino, "", v.place)
        /\ ws = myMakeFile(disk, p[v.n + 1], v.ino, room) /\ g = Growth(disk, v.ino, room)
    BY <1>7
  <2> HIDE DEF w, free, g, ws, v, room, c
  <2>3. PICK q \in Path : /\ Making(disk, q, v.ino, v.place, room, c)
                          /\ q[Len(q)] = p[v.n + 1]
    <3>1. \E q \in Path : /\ Making(disk, q, v.ino, v.place, room, GetFreeInodeNum(disk))
                          /\ q[Len(q)] = p[v.n + 1]
      BY <1>1, <1>2, <2>1, <2>2, MakingAt
    <3> QED BY <3>1 DEF c
  <2>4. ws \in Seq(Writes) /\ Leads(disk, ws, Made(disk, c, "file"), Owned)
    <3>1. Enough(disk, Growth(disk, v.ino, room))
      BY <2>1, <2>2
    <3>2. LET us == myMakeFile(disk, q[Len(q)], v.ino, room)
          IN  us \in Seq(Writes) /\ Leads(disk, us, Made(disk, c, "file"), Owned)
      BY <2>3, <3>1, MakeFileLeads
    <3> QED BY <2>2, <2>3, <3>2
  <2>5. c \in InodeNum \ disk.inodeMap
    BY <2>3, MakingFree
  <2>6. CASE DieIn(ws)
    BY <2>4, <2>6, DieInStays
  <2>7. CASE Return(ws, opened(c), Ret(h))
    <3>1. disk' \in Made(disk, c, "file") /\ fds' = opened(c)
      BY <2>4, <2>7 DEF Return, Leads
    <3>2. c \in disk'.inodeMap /\ ~IsDirIn(disk', c)
      BY <3>1 DEF Made, IsDirIn
    <3>3. FilesOpen'
      <4>1. \A f \in Fd : fds[f].used /\ fds[f].ino \in disk.inodeMap /\ ~IsDirIn(disk, fds[f].ino) =>
                            fds[f].ino \in disk'.inodeMap /\ ~IsDirIn(disk', fds[f].ino)
        BY <1>2, <2>5, <3>1, MadeKeepsOpen
      <4> QED BY <1>4, <3>1, <3>2, <4>1
    <3>4. \A e \in Made(disk, c, "file") : Sound(e)
      BY DEF Made
    <3> QED BY <1>1, <2>4, <2>7, <3>3, <3>4, ReturnStays
  <2> QED BY <1>1, <1>7, <2>6, <2>7
<1> QED BY <1>5, <1>6, <1>7

\* A step that writes nothing and changes of a row the offset at most, or
\* closes it.
LEMMA RowsStay ==
  ASSUME NothingBeyond, FileSystemInv, Calling, TypeOK', NEW table, NEW res, Return(<<>>, table, res),
         \A f \in Fd : table[f].used => fds[f].used /\ table[f].ino = fds[f].ino
  PROVE  FileSystemInv'
<1>1. FilesOpen
  BY CallingIs
<1>2. disk' = disk /\ fds' = table
  <2>1. Len(<<>>) = 0
    OBVIOUS
  <2> QED BY <2>1, AfterNone DEF Return
<1>3. FilesOpen'
  BY <1>1, <1>2 DEF FilesOpen
<1> QED BY <1>3, QuietStays

\* CloseFile keeps it.
LEMMA CloseFileStays ==
  ASSUME NothingBeyond, FileSystemInv, TypeOK', NEW f \in Fd, CloseFile(f)
  PROVE  FileSystemInv'
<1>1. Calling /\ fds \in FdsType
  BY TypeParts DEF CloseFile, FileSystemInv
<1>2. CASE fds[f].used
  <2> DEFINE table == [fds EXCEPT ![f] = ClosedFd]
             res == Ret(0)
  <2>1. Return(<<>>, table, res)
    BY <1>2 DEF CloseFile
  <2>2. \A g \in Fd : table[g].used => fds[g].used /\ table[g].ino = fds[g].ino
    BY <1>1 DEF FdsType, ClosedFd
  <2> HIDE DEF table, res
  <2> QED BY <1>1, <2>1, <2>2, RowsStay
<1>3. CASE ~fds[f].used
  BY <1>1, <1>3, FailStays DEF CloseFile
<1> QED BY <1>2, <1>3

\* ReadFile keeps it.
LEMMA ReadFileKeeps ==
  ASSUME NothingBeyond, FileSystemInv, TypeOK', NEW f \in Fd, NEW m \in WriteSizes, ReadFile(f, m)
  PROVE  FileSystemInv'
<1>1. Calling /\ fds \in FdsType
  BY TypeParts DEF ReadFile, FileSystemInv
<1>2. PICK res : Return(<<>>, [fds EXCEPT ![f].off = fds[f].off + m], res)
  BY DEF ReadFile
<1>3. \A g \in Fd : [fds EXCEPT ![f].off = fds[f].off + m][g].used =>
        fds[g].used /\ [fds EXCEPT ![f].off = fds[f].off + m][g].ino = fds[g].ino
  BY <1>1 DEF FdsType
<1>4. PICK table : /\ Return(<<>>, table, res)
                   /\ \A g \in Fd : table[g].used => fds[g].used /\ table[g].ino = fds[g].ino
  BY <1>2, <1>3
<1> QED BY <1>1, <1>4, RowsStay

\* EnumerateDirStatus keeps it.
LEMMA EnumerateStays ==
  ASSUME NothingBeyond, FileSystemInv, TypeOK', NEW p, EnumerateDirStatus(p)
  PROVE  FileSystemInv'
<1>1. Calling /\ (Fail \/ \E res : Return(<<>>, fds, res))
  BY DEF EnumerateDirStatus
<1>2. CASE Fail
  BY <1>1, <1>2, FailStays
<1>3. CASE \E res : Return(<<>>, fds, res)
  <2>1. PICK res : Return(<<>>, fds, res)
    BY <1>3
  <2>2. Calling /\ \A f \in Fd : fds[f].used => fds[f].used /\ fds[f].ino = fds[f].ino
    BY <1>1
  <2> QED BY <2>1, <2>2, RowsStay
<1> QED BY <1>1, <1>2, <1>3

\* WriteFile keeps it.
LEMMA WriteFileStays ==
  ASSUME NothingBeyond, FileSystemInv, TableInv, TypeOK',
         NEW f \in Fd, NEW m \in WriteSizes, NEW v \in Payload, WriteFile(f, m, v)
  PROVE  FileSystemInv'
<1> DEFINE i == fds[f].ino
<1>0. TypeOK
  BY DEF FileSystemInv
<1>1. PICK start \in Nat, alloc \in Int :
           LET to == start + m - 1
               ws == PutBlocks(disk, i, start, to, v) \o <<PutInfo(alloc, NumBlocks - alloc)>>
           IN  /\ Calling /\ fds[f].used /\ i \in InodeNum
               /\ to \in Nat /\ start <= to /\ to <= MaxBlocks - 1
               /\ Enough(disk, Cardinality(Wanted(disk, disk.inode[i], start .. to)))
               /\ Return(ws, [fds EXCEPT ![f].off = start + m], Ret(m)) \/ DieIn(ws)
  BY <1>0, WriteFileIs
<1> DEFINE to == start + m - 1
           free == NumBlocks - alloc
           ws == PutBlocks(disk, i, start, to, v) \o <<PutInfo(alloc, free)>>
           table == [fds EXCEPT ![f].off = start + m]
           res == Ret(m)
           W == Wanted(disk, disk.inode[i], start .. to)
<1>2. /\ Calling /\ fds[f].used /\ i \in InodeNum
      /\ to \in Nat /\ start <= to /\ to <= MaxBlocks - 1 /\ Enough(disk, Cardinality(W))
      /\ Return(ws, table, res) \/ DieIn(ws)
  BY <1>1
<1>3. Sound(disk) /\ FilesOpen /\ fds \in FdsType
  BY <1>0, <1>2, CallingIs, TypeParts
<1>4. i \in disk.inodeMap /\ ~IsDirIn(disk, i)
  BY <1>2, <1>3 DEF FilesOpen
<1>5. free \in Int
  BY GeometryAssumption
<1>6. disk \in DiskType /\ BlocksSound(disk)
  BY <1>3, SoundParts
<1> HIDE DEF to, free, i, W
<1>7. Filling(disk, i, W, start, to)
  BY <1>2, <1>4, <1>6 DEF Filling, W
<1>8. ws \in Seq(Writes) /\ Leads(disk, ws, Kept(disk), Owned)
  <2>1. LET us == PutBlocks(disk, i, start, to, v) \o <<PutInfo(alloc, free)>>
        IN  us \in Seq(Writes) /\ Leads(disk, us, Kept(disk), Owned)
    BY <1>3, <1>4, <1>5, <1>7, WriteLeads
  <2> QED BY <2>1
<1> HIDE DEF ws, res
<1>9. CASE DieIn(ws)
  BY <1>8, <1>9, DieInStays
<1>10. CASE Return(ws, table, res)
  <2>1. disk' \in Kept(disk) /\ fds' = table
    BY <1>8, <1>10 DEF Return, Leads
  <2>2. disk'.inodeMap = disk.inodeMap /\ \A j \in InodeNum : disk'.inode[j].type = disk.inode[j].type
    BY <2>1 DEF Kept, SameTypes
  <2>3. \A g \in Fd : fds'[g].used => fds[g].used /\ fds'[g].ino = fds[g].ino
    BY <1>3, <2>1 DEF FdsType
  <2>4. \A g \in Fd : fds[g].ino \in InodeNum
    BY <1>3 DEF FdsType
  <2>5. FilesOpen'
    BY <1>3, <2>2, <2>3, <2>4 DEF FilesOpen, IsDirIn
  <2>6. \A e \in Kept(disk) : Sound(e)
    BY DEF Kept
  <2> HIDE DEF table
  <2> QED BY <1>2, <1>8, <1>10, <2>5, <2>6, ReturnStays
<1> QED BY <1>2, <1>9, <1>10

\* A removal: of an inode that no descriptor has, for a disk without it, or one
\* on which a directory gave a block back.
LEMMA RemovedStays ==
  ASSUME NothingBeyond, FileSystemInv, Calling, TypeOK', NEW ws \in Seq(Writes), NEW w, NEW gave, Removed(ws, w, gave),
         NEW c, \A f \in Fd : fds[f].used => fds[f].ino # c,
         Emptied(w.place) /\ gave => Leads(disk, ws, Trees, Owned),
         ~(Emptied(w.place) /\ gave) => Leads(disk, ws, Gone(disk, c), Owned)
  PROVE  FileSystemInv'
<1>1. damage = "none" /\ mounted /\ FilesOpen /\ fds \in FdsType
  BY CallingIs, TypeParts DEF FileSystemInv
<1>2. CASE DieIn(ws)
  <2>1. \E B : Leads(disk, ws, B, Owned)
    OBVIOUS
  <2> QED BY <1>2, <2>1, DieInStays
<1>3. CASE ~DieIn(ws)
  <2>1. /\ disk' = After(disk, ws, Len(ws)) /\ fds' = fds /\ mounted' = mounted
        /\ damage' = IF Emptied(w.place) /\ gave THEN "shrunk" ELSE damage
    BY <1>3 DEF Removed
  <2>2. CASE Emptied(w.place) /\ gave
    <3>1. disk' \in Trees
      BY <2>1, <2>2 DEF Leads
    <3> QED BY <1>1, <2>1, <2>2, <3>1, ShrunkStays
  <2>3. CASE ~(Emptied(w.place) /\ gave)
    <3>1. disk' \in Gone(disk, c)
      BY <2>1, <2>3 DEF Leads
    <3>2. /\ Sound(disk') /\ disk'.inodeMap = disk.inodeMap \ {c}
          /\ \A j \in InodeNum \ {c} : disk'.inode[j].type = disk.inode[j].type
      BY <3>1 DEF Gone
    <3>3. \A g \in Fd : fds[g].ino \in InodeNum
      BY <1>1 DEF FdsType
    <3>4. FilesOpen'
      BY <1>1, <2>1, <3>2, <3>3 DEF FilesOpen, IsDirIn
    <3>5. damage' = "none" /\ mounted'
      BY <1>1, <2>1, <2>3
    <3> QED BY <3>2, <3>4, <3>5, SoundStays
  <2> QED BY <2>2, <2>3
<1> QED BY <1>2, <1>3

\* RemoveFile keeps it.
LEMMA RemoveFileStays ==
  ASSUME NothingBeyond, FileSystemInv, TypeOK', NEW p \in FilePath, RemoveFile(p)
  PROVE  FileSystemInv'
<1> DEFINE w == Walk(disk, p)
           ws == myRemoveFile(disk, w.dir, w.place)
           gave == disk.inode[w.dir].direct[2] = w.place.blk
<1>1. /\ Calling /\ AskedAs(p, "file") /\ p \in Path
      /\ w.n = Len(p) => NoDescriptorOf(w.ino)
      /\ Fail \/ (~(w.n < Len(p)) /\ Removed(ws, w, gave))
  BY DEF RemoveFile, Path
<1>2. Sound(disk) /\ FilesOpen
  BY <1>1, CallingIs
<1>3. disk \in DiskType /\ KindsRight(disk)
  BY <1>2, SoundParts
<1>4. CASE Fail
  BY <1>1, <1>4, FailStays
<1>5. CASE ~(w.n < Len(p)) /\ Removed(ws, w, gave)
  <2> DEFINE v == w
             c == v.ino
  <2>0. w.n \in 0 .. Len(p) /\ Len(p) \in Nat
    BY <1>1, <1>3, WalkTyped, PathIs
  <2>1. v = Walk(disk, p) /\ v.n = Len(p) /\ NoDescriptorOf(v.ino)
    <3> HIDE DEF w
    <3>1. w.n = Len(p)
      BY <1>5, <2>0
    <3> QED BY <1>1, <3>1 DEF w
  <2>2. ws = myRemoveFile(disk, v.dir, v.place) /\ gave = (disk.inode[v.dir].direct[2] = v.place.blk)
    OBVIOUS
  <2>3. Removed(ws, v, gave)
    BY <1>5
  <2> HIDE DEF w, v, ws, gave
  <2>4. /\ v.ino \in disk.inodeMap \ {0} /\ v.ino \in InodeNum /\ v.dir \in InodeNum /\ v.place \in PlaceType
        /\ disk.inode[v.ino].type = "file"
    BY <1>1, <1>2, <2>1, FoundIs
  <2>5. \A x \in Name, b \in InodeNum : Plain(x) => ~Has(disk, v.ino, x, b)
    <3>1. ~IsDirIn(disk, v.ino)
      BY <2>4 DEF IsDirIn
    <3> QED BY <1>3, <2>4, <3>1, FileHasNothing
  <2>6. PICK k, j : Removing(disk, p, v.dir, v.place, v.ino, k, j)
    BY <1>1, <1>2, <2>1, <2>5, RemovingAt
  <2>7. ws \in Seq(Writes)
    BY <1>3, <2>2, <2>4, RemoveFileTyped
  <2>8. /\ FileShrinks(disk, v.dir, v.place) => Leads(disk, ws, Trees, Owned)
        /\ ~FileShrinks(disk, v.dir, v.place) => Leads(disk, ws, Gone(disk, v.ino), Owned)
    BY <2>2, <2>4, <2>6, RemoveFileLeads
  <2>9. FileShrinks(disk, v.dir, v.place) <=> Emptied(v.place) /\ gave
    BY <2>2 DEF FileShrinks
  <2>10. \A f \in Fd : fds[f].used => fds[f].ino # v.ino
    BY <2>1 DEF NoDescriptorOf
  <2>11. /\ Emptied(v.place) /\ gave => Leads(disk, ws, Trees, Owned)
         /\ ~(Emptied(v.place) /\ gave) => Leads(disk, ws, Gone(disk, v.ino), Owned)
    BY <2>8, <2>9
  <2> QED BY <1>1, <2>3, <2>7, <2>10, <2>11, RemovedStays
<1> QED BY <1>1, <1>4, <1>5

\* RemoveDir keeps it.
LEMMA RemoveDirStays ==
  ASSUME NothingBeyond, FileSystemInv, TypeOK', NEW p \in DirPath, RemoveDir(p)
  PROVE  FileSystemInv'
<1> DEFINE w == Walk(disk, p)
           ws == myRemoveDir(disk, w.dir, w.place)
           gave == disk.inode[w.dir].direct[2] = w.place.blk \/ disk.inode[w.dir].indir # 0
<1>1. /\ Calling /\ AskedAs(p, "dir") /\ p \in Path
      /\ \/ Fail
         \/ LookPastEnd(p)
         \/ ~(w.n < Len(p)) /\ IsEmptyDir(disk, w.ino) /\ Removed(ws, w, gave)
  BY DEF RemoveDir, Path
<1>2. Sound(disk) /\ FilesOpen
  BY <1>1, CallingIs
<1>3. disk \in DiskType
  BY <1>2, SoundParts
<1>4. CASE Fail \/ LookPastEnd(p)
  BY <1>1, <1>4, FailStays, LookPastEndStays
<1>5. CASE ~(w.n < Len(p)) /\ IsEmptyDir(disk, w.ino) /\ Removed(ws, w, gave)
  <2> DEFINE v == w
  <2>0. w.n \in 0 .. Len(p) /\ Len(p) \in Nat
    BY <1>1, <1>3, WalkTyped, PathIs
  <2>1. v = Walk(disk, p) /\ v.n = Len(p) /\ IsEmptyDir(disk, v.ino)
    <3> HIDE DEF w
    <3>1. w.n = Len(p)
      BY <1>5, <2>0
    <3> QED BY <1>5, <3>1 DEF w
  <2>2. /\ ws = myRemoveDir(disk, v.dir, v.place)
        /\ gave = (disk.inode[v.dir].direct[2] = v.place.blk \/ disk.inode[v.dir].indir # 0)
    OBVIOUS
  <2>3. Removed(ws, v, gave)
    BY <1>5
  <2> HIDE DEF w, v, ws, gave
  <2>4. /\ v.ino \in disk.inodeMap \ {0} /\ v.ino \in InodeNum /\ v.dir \in InodeNum /\ v.place \in PlaceType
        /\ disk.inode[v.ino].type = "dir"
    BY <1>1, <1>2, <2>1, FoundIs
  <2>5. \A x \in Name, b \in InodeNum : Plain(x) => ~Has(disk, v.ino, x, b)
    BY <1>3, <2>1, <2>4, EmptyHasNothing
  <2>6. PICK k, j : Removing(disk, p, v.dir, v.place, v.ino, k, j)
    BY <1>1, <1>2, <2>1, <2>5, RemovingAt
  <2>7. ws \in Seq(Writes)
    BY <1>3, <2>2, <2>4, RemoveDirTyped
  <2>8. IsDirIn(disk, v.ino)
    BY <2>4 DEF IsDirIn
  <2>9. DirShrinks(disk, v.dir, v.place) <=> Emptied(v.place) /\ gave
    BY <2>2 DEF DirShrinks
  <2>10. Emptied(v.place) /\ gave => Leads(disk, ws, Trees, Owned)
    BY <2>2, <2>6, <2>8, <2>9, RemoveDirShrinks
  <2>11. ~(Emptied(v.place) /\ gave) => Leads(disk, ws, Gone(disk, v.ino), Owned)
    BY <2>2, <2>6, <2>8, <2>9, RemoveDirLeads
  <2>12. \A f \in Fd : fds[f].used => fds[f].ino # v.ino
    BY <1>2, <2>8 DEF FilesOpen
  <2> QED BY <1>1, <2>3, <2>7, <2>10, <2>11, <2>12, RemovedStays
<1> QED BY <1>1, <1>4, <1>5

---------------------------------------------------------------------------
(* The invariant *)

\* The pointers of the disk that a mount makes: one, of the root.
LEMMA FormattedPtrs ==
  ASSUME NEW d, d = FormattedDisk
  PROVE  /\ d \in DiskType /\ d.inodeMap = {0} /\ d.blockMap = {FirstBlock} /\ d.info.inodes = 1
         /\ \A i \in InodeNum \ {0} : d.inode[i] = FreeInode
         /\ \A b \in Block \ {FirstBlock} : d.blk[b] = Zero
         /\ DirInodes(d) = {0} /\ FirstBlock \in Block /\ d.blk[FirstBlock] = DirBlock(Dot)
         /\ \A i \in InodeNum, k \in Pos : PtrOf(d, i, k) = IF i = 0 /\ k = 1 THEN FirstBlock ELSE 0
<1>1. /\ d \in DiskType /\ d.inodeMap = {0} /\ d.blockMap = {FirstBlock} /\ d.info.inodes = 1
      /\ d.inode = [i \in InodeNum |-> IF i = 0 THEN Root ELSE FreeInode]
      /\ d.blk = [b \in Block |-> IF b = FirstBlock THEN DirBlock(Dot) ELSE Zero]
      /\ FirstBlock \in Block /\ 0 \in InodeNum
  BY FormattedIs, FirstAre
<1>2. Root.type = "dir" /\ FreeInode.type = "file"
  BY DEF Root, FreeInode
<1>3. DirInodes(d) = {0}
  BY <1>1, <1>2 DEF DirInodes, IsDirIn
<1>4. /\ Root.indir = 0 /\ FreeInode.indir = 0 /\ Root.direct[1] = FirstBlock /\ Root.direct[2] = 0
      /\ FreeInode.direct[1] = 0 /\ FreeInode.direct[2] = 0
  BY DEF Root, FreeInode
<1>5. ASSUME NEW i \in InodeNum, NEW k \in Pos
      PROVE  PtrOf(d, i, k) = IF i = 0 /\ k = 1 THEN FirstBlock ELSE 0
  <2>1. d.inode[i] = IF i = 0 THEN Root ELSE FreeInode
    BY <1>1
  <2>2. d.inode[i].indir = 0
    BY <1>4, <2>1
  <2>3. \A s \in Slot : IndirectPtrs(d, d.inode[i])[s] = 0
    BY <2>2 DEF IndirectPtrs, NoPtrs
  <2>4. k = 0 \/ k = 1 \/ k = 2 \/ \E s \in Slot : k = s + 2
    <3>1. k \in Nat /\ (k = 0 \/ k \in DataPos)
      BY PosIs DEF DataPos
    <3>2. k \in DataPos => k = 1 \/ k = 2 \/ k - 2 \in Slot
      BY PosIs
    <3>3. (k - 2) + 2 = k
      BY <3>1
    <3> QED BY <3>1, <3>2, <3>3
  <2>5. CASE k = 0
    <3>1. PtrOf(d, i, 0) = d.inode[i].indir
      BY PtrByPos
    <3> QED BY <2>2, <2>5, <3>1
  <2>6. CASE k = 1
    <3>1. PtrOf(d, i, 1) = d.inode[i].direct[1]
      BY PtrByPos
    <3> QED BY <1>4, <2>1, <2>6, <3>1
  <2>7. CASE k = 2
    <3>1. PtrOf(d, i, 2) = d.inode[i].direct[2]
      BY PtrByPos
    <3> QED BY <1>4, <2>1, <2>7, <3>1
  <2>8. CASE \E s \in Slot : k = s + 2
    <3>1. PICK s \in Slot : k = s + 2
      BY <2>8
    <3>2. PtrOf(d, i, s + 2) = IndirectPtrs(d, d.inode[i])[s]
      BY PtrByPos
    <3>3. k # 1
      <4>1. s \in Nat
        BY PosIs
      <4> QED BY <3>1, <4>1
    <3> QED BY <2>3, <3>1, <3>2, <3>3
  <2> QED BY <2>4, <2>5, <2>6, <2>7, <2>8
<1> QED BY <1>1, <1>3, <1>5

\* The entries of the root: itself.
LEMMA FormattedEntries ==
  ASSUME NEW d, d = FormattedDisk
  PROVE  /\ EntryAt(d, 0, 1, 1) = [name |-> ".", ino |-> 0]
         /\ \A x \in Cells(d, 0) : x = <<1, 1>>
         /\ PlainCells(d, 0) = {}
<1>1. /\ FirstBlock \in Block /\ d.blk[FirstBlock] = DirBlock(Dot)
      /\ \A k \in Pos : PtrOf(d, 0, k) = IF k = 1 THEN FirstBlock ELSE 0
  BY FormattedPtrs, FirstAre
<1>2. Ents(DirBlock(Dot)) = Dot
  BY DEF Ents, DirBlock
<1>3. PtrOf(d, 0, 1) = FirstBlock
  BY <1>1, PosIs
<1>4. \A j : EntryAt(d, 0, 1, j) = Dot[j]
  BY <1>1, <1>2, <1>3 DEF EntryAt
<1>5. Dot[1] = [name |-> ".", ino |-> 0] /\ \A j \in Entry \ {1} : Dot[j] = NoEntry
  BY EntryIsBig DEF Dot, NoEntries
<1>6. NoEntry.name = ""
  BY DEF NoEntry
<1>7. ASSUME NEW x \in Cells(d, 0) PROVE x = <<1, 1>>
  <2>1. x \in DataPos \X Entry /\ PtrOf(d, 0, x[1]) # 0 /\ EntryAt(d, 0, x[1], x[2]).name # ""
    BY DEF Cells
  <2>2. x[1] = 1
    BY <1>1, <2>1, PosIs
  <2>3. x[2] = 1
    <3>1. EntryAt(d, 0, x[1], x[2]) = Dot[x[2]] /\ x[2] \in Entry
      BY <1>4, <2>1, <2>2
    <3> HIDE DEF Dot
    <3> QED BY <1>5, <1>6, <2>1, <3>1
  <2>4. x = <<x[1], x[2]>>
    <3>1. x \in DataPos \X Entry
      BY <2>1
    <3>2. PICK a \in DataPos, b \in Entry : x = <<a, b>>
      BY ONLY <3>1
    <3> QED BY ONLY <3>2
  <2> QED BY ONLY <2>2, <2>3, <2>4
<1>8. PlainCells(d, 0) = {}
  <2> SUFFICES ASSUME NEW x \in PlainCells(d, 0) PROVE FALSE
    OBVIOUS
  <2>1. x \in Cells(d, 0) /\ Plain(EntryAt(d, 0, x[1], x[2]).name)
    BY DEF PlainCells
  <2>2. x = <<1, 1>>
    BY <1>7, <2>1
  <2> DEFINE name == EntryAt(d, 0, x[1], x[2]).name
  <2>3. name = "."
    <3>1. x[1] = 1 /\ x[2] = 1
      BY <2>2
    <3>2. EntryAt(d, 0, x[1], x[2]) = Dot[1]
      BY <1>4, <3>1
    <3> QED BY <1>5, <3>2
  <2>4. Plain(name)
    BY <2>1
  <2> HIDE DEF name
  <2> QED BY <2>3, <2>4 DEF Plain
<1> QED BY <1>4, <1>5, <1>7, <1>8

\* It is sound.
LEMMA FormattedSound == Sound(FormattedDisk)
<1> DEFINE d == FormattedDisk
<1>1. /\ d \in DiskType /\ d.inodeMap = {0} /\ d.blockMap = {FirstBlock} /\ d.info.inodes = 1
      /\ \A i \in InodeNum \ {0} : d.inode[i] = FreeInode
      /\ \A b \in Block \ {FirstBlock} : d.blk[b] = Zero
      /\ DirInodes(d) = {0} /\ FirstBlock \in Block /\ d.blk[FirstBlock] = DirBlock(Dot)
      /\ \A i \in InodeNum, k \in Pos : PtrOf(d, i, k) = IF i = 0 /\ k = 1 THEN FirstBlock ELSE 0
  BY FormattedPtrs
<1>2. /\ EntryAt(d, 0, 1, 1) = [name |-> ".", ino |-> 0]
      /\ \A x \in Cells(d, 0) : x = <<1, 1>>
      /\ PlainCells(d, 0) = {}
  BY FormattedEntries
<1> HIDE DEF d
<1>3. OwnedOnce(d) /\ Marked(d)
  BY <1>1 DEF OwnedOnce, Marked
<1>4. FreeBlank(d)
  BY <1>1 DEF FreeBlank
<1>5. FirstBlock # 0
  BY <1>1, BlocksArePositive
<1>6. KindsRight(d)
  <2> SUFFICES ASSUME NEW i \in InodeNum, NEW k \in Pos, PtrOf(d, i, k) # 0
               PROVE  d.blk[PtrOf(d, i, k)].kind \in {"zero", KindOf(d.inode[i], k)}
    BY DEF KindsRight
  <2>1. i = 0 /\ k = 1 /\ PtrOf(d, i, k) = FirstBlock
    BY <1>1
  <2>2. d.inode[0].type = "dir"
    BY <1>1 DEF DirInodes, IsDirIn
  <2>3. DirBlock(Dot).kind = "dir"
    BY DEF DirBlock
  <2>4. KindOf(d.inode[0], 1) = "dir"
    BY <2>2 DEF KindOf
  <2> QED BY <1>1, <2>1, <2>3, <2>4
<1>7. NoHoles(d, 0)
  <2> SUFFICES ASSUME NEW k \in DataPos, NEW l \in DataPos, k < l
               PROVE  PtrOf(d, 0, l) = 0
    BY DEF NoHoles
  <2>1. k \in Nat /\ k # 0 /\ l \in Nat /\ l \in Pos
    BY PosIs DEF DataPos
  <2>2. l # 1
    BY <2>1
  <2> QED BY <1>1, <2>1, <2>2, FirstAre
<1>8. DirsRight(d)
  <2>1. NamesOnce(d, 0)
    BY <1>2 DEF NamesOnce
  <2>2. PtrOf(d, 0, 1) # 0
    BY <1>1, <1>5, PosIs, FirstAre
  <2>3. DotRight(d, 0)
    BY <1>2, <2>2 DEF DotRight
  <2> QED BY <1>1, <2>1, <2>3 DEF DirsRight
<1>9. EntriesOnce(d) /\ EntriesMarked(d) /\ UpsRight(d)
  BY <1>1, <1>2 DEF EntriesOnce, EntriesMarked, UpsRight
<1>10. IsDirIn(d, 0)
  BY <1>1 DEF DirInodes
<1>11. TreeSound(d)
  BY <1>6, <1>8, <1>9, <1>10 DEF TreeSound
<1>12. AllNamed(d, InodesAt(d))
  <2>1. ASSUME NEW p \in Path PROVE ~Reached(d, p)
    <3>1. SUFFICES ASSUME Reached(d, p) PROVE FALSE
      OBVIOUS
    <3> DEFINE i == Ino(d, Up(p))
    <3>2. i \in DirInodes(d) /\ \E x \in PlainCells(d, i) : EntryAt(d, i, x[1], x[2]).ino = Ino(d, p)
      BY <1>1, <1>11, <3>1, ReachedIs
    <3> QED BY <1>1, <1>2, <3>2
  <2>2. DOMAIN InodesAt(d) = {}
    BY <2>1, InodesAtIs
  <2> QED BY <1>1, <2>2 DEF AllNamed
<1>13. d.info.inodes = Cardinality(d.inodeMap)
  BY <1>1, FS_Singleton
<1>14. \A i \in DirInodes(d) : NoHoles(d, i)
  BY <1>1, <1>7
<1> QED BY <1>1, <1>3, <1>4, <1>11, <1>12, <1>13, <1>14 DEF d, Sound, Whole

\* With every inode free no block has an owner.
LEMMA NothingOwned ==
  ASSUME NEW d, d.inode = BlankDisk.inode
  PROVE  OwnedOnce(d)
<1>1. \A i \in InodeNum : d.inode[i] = FreeInode
  BY DEF BlankDisk
<1>2. ASSUME NEW i \in InodeNum, NEW k \in Pos PROVE PtrOf(d, i, k) = 0
  <2> DEFINE n == d.inode[i]
  <2>1. n.indir = 0 /\ n.direct[1] = 0 /\ n.direct[2] = 0
    BY <1>1 DEF FreeInode
  <2>2. IndirectPtrs(d, n) = NoPtrs
    BY <2>1 DEF IndirectPtrs
  <2>3. /\ PtrOf(d, i, 0) = n.indir /\ PtrOf(d, i, 1) = n.direct[1] /\ PtrOf(d, i, 2) = n.direct[2]
        /\ \A s \in Slot : PtrOf(d, i, s + 2) = NoPtrs[s]
    BY <2>2, PtrByPos
  <2>4. k = 0 \/ k = 1 \/ k = 2 \/ \E s \in Slot : k = s + 2
    <3>1. k \in Nat /\ (k = 0 \/ k \in DataPos)
      BY PosIs DEF DataPos
    <3>2. k \in DataPos => k = 1 \/ k = 2 \/ k - 2 \in Slot
      BY PosIs
    <3>3. (k - 2) + 2 = k
      BY <3>1
    <3> QED BY <3>1, <3>2, <3>3
  <2>5. \A s \in Slot : NoPtrs[s] = 0
    BY DEF NoPtrs
  <2> HIDE DEF n
  <2> QED BY <2>1, <2>3, <2>4, <2>5
<1> QED BY <1>2 DEF OwnedOnce

\* Mount and Unmount keep it.
LEMMA MountStays ==
  ASSUME FileSystemInv, TypeOK', MountFormat \/ MountReadWrite \/ Unmount
  PROVE  FileSystemInv'
<1>1. CASE MountFormat
  <2>1. ASSUME disk' = FormattedDisk, damage' = "none", mounted' = TRUE, fds' = NoFds
        PROVE  FileSystemInv'
    <3>1. FilesOpen'
      BY <2>1 DEF FilesOpen, NoFds, ClosedFd
    <3>2. Sound(disk')
      BY <2>1, FormattedSound
    <3> QED BY <2>1, <3>1, <3>2, SoundStays
  <2>2. ASSUME NEW k \in 0 .. Len(FormatWrites) - 1, Dead(Formatting(k), "torn")
        PROVE  FileSystemInv'
    <3>1. Formatting(k) \in DiskType /\ Formatting(k).inode = BlankDisk.inode
      BY UnfinishedFormat, FormatWritesAre
    <3>2. Formatting(k) \in Owned
      BY <3>1, NothingOwned DEF Owned
    <3> QED BY <2>2, <3>2, TornStays
  <2> QED BY <1>1, <2>1, <2>2 DEF MountFormat
<1>2. CASE MountReadWrite
  <2>1. disk' = disk /\ damage' = damage /\ mounted' = TRUE /\ fds' = NoFds /\ Formatted'
    BY <1>2 DEF MountReadWrite, Formatted
  <2>2. FilesOpen' /\ NothingOpen'
    BY <2>1 DEF FilesOpen, NothingOpen, NoFds, ClosedFd
  <2>3. OwnedOnce(disk')
    BY <2>1 DEF FileSystemInv
  <2>4. Formatted' /\ damage' = "none" => Whole(disk', InodesAt(disk'))
    BY <2>1 DEF FileSystemInv, Formatted
  <2>5. Formatted' /\ damage' = "shrunk" => TreeSound(disk')
    BY <2>1 DEF FileSystemInv, Formatted
  <2> QED BY <2>1, <2>2, <2>3, <2>4, <2>5 DEF FileSystemInv
<1>3. CASE Unmount
  BY <1>3, DeadStays DEF Unmount
<1> QED BY <1>1, <1>2, <1>3

\* Every step keeps the invariant.
LEMMA NextStays ==
  ASSUME NothingBeyond, FileSystemInv, TableInv, [Next]_vars
  PROVE  FileSystemInv'
<1>0. TypeOK'
  BY NextTypeKept DEF FileSystemInv
<1>1. CASE \E p \in DirPath : MakeDir(p) \/ RemoveDir(p) \/ EnumerateDirStatus(p)
  BY <1>0, <1>1, MakeDirStays, RemoveDirStays, EnumerateStays
<1>2. CASE \E p \in FilePath : RemoveFile(p) \/ \E create \in BOOLEAN : OpenFile(p, create)
  BY <1>0, <1>2, RemoveFileStays, OpenFileStays
<1>3. CASE \E f \in Fd :
             \/ CloseFile(f)
             \/ \E m \in WriteSizes : ReadFile(f, m) \/ \E v \in Payload : WriteFile(f, m, v)
  BY <1>0, <1>3, CloseFileStays, ReadFileKeeps, WriteFileStays
<1>4. CASE MountFormat \/ MountReadWrite \/ Unmount
  BY <1>0, <1>4, MountStays
<1>5. CASE UNCHANGED vars
  <2>1. disk' = disk /\ fds' = fds /\ mounted' = mounted /\ damage' = damage
    BY <1>5 DEF vars
  <2> QED BY <1>0, <2>1 DEF FileSystemInv, Formatted, FilesOpen, NothingOpen
<1> QED BY <1>1, <1>2, <1>3, <1>4, <1>5 DEF Next

\* The blank disk.
LEMMA InitStays == ASSUME Init PROVE FileSystemInv
<1>1. disk = BlankDisk /\ fds = NoFds /\ mounted = FALSE /\ damage = "none"
  BY DEF Init
<1>2. NothingOpen
  BY <1>1 DEF NothingOpen, NoFds, ClosedFd
<1>3. OwnedOnce(disk)
  BY <1>1, NothingOwned
<1>4. ~Formatted
  BY <1>1 DEF Formatted
<1>5. TypeOK
  BY InitTyped
<1> QED BY <1>1, <1>2, <1>3, <1>4, <1>5 DEF FileSystemInv

\* Between calls, in every geometry, for all paths, buffers and lengths, the
\* disk is right, as FileSystemInv says, where no process goes on after a
\* damage: every call leads from such a disk to one, and wherever it dies the
\* blocks are owned once.
THEOREM FileSystemSound ==
  ASSUME NothingBeyond
  PROVE  Spec => []FileSystemInv
<1>1. Init => FileSystemInv /\ TableInv
  BY InitStays, EmptyTable
<1>2. FileSystemInv /\ TableInv /\ [Next]_vars => FileSystemInv' /\ TableInv'
  BY NextStays, StepRight
<1> QED BY <1>1, <1>2, PTL DEF Spec

---------------------------------------------------------------------------
(* What callers see *)

\* What callers see is on the disk.
ViewRight == at = InodesAt(disk)

\* The theorem for the specification with the view.
LEMMA ViewedSound ==
  ASSUME NothingBeyond
  PROVE  ViewedSpec => [](FileSystemInv /\ ViewRight)
<1>1. ViewedInit => FileSystemInv /\ TableInv /\ ViewRight
  BY InitStays, EmptyTable DEF ViewedInit, ViewInit, ViewRight
<1>2. FileSystemInv /\ TableInv /\ ViewRight /\ [Next /\ ViewNext]_<<vars, view>> =>
        FileSystemInv' /\ TableInv' /\ ViewRight'
  <2> SUFFICES ASSUME FileSystemInv, TableInv, ViewRight, [Next /\ ViewNext]_<<vars, view>>
               PROVE  FileSystemInv' /\ TableInv' /\ ViewRight'
    OBVIOUS
  <2>1. [Next]_vars
    OBVIOUS
  <2>2. ViewRight'
    BY DEF ViewNext, ViewRight, vars, view
  <2> QED BY <2>1, <2>2, NextStays, StepRight
<1> QED BY <1>1, <1>2, PTL DEF ViewedSpec

---------------------------------------------------------------------------
(* The invariants of FileSystemProperties *)

\* The inodes with a name are inodes.
LEMMA NamedTyped ==
  ASSUME TypeOK, ViewRight
  PROVE  Named \subseteq InodeNum
<1>1. disk \in DiskType
  BY DEF TypeOK
<1>2. ASSUME NEW p \in DOMAIN at PROVE at[p] \in InodeNum
  <2>1. p \in Path /\ Reached(disk, p) /\ at[p] = Ino(disk, p)
    BY InodesAtIs DEF ViewRight
  <2> QED BY <1>1, <2>1, ReachedHas
<1>3. 0 \in InodeNum
  BY FirstAre
<1> QED BY <1>2, <1>3 DEF Named

\* Named inodes own their blocks once, as all do.
LEMMA OwnedThen ==
  ASSUME FileSystemInv, ViewRight
  PROVE  BlocksOwnedOnce
<1>1. Named \subseteq InodeNum
  BY NamedTyped DEF FileSystemInv
<1>2. OwnedOnce(disk)
  BY DEF FileSystemInv
<1> SUFFICES ASSUME NEW i \in Named, NEW j \in Named, NEW l \in Links(disk, i),
                    NEW m \in Links(disk, j), l[2] = m[2]
             PROVE  i = j /\ l = m
  BY DEF BlocksOwnedOnce
<1>3. PICK k \in Pos : l = <<k, PtrOf(disk, i, k)>> /\ PtrOf(disk, i, k) # 0
  BY DEF Links
<1>4. PICK n \in Pos : m = <<n, PtrOf(disk, j, n)>> /\ PtrOf(disk, j, n) # 0
  BY DEF Links
<1>5. PtrOf(disk, i, k) = PtrOf(disk, j, n)
  BY <1>3, <1>4
<1>6. i = j /\ k = n
  BY <1>1, <1>2, <1>3, <1>5 DEF OwnedOnce
<1> QED BY <1>3, <1>4, <1>6

\* The bitmaps are what the tree reaches, where the disk is whole.
LEMMA BitmapsThen ==
  ASSUME FileSystemInv, ViewRight
  PROVE  BitmapsRight
<1> SUFFICES ASSUME Formatted, damage = "none"
             PROVE  /\ Linked \subseteq disk.blockMap
                    /\ Named = disk.inodeMap
                    /\ disk.info.inodes = Cardinality(disk.inodeMap)
  BY DEF BitmapsRight
<1>1. Whole(disk, at)
  BY DEF FileSystemInv, ViewRight
<1>2. Named \subseteq InodeNum
  BY NamedTyped DEF FileSystemInv
<1>3. Linked \subseteq disk.blockMap
  <2> SUFFICES ASSUME NEW b \in Linked PROVE b \in disk.blockMap
    OBVIOUS
  <2>1. PICK i \in Named : b \in BlocksOf(disk, i)
    BY DEF Linked
  <2>2. PICK k \in Pos : b = PtrOf(disk, i, k) /\ PtrOf(disk, i, k) # 0
    BY <2>1 DEF BlocksOf, Links
  <2>3. Marked(disk)
    BY <1>1 DEF Whole
  <2> QED BY <1>2, <2>2, <2>3 DEF Marked
<1>4. Named = disk.inodeMap
  BY <1>1 DEF Whole, AllNamed, Named
<1> QED BY <1>1, <1>3, <1>4 DEF Whole

\* The paths are a tree where the disk is sound.
LEMMA TreeThen ==
  ASSUME FileSystemInv, ViewRight
  PROVE  TreeWellFormed
<1> SUFFICES ASSUME Formatted, damage # "torn"
             PROVE  /\ \A p, q \in DOMAIN at : at[p] = at[q] => p = q
                    /\ \A i \in Dirs : NamesOnce(disk, i) /\ DotRight(disk, i)
                    /\ \A p \in DOMAIN at :
                         at[p] \in Dirs => UpRight(disk, at[p], InodeOf(at, Up(p)))
  BY DEF TreeWellFormed
<1>1. disk \in DiskType /\ TreeSound(disk)
  <2>1. damage = "none" \/ damage = "shrunk"
    BY DEF FileSystemInv, TypeOK
  <2>2. CASE damage = "none"
    BY <2>2 DEF FileSystemInv, TypeOK, Whole
  <2>3. CASE damage = "shrunk"
    BY <2>3 DEF FileSystemInv, TypeOK
  <2> QED BY <2>1, <2>2, <2>3
<1>2. Named \subseteq InodeNum
  BY NamedTyped DEF FileSystemInv
<1>3. Dirs \subseteq DirInodes(disk)
  <2>1. IsDirIn(disk, 0)
    BY <1>1 DEF TreeSound
  <2> QED BY <1>2, <2>1 DEF Dirs, DirInodes, IsDirIn
<1>4. ASSUME NEW p \in DOMAIN at
      PROVE  p \in Path /\ Reached(disk, p) /\ at[p] = Ino(disk, p)
  BY <1>4, InodesAtIs DEF ViewRight
<1>5. \A p, q \in DOMAIN at : at[p] = at[q] => p = q
  <2> SUFFICES ASSUME NEW p \in DOMAIN at, NEW q \in DOMAIN at, at[p] = at[q] PROVE p = q
    OBVIOUS
  <2>1. p \in Path /\ Reached(disk, p) /\ at[p] = Ino(disk, p)
    BY <1>4
  <2>2. q \in Path /\ Reached(disk, q) /\ at[q] = Ino(disk, q)
    BY <1>4
  <2>3. Ino(disk, p) = Ino(disk, q)
    BY <2>1, <2>2
  <2> QED BY <1>1, <2>1, <2>2, <2>3, OnePathEach
<1>6. \A i \in Dirs : NamesOnce(disk, i) /\ DotRight(disk, i)
  BY <1>1, <1>3 DEF TreeSound, DirsRight
<1>7. ASSUME NEW p \in DOMAIN at, at[p] \in Dirs
      PROVE  UpRight(disk, at[p], InodeOf(at, Up(p)))
  <2>1. p \in Path /\ Reached(disk, p) /\ at[p] = Ino(disk, p)
    BY <1>4
  <2>2. IsDirIn(disk, Ino(disk, p))
    BY <1>3, <1>7, <2>1 DEF DirInodes
  <2>3. UpRight(disk, Ino(disk, p), InodeOf(InodesAt(disk), Up(p)))
    BY <1>1, <2>1, <2>2, ReachedUpRight
  <2> QED BY <2>1, <2>3 DEF ViewRight
<1> QED BY <1>5, <1>6, <1>7

\* Open descriptors have a path, as every marked inode has.
LEMMA OpenThen ==
  ASSUME FileSystemInv, ViewRight, damage # "shrunk"
  PROVE  DescriptorsLive
<1> SUFFICES ASSUME NEW f \in Fd, fds[f].used
             PROVE  \E p \in DOMAIN at : at[p] = fds[f].ino /\ disk.inode[at[p]].type = "file"
  BY DEF DescriptorsLive
<1>1. ~NothingOpen
  BY DEF NothingOpen
<1>2. Formatted /\ damage = "none"
  BY <1>1 DEF FileSystemInv, TypeOK
<1>3. Whole(disk, at) /\ FilesOpen
  BY <1>2 DEF FileSystemInv, ViewRight
<1>4. fds[f].ino \in disk.inodeMap /\ ~IsDirIn(disk, fds[f].ino)
  BY <1>3 DEF FilesOpen
<1>5. disk.inodeMap = {0} \cup {at[p] : p \in DOMAIN at} /\ IsDirIn(disk, 0)
  BY <1>3 DEF Whole, AllNamed, TreeSound
<1>6. PICK p \in DOMAIN at : at[p] = fds[f].ino
  BY <1>4, <1>5
<1>7. at[p] \in InodeNum
  BY <1>6, NamedTyped DEF FileSystemInv, Named
<1>8. disk.inode[at[p]].type = "file"
  <2>1. disk.inode[at[p]].type \in {"file", "dir"}
    BY <1>7 DEF FileSystemInv, TypeOK, DiskType, InodeType
  <2> QED BY <1>4, <1>6, <2>1 DEF IsDirIn
<1> QED BY <1>6, <1>8

\* No block is ever owned twice.
THEOREM BlocksAlwaysOwnedOnce ==
  ASSUME NothingBeyond
  PROVE  ViewedSpec => []BlocksOwnedOnce
BY ViewedSound, OwnedThen, PTL

\* Between calls the bitmaps are what the tree reaches.
THEOREM BitmapsAlwaysRight ==
  ASSUME NothingBeyond
  PROVE  ViewedSpec => []BitmapsRight
BY ViewedSound, BitmapsThen, PTL

\* The paths are always a tree, also after a directory gave a block back.
THEOREM TreeAlwaysWellFormed ==
  ASSUME NothingBeyond
  PROVE  ViewedSpec => []TreeWellFormed
BY ViewedSound, TreeThen, PTL

\* Open descriptors stay with files that are there, as long as no directory
\* gave a block back.
THEOREM DescriptorsStayLive ==
  ASSUME NothingBeyond
  PROVE  ViewedSpec => [](damage # "shrunk" => DescriptorsLive)
BY ViewedSound, OpenThen, PTL
=============================================================================
