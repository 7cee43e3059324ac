---------------------------- MODULE FileSystem ----------------------------
(***************************************************************************)
(* The file system of src/disk2: the calls of fs.h by one process at a     *)
(* time, on a disk that survives it.  Every call is one step, or the death *)
(* of the process after some of the call's writes.                         *)
(*                                                                         *)
(* A path is a sequence of names.  A write always fills whole blocks from  *)
(* a block boundary, so that offsets and lengths count blocks, and the     *)
(* data is what the caller's buffer begins with: every block gets it.      *)
(*                                                                         *)
(* Callers keep to what testcase.c does: paths go through directories,     *)
(* calls for files are not made on directories nor the other way round, a  *)
(* file is closed before it is removed, descriptors and blocks suffice.    *)
(***************************************************************************)
EXTENDS Directory

CONSTANTS
  MaxFd,       \* MAX_FD_ENTRY_LEN: 64
  DirPath,     \* the paths calls for directories are made with
  FilePath,    \* the paths calls for files are made with
  Payload,     \* what buffers begin with
  WriteSizes,  \* the lengths of writes, in blocks
  Deaths,      \* may the process die inside a call
  Beyond       \* the damages after which calls go on, see damage

ASSUME FileSystemAssumption ==
  /\ MaxFd \in Nat \ {0}
  /\ WriteSizes \subseteq Nat \ {0} /\ Deaths \in BOOLEAN
  /\ Beyond \subseteq {"torn", "shrunk"}

\* Names are asked for as testcase.c does: none is empty, "." or "..", and none
\* is what a block that holds no entries reads as, see Ents.
Plain(name) == name \notin {"", ".", "..", "?"}

ASSUME PathAssumption ==
  \A p \in DirPath \cup FilePath : \A k \in 1 .. Len(p) : Plain(p[k])

VARIABLES
  disk,     \* MY_DISK
  fds,      \* pFileDescTable
  mounted,  \* a process has mounted the disk
  result,   \* what the last call returned
  damage    \* history: "torn", the process died between two writes of a call;
            \* "shrunk", a directory gave a block back

vars == <<disk, fds, mounted, result, damage>>

Fd == 0 .. MaxFd - 1
ClosedFd == [used |-> FALSE, off |-> 0, ino |-> 0]
NoFds == [f \in Fd |-> ClosedFd]
FreeFds == {f \in Fd : ~fds[f].used}
MaxBlocks == 2 + PtrsPerBlock
Path == DirPath \cup FilePath

Ret(x) == <<"ret", x>>

---------------------------------------------------------------------------
\* How a call with the writes ws ends: it returns, or the process dies after
\* some of them.
Return(ws, table, res) ==
  /\ disk' = After(disk, ws, Len(ws)) /\ fds' = table /\ result' = res
  /\ UNCHANGED <<mounted, damage>>

Dead(d, harm) ==
  /\ disk' = d /\ damage' = harm
  /\ mounted' = FALSE /\ fds' = NoFds /\ result' = Ret(0)

DieIn(ws) == Deaths /\ \E k \in 1 .. Len(ws) - 1 : Dead(After(disk, ws, k), "torn")

Fail == Return(<<>>, fds, Ret(-1))

\* A name past the last one of the path is looked up: memory beyond the array
\* of names, NULL or not a pointer, but for paths of one name.
LookPastEnd(path) == Fail \/ (Len(path) > 1 /\ Dead(disk, damage))

---------------------------------------------------------------------------
\* What callers keep to.
Calling == mounted /\ (damage = "none" \/ damage \in Beyond)

Room(blocks, inodes) ==
  /\ Cardinality(Block \ disk.blockMap) >= blocks
  /\ Cardinality(InodeNum \ disk.inodeMap) >= inodes

AskedAs(path, type) ==
  \A k \in 1 .. Len(path) :
    LET w == Walk(disk, SubSeq(path, 1, k))
    IN  w.n = k =>
          disk.inode[w.ino].type = (IF k < Len(path) THEN "dir" ELSE type)

NoDescriptorOf(ino) == \A f \in Fd : fds[f].used => fds[f].ino # ino

---------------------------------------------------------------------------
\* A file or directory is made under the first name that is not found, be it
\* the last one or not.
MakeDir(path) ==
  LET w == Walk(disk, path)
      free == findName(disk, w.ino, "", w.place)
      ws == myMakeDir(disk, path[w.n + 1], w.ino, free)
  IN  /\ Calling /\ AskedAs(path, "dir")
      /\ IF w.n = Len(path) THEN LookPastEnd(path)
         ELSE /\ Room(Growth(disk, w.ino, free) + 1, 1)
              /\ Return(ws, fds, Ret(0)) \/ DieIn(ws)

OpenFile(path, create) ==
  LET w == Walk(disk, path)
      free == findName(disk, w.ino, "", w.place)
      ws == myMakeFile(disk, path[w.n + 1], w.ino, free)
      f == Least(FreeFds)
      opened(ino) == [fds EXCEPT ![f] = [used |-> TRUE, off |-> 0, ino |-> ino]]
  IN  /\ Calling /\ AskedAs(path, "file") /\ FreeFds # {}
      /\ IF w.n = Len(path) THEN Return(<<>>, opened(w.ino), Ret(f))
         ELSE IF ~create THEN Fail
         ELSE /\ Room(Growth(disk, w.ino, free), 1)
              /\ Return(ws, opened(GetFreeInodeNum(disk)), Ret(f)) \/ DieIn(ws)

\* Mutant of CloseFile: offset and inode stay.
CloseFileUnusedOnly(f) ==
  /\ Calling
  /\ IF fds[f].used THEN Return(<<>>, [fds EXCEPT ![f].used = FALSE], Ret(0)) ELSE Fail

CloseFile(f) ==
  /\ Calling
  /\ IF fds[f].used
       THEN Return(<<>>, [fds EXCEPT ![f] = ClosedFd], Ret(0))
       ELSE Fail

---------------------------------------------------------------------------
\* The removals.  Afterwards a directory may have given a block back.
Removed(ws, w, gaveBack) ==
  \/ /\ disk' = After(disk, ws, Len(ws)) /\ result' = Ret(0)
     /\ damage' = IF Emptied(w.place) /\ gaveBack THEN "shrunk" ELSE damage
     /\ UNCHANGED <<fds, mounted>>
  \/ DieIn(ws)

\* The descriptors are searched for the inode of the directory, which in
\* closed descriptors is the root's.
RemoveFile(path) ==
  LET w == Walk(disk, path)
      n == disk.inode[w.dir]
  IN  /\ Calling /\ AskedAs(path, "file")
      /\ w.n = Len(path) => NoDescriptorOf(w.ino)
      /\ IF w.n < Len(path) \/ \E f \in Fd : fds[f].ino = w.dir THEN Fail
         ELSE Removed(myRemoveFile(disk, w.dir, w.place), w,
                      n.direct[2] = w.place.blk)

RemoveDir(path) ==
  LET w == Walk(disk, path)
      n == disk.inode[w.dir]
  IN  /\ Calling /\ AskedAs(path, "dir")
      /\ IF w.n < Len(path) THEN Fail
         ELSE IF ~IsEmptyDir(disk, w.ino) THEN LookPastEnd(path)
         ELSE Removed(myRemoveDir(disk, w.dir, w.place), w,
                      n.direct[2] = w.place.blk \/ n.indir # 0)

---------------------------------------------------------------------------
\* The pointer of inode n for index k of the file.
PtrAt(d, n, k) == IF k < 2 THEN n.direct[k + 1] ELSE IndirectPtrs(d, n)[k - 1]

\* What a write to the indices is of file i has to allocate, in this order:
\* 2k for the block of indirect pointers before index k, 2k + 1 for index k.
Wanted(d, n, is) ==
  {2 * k + 1 : k \in {x \in is : PtrAt(d, n, x) = 0}}
  \cup (IF n.indir # 0 THEN {} ELSE {2 * k : k \in {x \in is : x >= 2 /\
                                       \A y \in is : y < 2 \/ x <= y}})

\* The writes that put v into the blocks of file i with indices from .. to.
PutBlocks(d, i, from, to, v) ==
  LET n == d.inode[i]
      ptrs == IndirectPtrs(d, n)
      wanted == Wanted(d, n, from .. to)
      new(w) == GetFreeBlockNum(d, Cardinality({x \in wanted : x <= w}))
      now(w, old, u) == IF w \in wanted /\ w <= u THEN new(w) ELSE old
      indir(u) == IF \E w \in wanted : w % 2 = 0 /\ w <= u
                    THEN new(CHOOSE w \in wanted : w % 2 = 0) ELSE n.indir
      inode(u) == [n EXCEPT !.direct = <<now(1, @[1], u), now(3, @[2], u)>>,
                            !.indir = indir(u)]
      link(u) == IF u < 4 \/ u % 2 = 0 THEN PutInode(i, inode(u))
                 ELSE WriteBlock(indir(u),
                        PtrBlock([s \in Slot |-> now(2 * s + 3, ptrs[s], u)]))
      alloc(u) == IF u \in wanted THEN Allocate(link(u), new(u)) ELSE <<>>
      put(k) == alloc(2 * k) \o alloc(2 * k + 1)
                \o <<WriteBlock(now(2 * k + 1, PtrAt(d, n, k), 2 * k + 1), DataBlock(v))>>
  IN  Seqs!FlattenSeq([x \in 1 .. to - from + 1 |-> put(from + x - 1)])

\* A write that would end behind the largest file starts again at the front;
\* such writes are no longer than the direct blocks here.  At the end
\* numAllocBlocks, counted up for each block already, is corrected by count,
\* the blocks allocated (over-writing counts those used again too), less
\* preCount, those before the offset.
WriteFile(f, m, v) ==
  LET i == fds[f].ino
      off == fds[f].off
      appends == off + m <= MaxBlocks
      start == IF appends THEN off ELSE 0
      allocated == Cardinality(Wanted(disk, disk.inode[i], start .. start + m - 1))
      count == IF appends THEN allocated ELSE allocated + m
      alloc == disk.info.alloc + allocated - (off - count)
      ws == PutBlocks(disk, i, start, start + m - 1, v)
            \o <<PutInfo(alloc, NumBlocks - alloc)>>
  IN  /\ Calling /\ fds[f].used /\ Room(allocated, 0)
      /\ appends \/ m <= 2
      /\ \/ Return(ws, [fds EXCEPT ![f].off = start + m], Ret(m))
         \/ DieIn(ws)

\* Block 0 read as pointers: the fields of FileSysInfo, then zeros.  (The
\* capacity counts bytes, PtrsPerBlock integers of 4 in a block.)
InfoPtrs(d) ==
  LET field == <<NumBlocks, 0, NumBlocks * 4 * PtrsPerBlock, d.info.alloc, d.info.free,
                 d.info.inodes, 1, 2, 3, DataRegion>>
  IN  [s \in Slot |-> IF s \in DOMAIN field THEN field[s] ELSE 0]

\* What a read of block b gets: a block in front of the data region is the
\* file system's own; behind the end of the disk nothing is read, and the
\* buffer keeps what it held.  (A seek to a negative number fails: what is read
\* is the block behind the pointers, which also is the file system's.)
Contents(d, b) ==
  IF b \in Block THEN d.blk[b]
  ELSE [kind |-> IF b < NumBlocks THEN "system" ELSE "unread"]

\* A zero pointer is followed like any other, the one to the pointers too.
ContentAt(d, i, k) ==
  LET n == d.inode[i]
      missing == k >= 2 /\ n.indir = 0
  IN  Contents(d, IF missing THEN InfoPtrs(d)[k - 1] ELSE PtrAt(d, n, k))

\* Mutant of ReadFile: the offset stays.
ReadFileStays(f, m) ==
  LET off == fds[f].off
  IN  /\ Calling /\ fds[f].used /\ off + m <= MaxBlocks
      /\ Return(<<>>, fds,
                <<"read", [k \in 1 .. m |-> ContentAt(disk, fds[f].ino, off + k - 1)]>>)

ReadFile(f, m) ==
  LET off == fds[f].off
  IN  /\ Calling /\ fds[f].used /\ off + m <= MaxBlocks
      /\ Return(<<>>, [fds EXCEPT ![f].off = off + m],
                <<"read", [k \in 1 .. m |-> ContentAt(disk, fds[f].ino, off + k - 1)]>>)

---------------------------------------------------------------------------
\* The names, inodes and types in all blocks the directory links.
EnumerateDirStatus(path) ==
  LET w == Walk(disk, path)
      bs == LinkedData(disk, w.ino)
      ent(x) == Ents(disk.blk[bs[x[1]]])[x[2]]
      listed == {x \in (DOMAIN bs) \X Entry : ent(x).name # ""}
  IN  /\ Calling /\ AskedAs(path, "dir")
      /\ IF w.n < Len(path) THEN Fail
         ELSE Return(<<>>, fds, <<"list",
                {<<ent(x).name, ent(x).ino, disk.inode[ent(x).ino].type>> : x \in listed}>>)

---------------------------------------------------------------------------
\* The writes of a format on a disk of zeros, where counting up sets the
\* numbers.  The root gets the first free block and inode; it has no "..".
\* The bit of the block is set before the root's inode links it.
FormatWrites ==
  LET b == GetFreeBlockNum(BlankDisk, 1)
      i == GetFreeInodeNum(BlankDisk)
      dot == [NoEntries EXCEPT ![1] = [name |-> ".", ino |-> i]]
      root == [type |-> "dir", direct |-> <<b, 0>>, indir |-> 0]
  IN  <<WriteBlock(b, DirBlock(dot)),
        Write("info", 0, Info(1, NumBlocks - (DataRegion + 1), 1)),
        SetBlockBitmap(b), SetInodeBitmap(i), PutInode(i, root)>>

Formatting(k) == After(BlankDisk, FormatWrites, k)
FormattedDisk == Formatting(Len(FormatWrites))

\* MY_DISK is emptied and filled with zeros first: a process that dies before
\* the first of FormatWrites leaves zeros or fewer, which nobody mounts.
MountFormat ==
  /\ ~mounted
  /\ \/ /\ disk' = FormattedDisk /\ damage' = "none"
        /\ mounted' = TRUE /\ fds' = NoFds /\ result' = Ret(0)
     \/ Deaths /\ \E k \in 0 .. Len(FormatWrites) - 1 : Dead(Formatting(k), "torn")

MountReadWrite ==
  /\ ~mounted /\ disk # BlankDisk
  /\ mounted' = TRUE /\ fds' = NoFds /\ result' = Ret(0)
  /\ UNCHANGED <<disk, damage>>

\* Also the end of the process, at a call's end or by a signal between calls.
Unmount == mounted /\ Dead(disk, damage)

---------------------------------------------------------------------------
Init ==
  /\ disk = BlankDisk /\ fds = NoFds /\ mounted = FALSE
  /\ result = Ret(0) /\ damage = "none"

Next ==
  \/ \E p \in DirPath : MakeDir(p) \/ RemoveDir(p) \/ EnumerateDirStatus(p)
  \/ \E p \in FilePath : RemoveFile(p) \/ \E create \in BOOLEAN : OpenFile(p, create)
  \/ \E f \in Fd :
       \/ CloseFile(f)
       \/ \E m \in WriteSizes : ReadFile(f, m) \/ \E v \in Payload : WriteFile(f, m, v)
  \/ MountFormat \/ MountReadWrite \/ Unmount

Spec == Init /\ [][Next]_vars
=============================================================================
