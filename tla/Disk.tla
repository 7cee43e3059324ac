------------------------------- MODULE Disk -------------------------------
(***************************************************************************)
(* The disk of src/disk2 and the smallest operations on it.  A disk d is   *)
(* the file system information block, the two bitmaps, the inode list and  *)
(* the blocks of the data region; the file MY_DISK holds it, so it outlives *)
(* the process.                                                            *)
(*                                                                         *)
(* A handler writes the disk block by block.  It is described by the       *)
(* sequence of its writes; a process that dies in it has done the first of *)
(* them.                                                                   *)
(*                                                                         *)
(* A bitmap is the set of the numbers whose bit is set.                    *)
(***************************************************************************)
EXTENDS Integers, Sequences, FiniteSets

CONSTANTS
  NumBlocks,     \* FS_DISK_CAPACITY / BLOCK_SIZE: 512
  DataRegion,    \* the first block of the data region: 19
  NumInodes,     \* inodes in the inode list: 64
  EntsPerBlock,  \* NUM_OF_DIRENT_PER_BLOCK: 4
  PtrsPerBlock,  \* NUM_OF_INDIR_BLOCK_PTR: 16
  CountsBlocks   \* are the numbers of blocks in FileSysInfo kept?  They are not
                 \* bounded, and nothing reads them.

ASSUME GeometryAssumption ==
  /\ NumBlocks \in Nat /\ DataRegion \in Nat \ {0} /\ DataRegion < NumBlocks
  /\ NumInodes \in Nat \ {0}
  /\ EntsPerBlock \in Nat /\ EntsPerBlock >= 2
  /\ PtrsPerBlock \in Nat \ {0} /\ CountsBlocks \in BOOLEAN

Block == DataRegion .. NumBlocks - 1
InodeNum == 0 .. NumInodes - 1
Entry == 1 .. EntsPerBlock
Slot == 1 .. PtrsPerBlock

---------------------------------------------------------------------------
\* What a block of the data region holds.

NoEntry == [name |-> "", ino |-> 0]
NoEntries == [j \in Entry |-> NoEntry]
NoPtrs == [i \in Slot |-> 0]

Zero == [kind |-> "zero"]
DirBlock(e) == [kind |-> "dir", ents |-> e]
PtrBlock(p) == [kind |-> "ptr", ptrs |-> p]
DataBlock(v) == [kind |-> "data", data |-> v]

\* A block read as directory entries, as pointers.  Bytes written for another
\* purpose make entries with names nobody asks for.
Ents(c) ==
  IF c.kind = "dir" THEN c.ents
  ELSE IF c.kind = "zero" THEN NoEntries
  ELSE [j \in Entry |-> [name |-> "?", ino |-> 0]]

Ptrs(c) == IF c.kind = "ptr" THEN c.ptrs ELSE NoPtrs

---------------------------------------------------------------------------
FreeInode == [type |-> "file", direct |-> <<0, 0>>, indir |-> 0]

\* numAllocBlocks, numFreeBlocks and numAllocInodes of FileSysInfo.
Info(alloc, free, inodes) ==
  [alloc |-> IF CountsBlocks THEN alloc ELSE 0,
   free |-> IF CountsBlocks THEN free ELSE 0, inodes |-> inodes]

BlankDisk ==
  [inode |-> [i \in InodeNum |-> FreeInode], blk |-> [b \in Block |-> Zero],
   blockMap |-> {}, inodeMap |-> {}, info |-> Info(0, 0, 0)]

---------------------------------------------------------------------------
\* The writes, one DevWriteBlock each.
Write(part, at, val) == [part |-> part, at |-> at, val |-> val]

WriteBlock(b, c) == Write("blk", b, c)
PutInode(i, n) == Write("inode", i, n)
SetBlockBitmap(b) == Write("set block", b, 0)
ResetBlockBitmap(b) == Write("reset block", b, 0)
SetInodeBitmap(i) == Write("set inode", i, 0)
ResetInodeBitmap(i) == Write("reset inode", i, 0)

\* FileSysInfo read, counted up or down and written.
Count(blocks, inodes) == Write("info", 0, Info(blocks, -blocks, inodes))
\* FileSysInfo written with other numbers of blocks.
PutInfo(alloc, free) == Write("blocks", alloc, free)

Written(d, w) ==
  CASE w.part = "blk" -> [d EXCEPT !.blk[w.at] = w.val]
    [] w.part = "inode" -> [d EXCEPT !.inode[w.at] = w.val]
    [] w.part = "set block" -> [d EXCEPT !.blockMap = @ \cup {w.at}]
    [] w.part = "reset block" -> [d EXCEPT !.blockMap = @ \ {w.at}]
    [] w.part = "set inode" -> [d EXCEPT !.inodeMap = @ \cup {w.at}]
    [] w.part = "reset inode" -> [d EXCEPT !.inodeMap = @ \ {w.at}]
    [] w.part = "info" -> [d EXCEPT !.info = Info(@.alloc + w.val.alloc,
                                       @.free + w.val.free, @.inodes + w.val.inodes)]
    [] w.part = "blocks" -> [d EXCEPT !.info = Info(w.at, w.val, @.inodes)]

\* The disk after the first n of the writes ws.
After(d, ws, n) ==
  LET after[k \in 0 .. n] == IF k = 0 THEN d ELSE Written(after[k - 1], ws[k])
  IN  after[n]

---------------------------------------------------------------------------
\* The number the k-th call of GetFreeBlockNum returns in a handler that sets
\* the bit of each: the k-th zero bit.  With every bit set the code returns
\* nothing; callers stop short of that, see Room in FileSystem.
Least(S) == CHOOSE n \in S : \A m \in S : n <= m

\* Mutant of GetFreeBlockNum: the bitmap is not read again in a handler.
GetFreeBlockNumStale(d, k) == Least(Block \ d.blockMap)

GetFreeBlockNum(d, k) ==
  LET free == Block \ d.blockMap
  IN  CHOOSE b \in free : Cardinality({c \in free : c < b}) = k - 1

GetFreeInodeNum(d) == Least(InodeNum \ d.inodeMap)

---------------------------------------------------------------------------
\* The blocks of an inode in order, up to the first zero pointer among the
\* direct ones and again among the indirect ones: where names are looked up.
UpToZero(p) ==
  LET n == Cardinality({i \in DOMAIN p : \A k \in 1 .. i : p[k] # 0})
  IN  [i \in 1 .. n |-> p[i]]

IndirectPtrs(d, n) == IF n.indir = 0 THEN NoPtrs ELSE Ptrs(d.blk[n.indir])

ScannedBlocks(d, i) ==
  LET n == d.inode[i]
  IN  UpToZero(n.direct) \o UpToZero(IndirectPtrs(d, n))

\* All blocks an inode links: its data or directory blocks in order, and the
\* block of indirect pointers.
LinkedData(d, i) ==
  SelectSeq(d.inode[i].direct \o IndirectPtrs(d, d.inode[i]), LAMBDA b : b # 0)
=============================================================================
