----------------------------- MODULE Directory -----------------------------
(***************************************************************************)
(* Directories of src/disk2/fs.c: finding a name, making and removing the  *)
(* entries of files and directories.  A directory is an inode whose blocks *)
(* hold entries; its first block is direct[1], then direct[2], then those  *)
(* of its indirect block.  (Pointers are counted from 1 here.)             *)
(***************************************************************************)
EXTENDS Disk

Seqs == INSTANCE SequencesExt

\* The largest directory has entries for all inodes, itself and its parent (64
\* inodes, 72 entries).
ASSUME DirectoryAssumption == NumInodes + 2 <= EntsPerBlock * (2 + PtrsPerBlock)

\* A place in a directory: the block blk, read into ents, and an index.
\* full: every block of the directory is full.
Place(found, ents, idx, blk, full) ==
  [found |-> found, ents |-> ents, idx |-> idx, blk |-> blk, full |-> full]

NoPlace == Place(FALSE, NoEntries, 1, DataRegion, FALSE)

\* The first place of inode i with an entry of that name; "" for a free one.
\* Nothing found: the arguments keep what prev holds.
findName(d, i, name, prev) ==
  LET bs == ScannedBlocks(d, i)
      at(k) == {j \in Entry : Ents(d.blk[bs[k]])[j].name = name}
      hits == {k \in DOMAIN bs : at(k) # {}}
  IN  IF hits = {}
        THEN [prev EXCEPT !.found = FALSE, !.full = (name = "" /\ bs # <<>>)]
        ELSE LET k == Least(hits)
             IN  Place(TRUE, Ents(d.blk[bs[k]]), Least(at(k)), bs[k], FALSE)

\* The path followed as far as its names are found: n names, the inode ino
\* of the last one, its place and the directory dir the place is in.
Walk(d, path) ==
  LET w[k \in 0 .. Len(path)] ==
        IF k = 0 THEN [n |-> 0, ino |-> 0, dir |-> 0, place |-> NoPlace]
        ELSE LET v == w[k - 1]
                 p == findName(d, v.ino, path[k], v.place)
             IN  IF v.n = k - 1 /\ p.found
                   THEN [n |-> k, ino |-> p.ents[p.idx].ino, dir |-> v.ino, place |-> p]
                   ELSE v
  IN  w[Len(path)]

---------------------------------------------------------------------------
\* Mutant of Allocate: the bit is not set.
AllocateUnmarked(link, b) == <<link, Count(1, 0)>>

\* Mutant of Allocate: the bit is set first.
AllocateBitFirst(link, b) == <<SetBlockBitmap(b), link, Count(1, 0)>>

\* The writes that link block b where the write link does, and allocate it.
Allocate(link, b) == <<link, SetBlockBitmap(b), Count(1, 0)>>

\* The blocks a directory allocates for a new name at that place.
Growth(d, p, place) ==
  LET n == d.inode[p]
  IN  IF ~place.full THEN 0
      ELSE IF n.direct[2] = 0 THEN 1
      ELSE IF n.indir = 0 THEN 2
      ELSE Cardinality({i \in Slot : IndirectPtrs(d, n)[i] = 0})

\* The writes that grow the full directory p.  Every slot that is left in an
\* indirect block gets a block.
GrowDir(d, p) ==
  LET n == d.inode[p]
      b == GetFreeBlockNum(d, 1)
      c == GetFreeBlockNum(d, 2)
      ptrs == IndirectPtrs(d, n)
      left == {i \in Slot : ptrs[i] = 0}
      new(i) == GetFreeBlockNum(d, Cardinality({j \in left : j <= i}))
      filled(i) == PtrBlock([j \in Slot |-> IF j \in left /\ j <= i THEN new(j) ELSE ptrs[j]])
      fill(i) == Allocate(WriteBlock(n.indir, filled(i)), new(i))
  IN  IF n.direct[2] = 0
        THEN Allocate(PutInode(p, [n EXCEPT !.direct[2] = b]), b)
      ELSE IF n.indir = 0
        THEN Allocate(PutInode(p, [n EXCEPT !.indir = b]), b)
             \o Allocate(WriteBlock(b, PtrBlock([i \in Slot |-> IF i = 1 THEN c ELSE 0])), c)
      ELSE Seqs!FlattenSeq([i \in Slot |-> IF i \in left THEN fill(i) ELSE <<>>])

Grown(d, p, place) == IF place.full THEN GrowDir(d, p) ELSE <<>>

\* Where a new name goes: where findName found room, or the front of the last
\* block the directory was given.
RoomFor(d, p, place) ==
  IF Growth(d, p, place) # 0
    THEN Place(TRUE, NoEntries, 1, GetFreeBlockNum(d, Growth(d, p, place)), FALSE)
    ELSE place

WriteEntry(place, name, ino) ==
  WriteBlock(place.blk,
             DirBlock([place.ents EXCEPT ![place.idx] = [name |-> name, ino |-> ino]]))

myMakeDir(d, name, p, place) ==
  LET c == GetFreeInodeNum(d)
      b == GetFreeBlockNum(d, Growth(d, p, place) + 1)
      dots == [NoEntries EXCEPT ![1] = [name |-> ".", ino |-> c],
                                ![2] = [name |-> "..", ino |-> p]]
      child == [type |-> "dir", direct |-> <<b, 0>>, indir |-> 0]
  IN  Grown(d, p, place) \o
      <<WriteEntry(RoomFor(d, p, place), name, c), WriteBlock(b, DirBlock(dots)),
        PutInode(c, child), SetInodeBitmap(c), SetBlockBitmap(b), Count(1, 1)>>

\* Mutant of myMakeFile: the bit of the inode is not set.
myMakeFileUnmarked(d, name, p, place) ==
  LET c == GetFreeInodeNum(d)
  IN  Grown(d, p, place) \o
      <<WriteEntry(RoomFor(d, p, place), name, c), PutInode(c, FreeInode), Count(0, 1)>>

myMakeFile(d, name, p, place) ==
  LET c == GetFreeInodeNum(d)
  IN  Grown(d, p, place) \o
      <<WriteEntry(RoomFor(d, p, place), name, c), PutInode(c, FreeInode),
        SetInodeBitmap(c), Count(0, 1)>>

---------------------------------------------------------------------------
\* Mutants of Free: the bit is not reset; the block is not zeroed.
FreeMarked(b) == <<WriteBlock(b, Zero), Count(-1, 0)>>
FreeDirty(b) == <<ResetBlockBitmap(b), Count(-1, 0)>>

\* A block given back: zeroed, its bit reset, counted.
Free(b) == <<WriteBlock(b, Zero), ResetBlockBitmap(b), Count(-1, 0)>>

\* The entry is cleared; the last entry behind it, if any, takes its place.
Cleared(place) == [place.ents EXCEPT ![place.idx] = NoEntry]
Emptied(place) == \A j \in Entry : Cleared(place)[j].name = ""

\* Mutants of ClearEntry: the entry that moves stays behind as well, is taken
\* out before it is put in, is taken out only.
ClearEntryCopies(place) ==
  LET behind == {j \in Entry : j > place.idx /\ place.ents[j].name # ""}
      last == CHOOSE j \in behind : \A k \in behind : k <= j
  IN  <<WriteBlock(place.blk, DirBlock(Cleared(place)))>>
      \o IF behind = {} THEN <<>>
         ELSE <<WriteBlock(place.blk,
                  DirBlock([place.ents EXCEPT ![place.idx] = place.ents[last]]))>>

ClearEntryTakesOutFirst(place) ==
  LET behind == {j \in Entry : j > place.idx /\ place.ents[j].name # ""}
      last == CHOOSE j \in behind : \A k \in behind : k <= j
      out == [Cleared(place) EXCEPT ![last] = NoEntry]
  IN  IF behind = {} THEN <<WriteBlock(place.blk, DirBlock(Cleared(place)))>>
      ELSE <<WriteBlock(place.blk, DirBlock(out)),
             WriteBlock(place.blk, DirBlock([out EXCEPT ![place.idx] = place.ents[last]]))>>

ClearEntryTakesOut(place) ==
  LET behind == {j \in Entry : j > place.idx /\ place.ents[j].name # ""}
      last == CHOOSE j \in behind : \A k \in behind : k <= j
  IN  <<WriteBlock(place.blk, DirBlock(IF behind = {} THEN Cleared(place)
                                       ELSE [Cleared(place) EXCEPT ![last] = NoEntry]))>>

ClearEntry(place) ==
  LET behind == {j \in Entry : j > place.idx /\ place.ents[j].name # ""}
      last == CHOOSE j \in behind : \A k \in behind : k <= j
      moved == [Cleared(place) EXCEPT ![place.idx] = place.ents[last], ![last] = NoEntry]
  IN  <<WriteBlock(place.blk, DirBlock(Cleared(place)))>>
      \o IF behind = {} THEN <<>> ELSE <<WriteBlock(place.blk, DirBlock(moved))>>

\* Every block of file c is given back, then its indirect block.
FreeFile(d, c) ==
  LET n == d.inode[c]
      ptrs == IndirectPtrs(d, n)
      bare == [n EXCEPT !.direct = <<0, 0>>]
      upTo(p, i) == [k \in DOMAIN p |-> IF k <= i THEN 0 ELSE p[k]]
      direct(i) == Free(n.direct[i]) \o <<PutInode(c, [n EXCEPT !.direct = upTo(@, i)])>>
      indirect(i) == Free(ptrs[i]) \o <<WriteBlock(n.indir, PtrBlock(upTo(ptrs, i)))>>
  IN  Seqs!FlattenSeq([i \in 1 .. 2 |-> IF n.direct[i] # 0 THEN direct(i) ELSE <<>>]
                 \o [i \in Slot |-> IF ptrs[i] # 0 THEN indirect(i) ELSE <<>>])
      \o IF n.indir = 0 THEN <<>>
         ELSE Free(n.indir) \o <<PutInode(c, [bare EXCEPT !.indir = 0])>>

\* The second block of directory p, when empty, is given back.  The inode is
\* changed in memory only: on the disk it still links the block.
myRemoveFile(d, p, place) ==
  LET c == place.ents[place.idx].ino
  IN  FreeFile(d, c)
      \o <<PutInode(c, FreeInode), ResetInodeBitmap(c), Count(0, -1)>>
      \o ClearEntry(place)
      \o IF Emptied(place) /\ d.inode[p].direct[2] = place.blk
           THEN Free(place.blk) ELSE <<>>

---------------------------------------------------------------------------
\* Mutant of IsEmptyDir: only the first block is looked at.
IsEmptyDirFirstBlock(d, c) ==
  {Ents(d.blk[d.inode[c].direct[1]])[j].name : j \in Entry} \subseteq {"", ".", ".."}

\* Nothing but "." and ".." in the direct blocks, nothing in the indirect.
IsEmptyDir(d, c) ==
  LET n == d.inode[c]
      indir == IndirectPtrs(d, n)
      names(b) == {Ents(d.blk[b])[j].name : j \in Entry}
  IN  /\ \A i \in 1 .. 2 : n.direct[i] # 0 =>
           names(n.direct[i]) \subseteq {"", ".", ".."}
      /\ \A i \in Slot : indir[i] # 0 => names(indir[i]) \subseteq {""}

\* The pointer to the empty block b is dropped, and the last one behind it,
\* or before it but not the first, is moved to its place.  Only when one moves
\* is the indirect block written.  The indirect block itself, when empty, is
\* given back, but the inode that links it is not written.
ShrinkIndirect(d, n, b) ==
  LET ptrs == IndirectPtrs(d, n)
      hit == {i \in Slot : ptrs[i] = b}
      to == IF hit = {} THEN 1 ELSE Least(hit)
      rest == [i \in Slot |-> IF i \in hit THEN 0 ELSE ptrs[i]]
      movable == {i \in Slot : rest[i] # 0 /\ i > (IF i < to THEN 1 ELSE to)}
      from == CHOOSE i \in movable : \A k \in movable : k <= i
  IN  (IF hit = {} THEN <<>> ELSE Free(b))
      \o (IF movable = {} THEN <<>>
          ELSE <<WriteBlock(n.indir,
                   PtrBlock([i \in Slot |-> IF i = to THEN rest[from]
                                            ELSE IF i = from THEN 0 ELSE rest[i]]))>>)
      \o IF rest # NoPtrs THEN <<>>
         ELSE <<ResetBlockBitmap(n.indir), Count(-1, 0), WriteBlock(n.indir, Zero)>>

\* The counters are counted down in memory (one block, one inode) and written
\* at the end; a shrinking directory reads them again in between.
myRemoveDir(d, p, place) ==
  LET c == place.ents[place.idx].ino
      n == d.inode[p]
      shrink == IF ~Emptied(place) THEN <<>>
                ELSE IF n.direct[2] = place.blk THEN Free(place.blk)
                ELSE IF n.indir # 0 THEN ShrinkIndirect(d, n, place.blk)
                ELSE <<>>
  IN  <<WriteBlock(d.inode[c].direct[1], Zero), PutInode(c, FreeInode),
        ResetBlockBitmap(0), ResetInodeBitmap(c)>>
      \o ClearEntry(place) \o shrink
      \o IF \E k \in DOMAIN shrink : shrink[k].part = "info" THEN <<>>
         ELSE <<Count(-1, -1)>>
=============================================================================
