----------------------- MODULE FileSystemProperties -----------------------
(***************************************************************************)
(* What makes the file system of src/disk2 correct.                        *)
(*                                                                         *)
(* Three variables show the state as callers know it: the inode of every   *)
(* path that is there, and the tree and open files of NameSpace.  They are *)
(* functions of the disk and the descriptors.                              *)
(***************************************************************************)
EXTENDS FileSystem

VARIABLES at, tree, open
view == <<at, tree, open>>

\* The inodes of the paths that are there.
InodesAt(d) ==
  LET found == [p \in Path |-> Walk(d, p)]
  IN  [p \in {q \in Path : found[q].n = Len(q)} |-> found[p].ino]

\* The tree a disk holds and the open files.
NodeAt(d, i) ==
  LET n == d.inode[i]
      ptrs == n.direct \o IndirectPtrs(d, n)
  IN  IF n.type = "dir" THEN [kind |-> "dir"]
      ELSE [kind |-> "file",
            data |-> [k \in {x \in 0 .. MaxBlocks - 1 : ptrs[x + 1] # 0} |->
                        d.blk[ptrs[k + 1]]]]

TreeOf(d, a) == [p \in DOMAIN a |-> NodeAt(d, a[p])]

\* (A file that is open but not there any more would have the root's path.)
OpenFiles(table, a) ==
  LET paths(i) == {p \in DOMAIN a : a[p] = i}
      path(i) == IF paths(i) = {} THEN <<>> ELSE CHOOSE p \in paths(i) : TRUE
  IN  [f \in Fd |-> IF table[f].used
                      THEN [path |-> path(table[f].ino), off |-> table[f].off]
                      ELSE [path |-> <<>>, off |-> 0]]

ViewInit == at = InodesAt(disk) /\ tree = TreeOf(disk, at) /\ open = OpenFiles(fds, at)

ViewNext ==
  /\ at' = InodesAt(disk') /\ tree' = TreeOf(disk', at') /\ open' = OpenFiles(fds', at')

ViewedInit == Init /\ ViewInit
ViewedSpec == ViewedInit /\ [][Next /\ ViewNext]_<<vars, view>>

---------------------------------------------------------------------------
Named == {0} \cup {at[p] : p \in DOMAIN at}
Dirs == {i \in Named : i = 0 \/ disk.inode[i].type = "dir"}

\* The pointers of an inode by position: to the indirect block, to the two
\* direct blocks, to those of the indirect block.
Pos == 0 .. MaxBlocks
DataPos == Pos \ {0}

PtrOf(d, i, k) ==
  LET n == d.inode[i]
  IN  IF k = 0 THEN n.indir ELSE IF k <= 2 THEN n.direct[k] ELSE IndirectPtrs(d, n)[k - 2]

Links(d, i) == {<<k, PtrOf(d, i, k)>> : k \in {x \in Pos : PtrOf(d, i, x) # 0}}
BlocksOf(d, i) == {l[2] : l \in Links(d, i)}
Linked == UNION {BlocksOf(disk, i) : i \in Named}
Lost == disk.blockMap \ Linked

\* The entry j behind pointer k of directory i, those that are taken.
EntryAt(d, i, k, j) == Ents(d.blk[PtrOf(d, i, k)])[j]
Cells(d, i) ==
  {x \in DataPos \X Entry : PtrOf(d, i, x[1]) # 0 /\ EntryAt(d, i, x[1], x[2]).name # ""}

\* A directory has no name twice.
NamesOnce(d, i) ==
  \A x, y \in Cells(d, i) :
    EntryAt(d, i, x[1], x[2]).name = EntryAt(d, i, y[1], y[2]).name => x = y

\* Its first two entries are itself and its parent, up.
DotRight(d, i) == PtrOf(d, i, 1) # 0 /\ EntryAt(d, i, 1, 1) = [name |-> ".", ino |-> i]
UpRight(d, i, up) == EntryAt(d, i, 1, 2) = [name |-> "..", ino |-> up]

Up(p) == SubSeq(p, 1, Len(p) - 1)
InodeOf(a, p) == IF p = <<>> THEN 0 ELSE a[p]

Formatted == disk # BlankDisk

---------------------------------------------------------------------------
\* Types of the disk and the history.
Pointer == Block \cup {0}
InodeType == [type : {"file", "dir"}, direct : [1 .. 2 -> Pointer], indir : Pointer]
Name == {"", ".", "..", "?"} \cup UNION {{p[k] : k \in 1 .. Len(p)} : p \in Path}
EntryType == [name : Name, ino : InodeNum]
BlockType ==
  [kind : {"zero"}] \cup [kind : {"dir"}, ents : [Entry -> EntryType]]
  \cup [kind : {"ptr"}, ptrs : [Slot -> Pointer]] \cup [kind : {"data"}, data : Payload]
DiskType ==
  [inode : [InodeNum -> InodeType], blk : [Block -> BlockType],
   blockMap : SUBSET Block, inodeMap : SUBSET InodeNum,
   info : [alloc : Int, free : Int, inodes : Int]]

TypeOK ==
  /\ disk \in DiskType /\ fds \in [Fd -> [used : BOOLEAN, off : Nat, ino : InodeNum]]
  /\ mounted \in BOOLEAN /\ damage \in {"none", "torn", "shrunk"}

\* No block belongs to two inodes, or to one inode twice, whatever order
\* blocks are given back and taken again in (GetFreeBlockNum, the pointers of
\* inodes and indirect blocks), also where a process died half way.
BlocksOwnedOnce ==
  \A i, j \in Named : \A l \in Links(disk, i), m \in Links(disk, j) :
    l[2] = m[2] => i = j /\ l = m

\* Between calls the bitmaps cover what the tree reaches: every linked block
\* is marked, the inodes marked are those that have a name, numAllocInodes
\* counts them; until a directory gives a block back.
BitmapsRight ==
  Formatted /\ damage = "none" =>
    /\ Linked \subseteq disk.blockMap
    /\ Named = disk.inodeMap
    /\ disk.info.inodes = Cardinality(disk.inodeMap)

\* The tree is one: an inode has one name, a directory has no name twice, its
\* first entries are itself and its parent; removing an entry (another moves
\* into its place) and making one keep that.
TreeWellFormed ==
  Formatted /\ damage # "torn" =>
    /\ \A p, q \in DOMAIN at : at[p] = at[q] => p = q
    /\ \A i \in Dirs : NamesOnce(disk, i) /\ DotRight(disk, i)
    /\ \A p \in DOMAIN at : at[p] \in Dirs => UpRight(disk, at[p], InodeOf(at, Up(p)))

\* An open descriptor stays with a file that is there.
DescriptorsLive ==
  \A f \in Fd : fds[f].used =>
    \E p \in DOMAIN at : at[p] = fds[f].ino /\ disk.inode[at[p]].type = "file"

\* Offsets stay where a file has pointers (WriteFile and ReadFile index
\* indirPtrArr with them), and closed descriptors are zero, all of them when
\* no process has the disk: RemoveFile compares the inodes of closed ones too.
DescriptorsSound ==
  \A f \in Fd :
    /\ fds[f].used \in BOOLEAN /\ fds[f].off \in 0 .. MaxBlocks
    /\ fds[f].used => mounted
    /\ ~fds[f].used => fds[f] = ClosedFd

\* What the code does lose.  A directory that is removed leaves its blocks
\* marked: the pointer to the first is zeroed before it is read for the bitmap
\* (fs.c 690, 694), and no others are looked at.  As long as no directory gave
\* a block back the first is all it has.
LostByRemoval ==
  LET removed == {i \in Dirs : disk'.inode[i].type # "dir"}
  IN  IF damage = "none" THEN {disk.inode[i].direct[1] : i \in removed}
      ELSE UNION {BlocksOf(disk, i) : i \in removed}

\* A format that dies between the bit of the root's block and the root's inode
\* (mount.c 48, 58) leaves that block marked.
LostByFormat == IF disk'.inode[0].type = "dir" THEN {} ELSE {GetFreeBlockNum(BlankDisk, 1)}

\* A step, whole or cut off by a death after any of its writes, loses no inode
\* and no other block: calls write pointers before they set bits, and reset
\* bits before they drop pointers.
LosesNothingElse ==
  [][disk' # disk =>
       /\ Lost' \subseteq Lost \cup LostByRemoval \cup LostByFormat
       /\ disk'.inodeMap \ Named' \subseteq disk.inodeMap \ Named]_<<vars, view>>

\* A block that a directory gives back is not linked any more: the comment
\* "unlink, reset data block" of fs.c 558 and 730.
FreedIsUnlinked == damage # "torn" => Linked \subseteq disk.blockMap

---------------------------------------------------------------------------
Names == INSTANCE NameSpace WITH
  Content <- {DataBlock(v) : v \in Payload},
  result <- IF result[1] = "list"
              THEN <<"list", {<<r[1], r[3]>> : r \in result[2]}>> ELSE result

ASSUME NamesAssumption == Names!NameSpaceAssumption

\* Every call, and every death in one, does to the tree, the open files and
\* its caller what the calls promise.
ImplementsNameSpace == Names!Spec
=============================================================================
