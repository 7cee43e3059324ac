------------------------ MODULE FileSystemInvariant ------------------------
(***************************************************************************)
(* Why the disk of src/disk2 is right between calls: the inductive         *)
(* invariant behind the invariants of FileSystemProperties, where no call  *)
(* goes on after a damage.                                                 *)
(***************************************************************************)
EXTENDS FileSystemProperties

\* No process goes on with a disk on which a call died or a directory gave a
\* block back.
NothingBeyond == Beyond = {}

---------------------------------------------------------------------------
(* Blocks *)

\* No two pointers lead to one block, whatever inodes they are of.
OwnedOnce(d) ==
  \A i \in InodeNum, k \in Pos : PtrOf(d, i, k) # 0 =>
    \A j \in InodeNum, l \in Pos : PtrOf(d, j, l) = PtrOf(d, i, k) => i = j /\ k = l

Marked(d) == \A i \in InodeNum, k \in Pos : PtrOf(d, i, k) # 0 => PtrOf(d, i, k) \in d.blockMap

\* What is not marked is as good as new.
FreeBlank(d) ==
  /\ \A b \in Block \ d.blockMap : d.blk[b] = Zero
  /\ \A i \in InodeNum \ d.inodeMap : d.inode[i] = FreeInode

\* What the blocks of a file or directory hold.
KindOf(n, k) == IF k = 0 THEN "ptr" ELSE IF n.type = "dir" THEN "dir" ELSE "data"
KindsRight(d) ==
  \A i \in InodeNum, k \in Pos : PtrOf(d, i, k) # 0 =>
    d.blk[PtrOf(d, i, k)].kind \in {"zero", KindOf(d.inode[i], k)}

---------------------------------------------------------------------------
(* Directories *)

IsDirIn(d, i) == d.inode[i].type = "dir"
DirInodes(d) == {i \in InodeNum : IsDirIn(d, i)}

\* A directory has no hole in its pointers, so that findName, which stops at
\* zeros, sees all of it.
NoHoles(d, i) ==
  \A k \in DataPos, l \in DataPos : k < l /\ PtrOf(d, i, k) = 0 => PtrOf(d, i, l) = 0

DirsRight(d) == \A i \in DirInodes(d) : NamesOnce(d, i) /\ DotRight(d, i)

\* An inode has one entry, in one directory, apart from dots, and is marked;
\* the root has none.
PlainCells(d, i) == {x \in Cells(d, i) : Plain(EntryAt(d, i, x[1], x[2]).name)}
EntriesOnce(d) ==
  \A i, j \in DirInodes(d) : \A x \in PlainCells(d, i), y \in PlainCells(d, j) :
    EntryAt(d, i, x[1], x[2]).ino = EntryAt(d, j, y[1], y[2]).ino => i = j /\ x = y
EntriesMarked(d) ==
  \A i \in DirInodes(d) : \A x \in PlainCells(d, i) :
    EntryAt(d, i, x[1], x[2]).ino \in d.inodeMap \ {0}

---------------------------------------------------------------------------
(* The tree *)

\* A directory's ".." is the directory that names it.
UpsRight(d) ==
  \A i \in DirInodes(d) : \A x \in PlainCells(d, i) :
    LET c == EntryAt(d, i, x[1], x[2]).ino
    IN  IsDirIn(d, c) => UpRight(d, c, i)

\* What makes the paths a tree, also after a directory gave a block back.
TreeSound(d) ==
  /\ IsDirIn(d, 0) /\ KindsRight(d) /\ DirsRight(d)
  /\ EntriesOnce(d) /\ EntriesMarked(d) /\ UpsRight(d)

\* a, the inodes of the paths, leaves none out that is marked.
AllNamed(d, a) == d.inodeMap = {0} \cup {a[p] : p \in DOMAIN a}

\* The disk between calls that all went well.
Whole(d, a) ==
  /\ Marked(d) /\ FreeBlank(d)
  /\ \A i \in DirInodes(d) : NoHoles(d, i)
  /\ TreeSound(d) /\ AllNamed(d, a)
  /\ d.info.inodes = Cardinality(d.inodeMap)

---------------------------------------------------------------------------
(* Open files *)

FilesOpen == \A f \in Fd : fds[f].used =>
               fds[f].ino \in disk.inodeMap /\ ~IsDirIn(disk, fds[f].ino)

NothingOpen == \A f \in Fd : ~fds[f].used

\* The inductive invariant.
FileSystemInv ==
  /\ TypeOK /\ OwnedOnce(disk)
  /\ mounted => Formatted
  /\ ~mounted => NothingOpen
  /\ Formatted /\ damage = "none" => Whole(disk, InodesAt(disk)) /\ FilesOpen
  /\ Formatted /\ damage = "shrunk" => TreeSound(disk)
  /\ damage = "torn" => NothingOpen
=============================================================================
