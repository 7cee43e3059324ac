----------------------------- MODULE NameSpace -----------------------------
(***************************************************************************)
(* What the calls of src/disk2/fs.h promise: a tree of directories and     *)
(* files with contents, and open files with offsets.  Nothing here of      *)
(* blocks, inodes and bitmaps; FileSystem implements this.                 *)
(*                                                                         *)
(* A path is a sequence of names; the root, <<>>, is always there.  Files  *)
(* hold blocks of data; offsets count blocks.                              *)
(***************************************************************************)
EXTENDS Integers, Sequences

CONSTANTS
  Path,       \* the paths calls are made with
  Fd,         \* the descriptors: numbers
  Content,    \* what a block of a file can hold
  WriteSizes, \* the lengths of writes, in blocks
  MaxBlocks   \* the blocks of the largest file

NameSpaceAssumption ==
  /\ Path \subseteq Seq(STRING)
  /\ \A p \in Path : p # <<>> /\ \A n \in 1 .. Len(p) : SubSeq(p, 1, n) \in Path
  /\ Fd \subseteq Nat /\ Fd # {} /\ MaxBlocks \in Nat
  /\ WriteSizes \subseteq Nat \ {0}

VARIABLES
  tree,   \* the paths there are, each with its node
  open,   \* per descriptor, a path and an offset, or Closed
  result  \* what the last call returned

vars == <<tree, open, result>>

Dir == [kind |-> "dir"]
File(data) == [kind |-> "file", data |-> data]
NoData == [k \in {} |-> 0]
Closed == [path |-> <<>>, off |-> 0]
Ret(x) == <<"ret", x>>

Parent(p) == SubSeq(p, 1, Len(p) - 1)
IsDir(p) == p = <<>> \/ (p \in DOMAIN tree /\ tree[p].kind = "dir")
IsFile(p) == p \in DOMAIN tree /\ tree[p].kind = "file"
Children(p) == {q \in DOMAIN tree : Parent(q) = p}

\* The ways to q up to each of its names; the first name that is missing is
\* the one that gets made.
WaysTo(q) == {SubSeq(q, 1, n) : n \in 1 .. Len(q)}
Missing(p) == p \notin DOMAIN tree /\ IsDir(Parent(p))

With(p, node) == [q \in DOMAIN tree \cup {p} |-> IF q = p THEN node ELSE tree[q]]
Pruned(p) == [q \in DOMAIN tree \ {p} |-> tree[q]]

NothingOpen == [f \in Fd |-> Closed]
FirstClosed(f) == open[f] = Closed /\ \A g \in Fd : g < f => open[g] # Closed
Fails == result' = Ret(-1) /\ UNCHANGED <<tree, open>>
---------------------------------------------------------------------------
MakeDir(q) ==
  \/ q \in DOMAIN tree /\ Fails
  \/ \E p \in WaysTo(q) :
       /\ Missing(p) /\ tree' = With(p, Dir)
       /\ result' = Ret(0) /\ UNCHANGED open

OpenFile(q) ==
  \/ /\ IsFile(q) /\ UNCHANGED tree
     /\ \E f \in Fd : /\ FirstClosed(f) /\ result' = Ret(f)
                      /\ open' = [open EXCEPT ![f] = [path |-> q, off |-> 0]]
  \/ q \notin DOMAIN tree /\ Fails
  \/ \E p \in WaysTo(q), f \in Fd :
       /\ Missing(p) /\ FirstClosed(f) /\ result' = Ret(f)
       /\ tree' = With(p, File(NoData))
       /\ open' = [open EXCEPT ![f] = [path |-> p, off |-> 0]]

CloseFile(f) ==
  \/ open[f] = Closed /\ Fails
  \/ /\ open[f] # Closed /\ open' = [open EXCEPT ![f] = Closed]
     /\ result' = Ret(0) /\ UNCHANGED tree

\* Files of the root directory are not removed while a descriptor is closed.
RemoveFile(p) ==
  \/ (p \notin DOMAIN tree \/ Parent(p) = <<>>) /\ Fails
  \/ /\ IsFile(p) /\ \A f \in Fd : open[f].path # p
     /\ tree' = Pruned(p) /\ result' = Ret(0) /\ UNCHANGED open

RemoveDir(p) ==
  \/ (p \notin DOMAIN tree \/ Children(p) # {}) /\ Fails
  \/ /\ p \in DOMAIN tree /\ IsDir(p) /\ Children(p) = {}
     /\ tree' = Pruned(p) /\ result' = Ret(0) /\ UNCHANGED open

\* A write that does not fit behind the offset goes to the front.
WriteFile(f, m, c) ==
  LET p == open[f].path
      start == IF open[f].off + m <= MaxBlocks THEN open[f].off ELSE 0
      written == start .. start + m - 1
  IN  /\ IsFile(p)
      /\ tree' = With(p, File([k \in DOMAIN tree[p].data \cup written |->
                                 IF k \in written THEN c ELSE tree[p].data[k]]))
      /\ open' = [open EXCEPT ![f].off = start + m]
      /\ result' = Ret(m)

\* What is read is what the file holds; behind its end it may be anything.
ReadFile(f, m) ==
  LET p == open[f].path
      off == open[f].off
  IN  /\ IsFile(p) /\ UNCHANGED tree
      /\ open' = [open EXCEPT ![f].off = off + m]
      /\ result'[1] = "read" /\ Len(result'[2]) = m
      /\ \A k \in 1 .. m : off + k - 1 \in DOMAIN tree[p].data =>
           result'[2][k] = tree[p].data[off + k - 1]

EnumerateDirStatus(p) ==
  \/ p \notin DOMAIN tree /\ Fails
  \/ /\ p \in DOMAIN tree /\ IsDir(p) /\ UNCHANGED <<tree, open>>
     /\ result' = <<"list", {<<".", "dir">>, <<"..", "dir">>} \cup
                     {<<q[Len(q)], tree[q].kind>> : q \in Children(p)}>>

\* The process ends, between calls or inside one: the path the call was about
\* may be left in any state, and nothing else is touched.
EndProcess == open' = NothingOpen /\ result' = Ret(0) /\ UNCHANGED tree

DieInCall(p) ==
  /\ open' = NothingOpen /\ result' = Ret(0)
  /\ IF p \in DOMAIN tree THEN Children(p) = {} ELSE IsDir(Parent(p))
  /\ \/ tree' = Pruned(p)
     \/ /\ p \in DOMAIN tree' /\ tree'[p].kind \in {"dir", "file"}
        /\ tree' = With(p, tree'[p])

\* Also a format that the process dies in: nothing of the old tree is left.
Format == tree' = [p \in {} |-> Dir] /\ open' = NothingOpen /\ result' = Ret(0)
---------------------------------------------------------------------------
Init == tree = [p \in {} |-> Dir] /\ open = NothingOpen /\ result = Ret(0)

Next ==
  \/ \E p \in Path :
       \/ MakeDir(p) \/ RemoveDir(p) \/ OpenFile(p) \/ RemoveFile(p)
       \/ EnumerateDirStatus(p)
  \/ \E f \in Fd :
       \/ CloseFile(f)
       \/ \E m \in WriteSizes : ReadFile(f, m) \/ \E c \in Content : WriteFile(f, m, c)
  \/ EndProcess \/ Format \/ \E p \in Path : DieInCall(p)

Spec == Init /\ [][Next]_vars

---------------------------------------------------------------------------
\* The paths make a tree: whatever is there is in a directory that is there
\* (RemoveDir refuses directories that are not empty; a death inside a call
\* does not cut off what is below).
TreeSound ==
  /\ DOMAIN tree \subseteq Path
  /\ \A p \in DOMAIN tree : IsDir(Parent(p))

\* An open descriptor is one of a file that is there, as long as callers close
\* files before they remove them (the guard of RemoveFile).
OpenFilesThere == \A f \in Fd : open[f] # Closed => IsFile(open[f].path)
=============================================================================
