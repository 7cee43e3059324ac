------------------------ MODULE AbstractionProofs ------------------------
(***************************************************************************)
(* The two abstract specifications, for all values of their constants: the *)
(* scheduler that the thread library implements is fair in turns, and what *)
(* the calls of the file system promise holds together.                    *)
(***************************************************************************)
EXTENDS RoundRobinTurns, NameSpace, TLAPS

-----------------------------------------------------------------------------
(***************************************************************************)
(* Round robin, for any number of threads: no thread is given the processor*)
(* twice while another one stays ready.  The inductive invariant is the type*)
(* invariant, the uniqueness of a thread's place, and PassedAreBehind, which*)
(* says that a thread that has overtaken another one stands behind it when *)
(* both are ready.                                                         *)
(***************************************************************************)
TurnsInv == RRTypeOK /\ OnePlace /\ PassedAreBehind

-----------------------------------------------------------------------------
\* What appending a thread does to a queue.
LEMMA AppendIndices ==
  ASSUME NEW S, NEW s \in Seq(S), NEW e \in S
  PROVE  /\ Append(s, e) \in Seq(S)
         /\ DOMAIN Append(s, e) = 1..(Len(s) + 1)
         /\ Append(s, e)[Len(s) + 1] = e
         /\ \A i \in DOMAIN s : Append(s, e)[i] = s[i]
  OBVIOUS

\* What taking the first thread does to it.
LEMMA TailIndices ==
  ASSUME NEW S, NEW s \in Seq(S), s # << >>
  PROVE  /\ Tail(s) \in Seq(S)
         /\ DOMAIN Tail(s) = 1..(Len(s) - 1)
         /\ \A i \in DOMAIN Tail(s) : Tail(s)[i] = s[i + 1] /\ i + 1 \in DOMAIN s
         /\ Head(s) = s[1] /\ 1 \in DOMAIN s /\ s[1] \in S
  OBVIOUS

\* What taking the thread at position k does to it: the rest keep their order.
LEMMA WithoutIndices ==
  ASSUME NEW S, NEW s \in Seq(S), NEW k \in DOMAIN s
  PROVE  /\ Without(s, k) \in Seq(S)
         /\ DOMAIN Without(s, k) = 1..(Len(s) - 1)
         /\ \A i \in DOMAIN Without(s, k) :
              LET o == IF i < k THEN i ELSE i + 1
              IN o \in DOMAIN s /\ o # k /\ Without(s, k)[i] = s[o]
<1>1. Len(s) \in Nat /\ DOMAIN s = 1..Len(s) /\ Len(s) - 1 \in Nat
  OBVIOUS
<1>2. \A i \in 1..(Len(s) - 1) : i \in DOMAIN s /\ i + 1 \in DOMAIN s
  BY <1>1
<1>3. \A i \in 1..(Len(s) - 1) : (IF i < k THEN s[i] ELSE s[i + 1]) \in S
  BY <1>2
<1>4. Without(s, k) \in [1..(Len(s) - 1) -> S]
  BY <1>3 DEF Without
<1>5. Without(s, k) \in Seq(S)
  BY <1>1, <1>4
<1> QED
  BY <1>1, <1>2, <1>4, <1>5 DEF Without

-----------------------------------------------------------------------------
\* The one thread of the initial state is in its place.
LEMMA InitInv == TurnsInit => TurnsInv
<1> SUFFICES ASSUME TurnsInit PROVE TurnsInv
  OBVIOUS
<1>1. PICK t \in Thread : ready = << t >>
  BY DEF TurnsInit, RRInit
<1>2. ready \in Seq(Thread) /\ DOMAIN ready = 1..1 /\ ready[1] = t
  BY <1>1
<1>3. running = None /\ blocked = {}
  BY DEF TurnsInit, RRInit
<1> QED
  BY <1>2, <1>3, NoneAssumption
  DEF TurnsInv, RRTypeOK, OnePlace, PassedAreBehind, InReady, Elements

\* A thread that is in no place queues up: what Admit, Preempt and Wake do.
LEMMA QueueUp ==
  ASSUME TurnsInv, Count, NEW t \in Thread, t \notin InReady,
         ready' = Append(ready, t), running' \in {running, None},
         running' # t, blocked' \in {blocked, blocked \ {t}}, t \notin blocked'
  PROVE  TurnsInv'
<1>1. /\ ready' \in Seq(Thread)
      /\ DOMAIN ready = 1..Len(ready) /\ Len(ready) \in Nat
      /\ DOMAIN ready' = 1..(Len(ready) + 1)
      /\ ready'[Len(ready) + 1] = t
      /\ \A i \in DOMAIN ready : ready'[i] = ready[i]
  BY AppendIndices DEF TurnsInv, RRTypeOK
<1>2. \A i \in DOMAIN ready : ready[i] \in InReady /\ ready[i] \in Thread /\ ready[i] # t
  BY DEF InReady, Elements, TurnsInv, RRTypeOK
<1>3. InReady' = InReady \cup {t}
  BY <1>1 DEF InReady, Elements
<1>4. RRTypeOK'
  BY <1>1 DEF TurnsInv, RRTypeOK
<1>5. OnePlace'
  <2>1. \A i, j \in DOMAIN ready' : ready'[i] = ready'[j] => i = j
    BY <1>1, <1>2 DEF TurnsInv, OnePlace
  <2>2. None \notin InReady /\ None \notin blocked
    BY <1>2, NoneAssumption DEF InReady, Elements, TurnsInv, RRTypeOK
  <2>3. running' \notin InReady' \cup blocked'
    BY <1>3, <2>2, NoneAssumption DEF TurnsInv, OnePlace
  <2> QED
    BY <2>1, <2>3, <1>3 DEF TurnsInv, OnePlace
<1>6. PassedAreBehind'
  <2> SUFFICES ASSUME NEW i \in DOMAIN ready', NEW j \in DOMAIN ready', i < j
               PROVE  ready'[i] \notin passed'[ready'[j]]
    BY DEF PassedAreBehind
  <2>1. CASE j = Len(ready) + 1
    BY <2>1, <1>1 DEF Count
  <2>2. CASE j # Len(ready) + 1
    <3>1. i \in DOMAIN ready /\ j \in DOMAIN ready
      BY <2>2, <1>1
    <3>2. passed'[ready'[j]] = passed[ready[j]]
      BY <3>1, <1>1, <1>2 DEF Count
    <3> QED
      BY <3>1, <3>2, <1>1 DEF TurnsInv, PassedAreBehind
  <2> QED
    BY <2>1, <2>2
<1> QED
  BY <1>4, <1>5, <1>6 DEF TurnsInv

\* The first thread leaves the queue, and everyone in it counts it.
LEMMA DispatchKeepsInv ==
  ASSUME TurnsInv, Count, Dispatch
  PROVE  TurnsInv'
<1>1. /\ running = None /\ ready # << >> /\ running' = ready[1]
      /\ blocked' = blocked /\ ready' = Tail(ready)
  BY TailIndices DEF Dispatch, TurnsInv, RRTypeOK
<1>2. /\ ready' \in Seq(Thread) /\ 1 \in DOMAIN ready /\ ready[1] \in Thread
      /\ DOMAIN ready = 1..Len(ready) /\ Len(ready) \in Nat
      /\ DOMAIN ready' = 1..(Len(ready) - 1)
      /\ \A i \in DOMAIN ready' : ready'[i] = ready[i + 1] /\ i + 1 \in DOMAIN ready
  BY <1>1, TailIndices DEF TurnsInv, RRTypeOK
<1>3. \A i \in DOMAIN ready : ready[i] \in InReady /\ ready[i] \in Thread
  BY DEF InReady, Elements, TurnsInv, RRTypeOK
<1>4. \A i \in DOMAIN ready' : ready'[i] # ready[1] /\ ready'[i] \in InReady
  BY <1>2, <1>3 DEF TurnsInv, OnePlace
<1>5. RRTypeOK'
  BY <1>1, <1>2 DEF TurnsInv, RRTypeOK
<1>6. OnePlace'
  <2>1. \A i, j \in DOMAIN ready' : ready'[i] = ready'[j] => i = j
    BY <1>2 DEF TurnsInv, OnePlace
  <2>2. running' \notin InReady' /\ InReady' \subseteq InReady
    BY <1>1, <1>4 DEF InReady, Elements
  <2>3. running' \notin blocked'
    BY <1>1, <1>2, <1>3 DEF TurnsInv, OnePlace
  <2> QED
    BY <2>1, <2>2, <2>3, <1>1 DEF TurnsInv, OnePlace
<1>7. PassedAreBehind'
  <2> SUFFICES ASSUME NEW i \in DOMAIN ready', NEW j \in DOMAIN ready', i < j
               PROVE  ready'[i] \notin passed'[ready'[j]]
    BY DEF PassedAreBehind
  <2>1. ready'[j] = ready[j + 1] /\ j + 1 \in DOMAIN ready /\ ready[j + 1] \in InReady
    BY <1>2, <1>3
  <2>2. passed'[ready'[j]] = passed[ready[j + 1]] \cup {ready[1]}
    BY <2>1, <1>1, <1>2, <1>3, NoneAssumption DEF Count
  <2>3. ready[i + 1] \notin passed[ready[j + 1]]
    BY <1>2, <2>1 DEF TurnsInv, PassedAreBehind
  <2> QED
    BY <2>2, <2>3, <1>2, <1>4
<1> QED
  BY <1>5, <1>6, <1>7 DEF TurnsInv

\* A thread that blocks leaves the queue as it is.
LEMMA BlockKeepsInv ==
  ASSUME TurnsInv, Count, Block
  PROVE  TurnsInv'
<1>1. \A i \in DOMAIN ready : ready[i] \in InReady /\ ready[i] \in Thread
  BY DEF InReady, Elements, TurnsInv, RRTypeOK
<1>2. RRTypeOK'
  BY DEF Block, TurnsInv, RRTypeOK
<1>3. OnePlace'
  BY <1>1, NoneAssumption DEF Block, TurnsInv, RRTypeOK, OnePlace, InReady, Elements
<1>4. \A i \in DOMAIN ready : passed'[ready[i]] = passed[ready[i]]
  BY <1>1 DEF Count, Block
<1>5. PassedAreBehind'
  BY <1>4 DEF Block, TurnsInv, PassedAreBehind
<1> QED
  BY <1>2, <1>3, <1>5 DEF TurnsInv

\* What Suspend and Reap do.
LEMMA TakeOut ==
  ASSUME TurnsInv, Count, NEW k \in DOMAIN ready,
         ready' = Without(ready, k), running' = running,
         blocked' \in {blocked, blocked \cup {ready[k]}}
  PROVE  TurnsInv'
<1> DEFINE o(i) == IF i < k THEN i ELSE i + 1
<1>1. /\ ready' \in Seq(Thread)
      /\ DOMAIN ready' = 1..(Len(ready) - 1)
      /\ \A i \in DOMAIN ready' : o(i) \in DOMAIN ready /\ o(i) # k /\ ready'[i] = ready[o(i)]
  BY WithoutIndices DEF TurnsInv, RRTypeOK
<1>2. \A i, j \in DOMAIN ready' : i < j => o(i) < o(j)
  BY <1>1
<1>3. \A i \in DOMAIN ready : ready[i] \in InReady /\ ready[i] \in Thread
  BY DEF InReady, Elements, TurnsInv, RRTypeOK
<1>4. RRTypeOK'
  BY <1>1, <1>3 DEF TurnsInv, RRTypeOK
<1>5. OnePlace'
  <2>1. \A i, j \in DOMAIN ready' : ready'[i] = ready'[j] => i = j
    BY <1>1 DEF TurnsInv, OnePlace
  <2>2. InReady' \subseteq InReady /\ ready[k] \notin InReady'
    BY <1>1, <1>3 DEF InReady, Elements, TurnsInv, OnePlace
  <2>3. running \notin InReady' \cup blocked'
    BY <2>2, <1>3 DEF TurnsInv, OnePlace
  <2> QED
    BY <2>1, <2>2, <2>3 DEF TurnsInv, OnePlace
<1>6. PassedAreBehind'
  <2> SUFFICES ASSUME NEW i \in DOMAIN ready', NEW j \in DOMAIN ready', i < j
               PROVE  ready'[i] \notin passed'[ready'[j]]
    BY DEF PassedAreBehind
  <2>1. passed'[ready'[j]] = passed[ready[o(j)]]
    BY <1>1, <1>3 DEF Count
  <2>2. ready[o(i)] \notin passed[ready[o(j)]]
    BY <1>1, <1>2 DEF TurnsInv, PassedAreBehind
  <2> QED
    BY <2>1, <2>2, <1>1
<1> QED
  BY <1>4, <1>5, <1>6 DEF TurnsInv

\* Each action is one of the four cases above.
LEMMA NextKeepsInv == TurnsInv /\ [TurnsNext]_turnVars => TurnsInv'
<1> SUFFICES ASSUME TurnsInv, [TurnsNext]_turnVars PROVE TurnsInv'
  OBVIOUS
<1>1. CASE UNCHANGED turnVars
  BY <1>1 DEF turnVars, rrVars, TurnsInv, RRTypeOK, OnePlace, PassedAreBehind, InReady, Elements
<1>2. CASE Count /\ Preempt
  BY <1>2, QueueUp, NoneAssumption DEF Preempt, TurnsInv, RRTypeOK, OnePlace
<1>3. CASE Count /\ Dispatch
  BY <1>3, DispatchKeepsInv
<1>4. CASE Count /\ Block
  BY <1>4, BlockKeepsInv
<1>5. ASSUME Count, NEW t \in Thread, Admit(t) PROVE TurnsInv'
  BY <1>5, QueueUp DEF Admit
<1>6. ASSUME Count, NEW t \in Thread, Wake(t) PROVE TurnsInv'
  BY <1>6, QueueUp DEF Wake, TurnsInv, OnePlace
<1>7. ASSUME Count, NEW i \in DOMAIN ready, Suspend(i) \/ Reap(i) PROVE TurnsInv'
  BY <1>7, TakeOut DEF Suspend, Reap
<1> QED
  BY <1>1, <1>2, <1>3, <1>4, <1>5, <1>6, <1>7 DEF TurnsNext, RRNext

-----------------------------------------------------------------------------
\* Threads keep one place each and those that overtook stand behind, for any
\* set of threads.
THEOREM TurnsInvariant == TurnsSpec => []TurnsInv
  BY InitInv, NextKeepsInv, PTL DEF TurnsSpec

\* A thread has one place: in the ready queue once, or running, or blocked
\* (what rq_push, rq_pop, wq_push and RunQHead are to keep apart).
THEOREM PlacesAreDisjoint == TurnsSpec => []OnePlace
<1>1. TurnsInv => OnePlace
  BY DEF TurnsInv
<1> QED
  BY <1>1, TurnsInvariant, PTL

\* A thread that was given the processor while another stood ready is behind
\* it for as long as that one stays ready (rq_push at the tail), which is what
\* keeps the turns in order when threads are taken from within the queue.
THEOREM OvertakersStandBehind == TurnsSpec => []PassedAreBehind
<1>1. TurnsInv => PassedAreBehind
  BY DEF TurnsInv
<1> QED
  BY <1>1, TurnsInvariant, PTL

\* Round robin: between two turns of a thread every thread that stays ready
\* gets one (rq_push at the tail, rq_pop at the head).
THEOREM TurnsAreFair == TurnsSpec => NoSecondTurn
<1> DEFINE Step == \A t \in Thread :
      (t \in InReady /\ t \in InReady' /\ Dispatch) => running' \notin passed[t]
<1>1. TurnsInv => Step
  <2> SUFFICES ASSUME TurnsInv, NEW t \in Thread, t \in InReady, t \in InReady', Dispatch
               PROVE  running' \notin passed[t]
    OBVIOUS
  <2>1. /\ running' = ready[1] /\ 1 \in DOMAIN ready /\ DOMAIN ready = 1..Len(ready)
        /\ \A i \in DOMAIN ready' : ready'[i] = ready[i + 1] /\ i + 1 \in DOMAIN ready
    BY TailIndices DEF Dispatch, TurnsInv, RRTypeOK
  <2>2. PICK i \in DOMAIN ready' : t = ready'[i]
    BY DEF InReady, Elements
  <2>3. i + 1 \in DOMAIN ready /\ t = ready[i + 1] /\ 1 < i + 1
    <3>1. i \in Nat /\ i > 0
      BY TailIndices DEF Dispatch, TurnsInv, RRTypeOK
    <3> QED
      BY <2>1, <2>2, <3>1
  <2> QED
    BY <2>1, <2>3 DEF TurnsInv, PassedAreBehind
<1>2. TurnsInv => [Step]_turnVars
  BY <1>1
<1> QED
  BY <1>2, TurnsInvariant, PTL DEF NoSecondTurn

-----------------------------------------------------------------------------
(***************************************************************************)
(* The name space, for all sets of paths that have the ways to them: the tree*)
(* stays a tree, and what is open stays there.                             *)
(***************************************************************************)
Node(n) == n.kind \in {"dir", "file"}
OpenFiles ==
  /\ open = [f \in Fd |-> open[f]]
  /\ \A f \in Fd : open[f] = [path |-> open[f].path, off |-> open[f].off]
Tree == tree = [p \in DOMAIN tree |-> tree[p]] /\ \A p \in DOMAIN tree : Node(tree[p])

Inv == Tree /\ OpenFiles /\ TreeSound /\ OpenFilesThere

---------------------------------------------------------------------------
\* The root is not among the paths.
LEMMA NoRoot == ASSUME NameSpaceAssumption, TreeSound PROVE <<>> \notin DOMAIN tree
BY DEF NameSpaceAssumption, TreeSound

\* A node is added or changed: where there was none below a directory, or one
\* of the same kind, or one that had nothing below it.
LEMMA WithSound ==
  ASSUME Tree, TreeSound, NEW p \in Path, NEW node, Node(node), tree' = With(p, node),
         IsDir(Parent(p)),
         \/ p \notin DOMAIN tree
         \/ node.kind = tree[p].kind
         \/ Children(p) = {}
  PROVE  Tree' /\ TreeSound'
<1>1. DOMAIN tree' = DOMAIN tree \cup {p}
  BY DEF With
<1>2. \A q \in DOMAIN tree' : tree'[q] = IF q = p THEN node ELSE tree[q]
  BY DEF With
<1>3. tree' = [q \in DOMAIN tree' |-> tree'[q]]
  BY <1>1, <1>2 DEF With
<1>4. Tree'
  BY <1>1, <1>2, <1>3 DEF Tree
<1>5. ASSUME NEW q \in DOMAIN tree' PROVE IsDir(Parent(q))'
  <2>1. IsDir(Parent(q))
    BY <1>1 DEF TreeSound
  <2>2. CASE Parent(q) = <<>> \/ Parent(q) # p
    BY <1>1, <1>2, <2>1, <2>2 DEF IsDir
  <2>3. CASE Parent(q) = p /\ Parent(q) # <<>>
    <3>1. p \in DOMAIN tree /\ tree[p].kind = "dir"
      BY <2>1, <2>3 DEF IsDir
    <3>2. CASE q \in DOMAIN tree
      <4>1. q \in Children(p)
        BY <2>3, <3>2 DEF Children
      <4> QED
        BY <1>1, <1>2, <2>3, <3>1, <4>1 DEF IsDir
    <3>3. CASE q = p
      BY <1>1, <1>2, <2>3, <3>1, <3>3, <3>2 DEF IsDir
    <3> QED
      BY <1>1, <3>2, <3>3
  <2> QED
    BY <2>2, <2>3
<1> QED
  BY <1>1, <1>4, <1>5 DEF TreeSound

\* A node with nothing below it is taken away.
LEMMA WithoutSound ==
  ASSUME Tree, TreeSound, NEW p, Children(p) = {}, tree' = Pruned(p)
  PROVE  Tree' /\ TreeSound'
<1>1. DOMAIN tree' = DOMAIN tree \ {p} /\ \A q \in DOMAIN tree' : tree'[q] = tree[q]
  BY DEF Pruned
<1>2. Tree'
  BY <1>1 DEF Tree, Pruned
<1>3. ASSUME NEW q \in DOMAIN tree' PROVE IsDir(Parent(q))'
  <2>1. IsDir(Parent(q)) /\ q \notin Children(p)
    BY <1>1 DEF TreeSound
  <2>2. Parent(q) # p
    BY <1>1, <2>1 DEF Children
  <2> QED
    BY <1>1, <2>1, <2>2 DEF IsDir
<1> QED
  BY <1>1, <1>2, <1>3 DEF TreeSound

\* No file has anything below it.
LEMMA FileIsLeaf ==
  ASSUME NameSpaceAssumption, TreeSound, NEW p, IsFile(p) PROVE Children(p) = {}
<1>1. ~IsDir(p)
  BY NoRoot DEF IsFile, IsDir
<1> QED
  BY <1>1 DEF Children, TreeSound

\* When the process ends nothing is open.
LEMMA EndSound == ASSUME open' = NothingOpen PROVE OpenFiles' /\ OpenFilesThere'
<1>1. \A f \in Fd : open'[f] = Closed
  BY DEF NothingOpen
<1>2. open' = [f \in Fd |-> open'[f]]
  BY DEF NothingOpen
<1> QED
  BY <1>1, <1>2 DEF OpenFiles, OpenFilesThere, Closed

\* The open files stay where files stay files.
LEMMA OpenKept ==
  ASSUME Inv, UNCHANGED open,
         \A f \in Fd : LET p == open[f].path
                      IN  IsFile(p) => p \in DOMAIN tree' /\ tree'[p].kind = "file"
  PROVE  OpenFiles' /\ OpenFilesThere'
BY DEF Inv, OpenFiles, OpenFilesThere, IsFile

\* One descriptor changes to one of a file that is there, or is closed.
LEMMA OpenChanged ==
  ASSUME Inv, NEW f \in Fd, NEW p, NEW off, open' = [open EXCEPT ![f] = [path |-> p, off |-> off]],
         (p \in DOMAIN tree' /\ tree'[p].kind = "file") \/ [path |-> p, off |-> off] = Closed,
         \A r : IsFile(r) => r \in DOMAIN tree' /\ tree'[r].kind = "file"
  PROVE  OpenFiles' /\ OpenFilesThere'
<1>1. \A g \in Fd : open'[g] = IF g = f THEN [path |-> p, off |-> off] ELSE open[g]
  BY DEF Inv, OpenFiles
<1>2. open' = [g \in Fd |-> open'[g]]
  BY DEF Inv, OpenFiles
<1>3. OpenFiles'
  BY <1>1, <1>2 DEF Inv, OpenFiles
<1>4. ASSUME NEW g \in Fd, open'[g] # Closed PROVE IsFile(open[g].path)'
  <2>1. CASE g = f
    BY <1>1, <1>4, <2>1 DEF IsFile
  <2>2. CASE g # f
    BY <1>1, <1>4, <2>2 DEF IsFile, Inv, OpenFilesThere
  <2> QED
    BY <2>1, <2>2
<1> QED
  BY <1>3, <1>4 DEF OpenFilesThere
---------------------------------------------------------------------------
\* A call that fails.
LEMMA FailsSound == ASSUME Inv, Fails PROVE Inv'
BY DEF Fails, Inv, Tree, OpenFiles, TreeSound, OpenFilesThere, IsDir, IsFile

\* A missing node is made; every file stays.
LEMMA MadeSound ==
  ASSUME NameSpaceAssumption, Inv, NEW q \in Path, NEW p \in WaysTo(q), Missing(p),
         NEW node, Node(node), tree' = With(p, node)
  PROVE  /\ Tree' /\ TreeSound' /\ p \in DOMAIN tree' /\ tree'[p] = node
         /\ \A r : IsFile(r) => r \in DOMAIN tree' /\ tree'[r].kind = "file"
<1>1. p \in Path
  BY DEF NameSpaceAssumption, WaysTo
<1>2. Tree' /\ TreeSound'
  BY <1>1, WithSound DEF Missing, Inv
<1>3. p \in DOMAIN tree' /\ tree'[p] = node
  BY DEF With
<1>4. \A r : IsFile(r) => r \in DOMAIN tree' /\ tree'[r].kind = "file"
  BY DEF IsFile, With, Missing
<1> QED
  BY <1>2, <1>3, <1>4

\* MakeDir makes a missing directory below one that is there.
LEMMA MakeDirSound ==
  ASSUME NameSpaceAssumption, Inv, NEW q \in Path, MakeDir(q) PROVE Inv'
<1>1. ASSUME NEW p \in WaysTo(q), Missing(p), tree' = With(p, Dir), UNCHANGED open
      PROVE  Inv'
  <2>1. Node(Dir)
    BY DEF Node, Dir
  <2>2. Tree' /\ TreeSound' /\ \A r : IsFile(r) => r \in DOMAIN tree' /\ tree'[r].kind = "file"
    BY <1>1, <2>1, MadeSound
  <2> QED
    BY <1>1, <2>2, OpenKept DEF Inv
<1> QED
  BY <1>1, FailsSound DEF MakeDir

\* OpenFile opens what is there or what it makes.
LEMMA OpenFileSound ==
  ASSUME NameSpaceAssumption, Inv, NEW q \in Path, OpenFile(q) PROVE Inv'
<1>1. ASSUME IsFile(q), UNCHANGED tree, NEW f \in Fd,
             open' = [open EXCEPT ![f] = [path |-> q, off |-> 0]]
      PROVE  Inv'
  <2>1. \A r : IsFile(r) => r \in DOMAIN tree' /\ tree'[r].kind = "file"
    BY <1>1 DEF IsFile
  <2>2. OpenFiles' /\ OpenFilesThere'
    BY <1>1, <2>1, OpenChanged
  <2>3. Tree' /\ TreeSound'
    BY <1>1 DEF Inv, Tree, TreeSound, IsDir
  <2> QED
    BY <2>2, <2>3 DEF Inv
<1>2. ASSUME NEW p \in WaysTo(q), NEW f \in Fd, Missing(p),
             tree' = With(p, File(NoData)),
             open' = [open EXCEPT ![f] = [path |-> p, off |-> 0]]
      PROVE  Inv'
  <2>1. Node(File(NoData)) /\ File(NoData).kind = "file"
    BY DEF Node, File
  <2>2. /\ Tree' /\ TreeSound' /\ p \in DOMAIN tree' /\ tree'[p] = File(NoData)
        /\ \A r : IsFile(r) => r \in DOMAIN tree' /\ tree'[r].kind = "file"
    BY <1>2, <2>1, MadeSound
  <2>3. p \in DOMAIN tree' /\ tree'[p].kind = "file"
    BY <2>1, <2>2
  <2>4. OpenFiles' /\ OpenFilesThere'
    BY <1>2, <2>2, <2>3, OpenChanged
  <2> QED
    BY <2>2, <2>4 DEF Inv
<1> QED
  BY <1>1, <1>2, FailsSound DEF OpenFile

\* CloseFile leaves the tree alone.
LEMMA CloseFileSound == ASSUME Inv, NEW f \in Fd, CloseFile(f) PROVE Inv'
<1>1. ASSUME open' = [open EXCEPT ![f] = Closed], UNCHANGED tree PROVE Inv'
  <2>1. \A r : IsFile(r) => r \in DOMAIN tree' /\ tree'[r].kind = "file"
    BY <1>1 DEF IsFile
  <2>2. OpenFiles' /\ OpenFilesThere'
    BY <1>1, <2>1, OpenChanged DEF Closed
  <2>3. Tree' /\ TreeSound'
    BY <1>1 DEF Inv, Tree, TreeSound, IsDir
  <2> QED
    BY <2>2, <2>3 DEF Inv
<1> QED
  BY <1>1, FailsSound DEF CloseFile

\* A node without children that no open file has is taken away.
LEMMA TakenSound ==
  ASSUME Inv, NEW p, Children(p) = {}, tree' = Pruned(p), UNCHANGED open,
         \A f \in Fd : IsFile(open[f].path) => open[f].path # p
  PROVE  Inv'
<1>1. Tree' /\ TreeSound'
  BY WithoutSound DEF Inv
<1>2. \A f \in Fd : LET q == open[f].path
                   IN  IsFile(q) => q \in DOMAIN tree' /\ tree'[q].kind = "file"
  BY DEF IsFile, Pruned
<1> QED
  BY <1>1, <1>2, OpenKept DEF Inv

\* RemoveFile takes away a file no descriptor has.
LEMMA RemoveFileSound ==
  ASSUME NameSpaceAssumption, Inv, NEW p \in Path, RemoveFile(p) PROVE Inv'
<1>1. ASSUME IsFile(p), \A f \in Fd : open[f].path # p, tree' = Pruned(p),
             UNCHANGED open
      PROVE  Inv'
  BY <1>1, FileIsLeaf, TakenSound DEF Inv
<1> QED
  BY <1>1, FailsSound DEF RemoveFile

\* RemoveDir takes away a directory with nothing below it.
LEMMA RemoveDirSound ==
  ASSUME NameSpaceAssumption, Inv, NEW p \in Path, RemoveDir(p) PROVE Inv'
<1>1. ASSUME p \in DOMAIN tree, IsDir(p), Children(p) = {}, tree' = Pruned(p),
             UNCHANGED open
      PROVE  Inv'
  <2>1. ~IsFile(p)
    BY <1>1, NoRoot DEF IsDir, IsFile, Inv
  <2> QED
    BY <1>1, <2>1, TakenSound
<1> QED
  BY <1>1, FailsSound DEF RemoveDir

\* The offset of an open file moves.
LEMMA MovedSound ==
  ASSUME Inv, NEW f \in Fd, NEW off, IsFile(open[f].path),
         open' = [open EXCEPT ![f].off = off],
         \A r : IsFile(r) => r \in DOMAIN tree' /\ tree'[r].kind = "file"
  PROVE  OpenFiles' /\ OpenFilesThere'
<1> DEFINE p == open[f].path
           q == [path |-> p, off |-> off]
<1>1. [open[f] EXCEPT !.off = off] = q
  BY DEF Inv, OpenFiles
<1>2. open' = [open EXCEPT ![f] = q]
  BY <1>1
<1>3. p \in DOMAIN tree' /\ tree'[p].kind = "file"
  OBVIOUS
<1> HIDE DEF p
<1> QED
  BY <1>2, <1>3, OpenChanged

\* WriteFile changes the contents of a file, which stays one.
LEMMA WriteFileSound ==
  ASSUME NameSpaceAssumption, Inv, NEW f \in Fd, NEW m, NEW c, WriteFile(f, m, c)
  PROVE  Inv'
<1> DEFINE p == open[f].path
           start == IF open[f].off + m <= MaxBlocks THEN open[f].off ELSE 0
           written == start .. start + m - 1
           data == [k \in DOMAIN tree[p].data \cup written |->
                      IF k \in written THEN c ELSE tree[p].data[k]]
<1>1. IsFile(p) /\ tree' = With(p, File(data)) /\ open' = [open EXCEPT ![f].off = start + m]
  BY DEF WriteFile
<1> HIDE DEF start, data
<1>2. Node(File(data)) /\ File(data).kind = "file"
  BY DEF Node, File
<1>3. p \in Path /\ p \in DOMAIN tree /\ tree[p].kind = "file" /\ IsDir(Parent(p))
  BY <1>1 DEF IsFile, Inv, TreeSound
<1>4. Tree' /\ TreeSound'
  BY <1>1, <1>2, <1>3, WithSound DEF Inv
<1>5. \A r : IsFile(r) => r \in DOMAIN tree' /\ tree'[r].kind = "file"
  BY <1>1, <1>2, <1>3 DEF IsFile, With
<1> QED
  BY <1>1, <1>4, <1>5, MovedSound DEF Inv

\* ReadFile moves an offset.
LEMMA ReadFileSound == ASSUME Inv, NEW f \in Fd, NEW m, ReadFile(f, m) PROVE Inv'
<1>1. \A r : IsFile(r) => r \in DOMAIN tree' /\ tree'[r].kind = "file"
  BY DEF ReadFile, IsFile
<1>2. IsFile(open[f].path) /\ open' = [open EXCEPT ![f].off = open[f].off + m]
  BY DEF ReadFile
<1>3. OpenFiles' /\ OpenFilesThere'
  BY <1>1, <1>2, MovedSound
<1>4. Tree' /\ TreeSound'
  BY DEF ReadFile, Inv, Tree, TreeSound, IsDir
<1> QED
  BY <1>3, <1>4 DEF Inv

\* EnumerateDirStatus changes nothing.
LEMMA EnumerateSound == ASSUME Inv, NEW p, EnumerateDirStatus(p) PROVE Inv'
<1>1. CASE UNCHANGED <<tree, open>>
  BY <1>1 DEF Inv, Tree, OpenFiles, TreeSound, OpenFilesThere, IsDir, IsFile
<1> QED
  BY <1>1, FailsSound DEF EnumerateDirStatus

\* A process that ends leaves the tree, but for what a call was about.
LEMMA EndProcessSound == ASSUME Inv, EndProcess PROVE Inv'
<1>1. Tree' /\ TreeSound'
  BY DEF EndProcess, Inv, Tree, TreeSound, IsDir
<1> QED
  BY <1>1, EndSound DEF EndProcess, Inv

\* A death in a call may change the path the call was about.
LEMMA DieInCallSound == ASSUME Inv, NEW p \in Path, DieInCall(p) PROVE Inv'
<1>1. OpenFiles' /\ OpenFilesThere'
  BY EndSound DEF DieInCall
<1>2. CASE p \in DOMAIN tree
  <2>1. Children(p) = {} /\ IsDir(Parent(p))
    BY <1>2 DEF DieInCall, Inv, TreeSound
  <2>2. CASE tree' = Pruned(p)
    BY <1>1, <2>1, <2>2, WithoutSound DEF Inv
  <2>3. CASE tree' = With(p, tree'[p]) /\ Node(tree'[p])
    BY <1>1, <2>1, <2>3, WithSound DEF Inv
  <2> QED
    BY <2>2, <2>3 DEF DieInCall, Node
<1>3. CASE p \notin DOMAIN tree
  <2>1. IsDir(Parent(p))
    BY <1>3 DEF DieInCall
  <2>2. CASE tree' = Pruned(p)
    <3>1. tree' = tree
      BY <1>3, <2>2 DEF Pruned, Inv, Tree
    <3> QED
      BY <1>1, <3>1 DEF Inv, Tree, TreeSound, IsDir
  <2>3. CASE tree' = With(p, tree'[p]) /\ Node(tree'[p])
    BY <1>1, <1>3, <2>1, <2>3, WithSound DEF Inv
  <2> QED
    BY <2>2, <2>3 DEF DieInCall, Node
<1> QED
  BY <1>2, <1>3

\* The empty tree.
LEMMA EmptySound == ASSUME tree' = [p \in {} |-> Dir], open' = NothingOpen PROVE Inv'
<1>1. Tree' /\ TreeSound'
  BY DEF Tree, TreeSound
<1> QED
  BY <1>1, EndSound DEF Inv

\* Every step keeps all of it.
LEMMA StepSound == ASSUME NameSpaceAssumption, Inv, [Next]_vars PROVE Inv'
<1>1. CASE UNCHANGED vars
  BY <1>1 DEF vars, Inv, Tree, OpenFiles, TreeSound, OpenFilesThere, IsDir, IsFile
<1>2. ASSUME NEW p \in Path,
             \/ MakeDir(p) \/ RemoveDir(p) \/ OpenFile(p) \/ RemoveFile(p)
             \/ EnumerateDirStatus(p) \/ DieInCall(p)
      PROVE  Inv'
  BY <1>2, MakeDirSound, RemoveDirSound, OpenFileSound, RemoveFileSound, EnumerateSound,
     DieInCallSound
<1>3. ASSUME NEW f \in Fd,
             \/ CloseFile(f)
             \/ \E m \in WriteSizes : ReadFile(f, m) \/ \E c \in Content : WriteFile(f, m, c)
      PROVE  Inv'
  BY <1>3, CloseFileSound, ReadFileSound, WriteFileSound
<1>4. CASE EndProcess \/ Format
  BY <1>4, EndProcessSound, EmptySound DEF Format
<1> QED
  BY <1>1, <1>2, <1>3, <1>4 DEF Next

\* All of it holds in every state.
LEMMA InvAlways == ASSUME NameSpaceAssumption PROVE Spec => []Inv
<1>1. Init => Inv
  <2>1. Init => Tree /\ TreeSound
    BY DEF Init, Tree, TreeSound
  <2>2. Init => OpenFiles /\ OpenFilesThere
    BY DEF Init, OpenFiles, OpenFilesThere, NothingOpen, Closed
  <2> QED
    BY <2>1, <2>2 DEF Inv
<1>2. Inv /\ [Next]_vars => Inv'
  BY StepSound
<1> QED
  BY <1>1, <1>2, PTL DEF Spec

\* Whatever calls are made, and wherever processes die in them, every path
\* that is there is below directories that are there.
THEOREM TreeAlwaysSound == ASSUME NameSpaceAssumption PROVE Spec => []TreeSound
BY InvAlways, PTL DEF Inv
=============================================================================
