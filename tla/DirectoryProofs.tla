------------------------- MODULE DirectoryProofs --------------------------
(***************************************************************************)
(* Lemmas about the disk and the directories of src/disk2, for every       *)
(* geometry: what the writes of a call do to the disk and what it is after *)
(* each of them, what the searches of fs.c find, how pointers own blocks,  *)
(* what it takes that the entries of directories are a tree, and what      *)
(* making files and directories leads to. FileSystemProofs proves with     *)
(* them about all calls.                                                   *)
(***************************************************************************)
EXTENDS FileSystemInvariant, TLAPS, FiniteSetTheorems, WellFoundedInduction

---------------------------------------------------------------------------
(* Sequences of writes *)

\* Every set of naturals that is not empty has a least element.
LEMMA LeastNatural ==
  ASSUME NEW T, T \subseteq Nat, T # {}
  PROVE  \E x \in T : \A y \in T : x <= y
<1> DEFINE R == OpToRel(<, Nat)
<1>1. IsWellFoundedOn(R, Nat)
  BY NatLessThanWellFounded
<1>2. \A x, y \in Nat : y < x => << y, x >> \in R
  BY DEF OpToRel
<1> HIDE DEF R
<1>3. PICK x \in T : \A y \in T : ~ (<< y, x >> \in R)
  BY <1>1, WFMin
<1>4. \A y \in T : x <= y
  <2> SUFFICES ASSUME NEW y \in T PROVE x <= y
    OBVIOUS
  <2>1. x \in Nat /\ y \in Nat
    OBVIOUS
  <2>2. ~ (y < x)
    BY <1>2, <1>3, <2>1
  <2> QED BY <2>1, <2>2
<1> QED BY <1>4

\* The function behind After.
IsAfter(g, d, ws, n) == g = [k \in 0 .. n |-> IF k = 0 THEN d ELSE Written(g[k - 1], ws[k])]
\* Such a function.
AfterFn(d, ws, n) == CHOOSE g : IsAfter(g, d, ws, n)

\* It is there for every number of writes: a longer one extends a shorter one.
LEMMA AfterExists ==
  ASSUME NEW d, NEW ws, NEW n \in Nat
  PROVE  \E g : IsAfter(g, d, ws, n)
<1> DEFINE T == {k \in Nat : ~ \E g : IsAfter(g, d, ws, k)}
<1>1. SUFFICES ASSUME T # {} PROVE FALSE
  OBVIOUS
<1>2. PICK m \in T : \A y \in T : m <= y
  <2>1. T \subseteq Nat
    OBVIOUS
  <2> HIDE DEF T
  <2> QED BY <1>1, <2>1, LeastNatural
<1>3. m # 0
  <2>1. IsAfter([k \in 0 .. 0 |-> d], d, ws, 0)
    BY DEF IsAfter
  <2> QED BY <2>1
<1>4. PICK g : IsAfter(g, d, ws, m - 1)
  <2>1. m - 1 \in Nat /\ m - 1 < m
    BY <1>3
  <2>2. m - 1 \notin T
    BY <1>2, <2>1
  <2> QED BY <2>1, <2>2
<1> DEFINE h == [k \in 0 .. m |-> IF k = m THEN Written(g[m - 1], ws[m]) ELSE g[k]]
<1>5. IsAfter(h, d, ws, m)
  <2>1. \A k \in 0 .. m - 1 : g[k] = IF k = 0 THEN d ELSE Written(g[k - 1], ws[k])
    BY <1>4 DEF IsAfter
  <2>2. \A k \in 0 .. m : k # m => k \in 0 .. m - 1
    OBVIOUS
  <2>3. \A k \in 0 .. m : h[k] = IF k = 0 THEN d ELSE Written(h[k - 1], ws[k])
    <3> TAKE k \in 0 .. m
    <3>1. CASE k = m
      <4>1. k # 0 /\ k - 1 \in 0 .. m /\ k - 1 # m
        BY <1>3, <3>1
      <4> QED BY <3>1, <4>1
    <3>2. CASE k # m
      <4>1. k \in 0 .. m - 1 /\ h[k] = g[k]
        BY <2>2, <3>2
      <4>2. k # 0 => k - 1 \in 0 .. m /\ k - 1 # m
        BY <3>2
      <4> QED BY <2>1, <4>1, <4>2
    <3> QED BY <3>1, <3>2
  <2> HIDE DEF h
  <2>4. h = [k \in 0 .. m |-> h[k]]
    BY DEF h
  <2> QED BY <2>3, <2>4 DEF IsAfter
<1> QED BY <1>5

\* Two such functions agree where both are defined.
LEMMA AfterUnique ==
  ASSUME NEW d, NEW ws, NEW n \in Nat, NEW m \in Nat, NEW g, NEW h,
         IsAfter(g, d, ws, n), IsAfter(h, d, ws, m),
         NEW k \in Nat, k <= n, k <= m
  PROVE  g[k] = h[k]
<1> DEFINE T == {x \in Nat : x <= n /\ x <= m /\ g[x] # h[x]}
<1>1. SUFFICES ASSUME T # {} PROVE FALSE
  OBVIOUS
<1>2. PICK x \in T : \A y \in T : x <= y
  <2>1. T \subseteq Nat
    OBVIOUS
  <2> HIDE DEF T
  <2> QED BY <1>1, <2>1, LeastNatural
<1>3. /\ g[x] = IF x = 0 THEN d ELSE Written(g[x - 1], ws[x])
      /\ h[x] = IF x = 0 THEN d ELSE Written(h[x - 1], ws[x])
  <2>1. x \in 0 .. n /\ x \in 0 .. m
    OBVIOUS
  <2> QED BY <2>1 DEF IsAfter
<1>4. x # 0
  BY <1>3
<1>5. g[x - 1] = h[x - 1]
  <2>1. x - 1 \in Nat /\ x - 1 <= n /\ x - 1 <= m /\ x - 1 < x
    BY <1>4
  <2>2. x - 1 \notin T
    BY <1>2, <2>1
  <2> QED BY <2>1, <2>2
<1> QED BY <1>3, <1>5

\* The disk after n writes is the one the recursive function gives.
LEMMA AfterIs ==
  ASSUME NEW d, NEW ws, NEW n \in Nat
  PROVE  /\ IsAfter(AfterFn(d, ws, n), d, ws, n)
         /\ After(d, ws, n) = AfterFn(d, ws, n)[n]
<1>1. IsAfter(AfterFn(d, ws, n), d, ws, n)
  BY AfterExists DEF AfterFn
<1>2. After(d, ws, n) = AfterFn(d, ws, n)[n]
  BY DEF After, AfterFn, IsAfter
<1> QED BY <1>1, <1>2

\* The disk after no write, and after one write more.
LEMMA AfterNone == ASSUME NEW d, NEW ws PROVE After(d, ws, 0) = d
BY AfterIs DEF IsAfter

\* It is the disk after one write less, with one more write.
LEMMA AfterNext ==
  ASSUME NEW d, NEW ws, NEW n \in Nat \ {0}
  PROVE  After(d, ws, n) = Written(After(d, ws, n - 1), ws[n])
<1> DEFINE g == AfterFn(d, ws, n)
           h == AfterFn(d, ws, n - 1)
<1>1. n - 1 \in Nat
  OBVIOUS
<1>2. IsAfter(g, d, ws, n) /\ After(d, ws, n) = g[n]
  BY AfterIs
<1>3. IsAfter(h, d, ws, n - 1) /\ After(d, ws, n - 1) = h[n - 1]
  BY <1>1, AfterIs
<1> HIDE DEF g, h
<1>4. g[n] = Written(g[n - 1], ws[n])
  BY <1>2 DEF IsAfter
<1>5. g[n - 1] = h[n - 1]
  <2>1. n - 1 <= n /\ n - 1 <= n - 1
    OBVIOUS
  <2> QED BY <1>1, <1>2, <1>3, <2>1, AfterUnique
<1> QED BY <1>2, <1>3, <1>4, <1>5

InfoType == [alloc : Int, free : Int, inodes : Int]

\* What calls write.
Writes ==
  [part : {"blk"}, at : Pointer, val : BlockType]
  \cup [part : {"inode"}, at : InodeNum, val : InodeType]
  \cup [part : {"set block"}, at : Block, val : {0}]
  \cup [part : {"reset block"}, at : Pointer, val : {0}]
  \cup [part : {"set inode", "reset inode"}, at : InodeNum, val : {0}]
  \cup [part : {"info"}, at : {0}, val : InfoType]
  \cup [part : {"blocks"}, at : Int, val : Int]

\* From the disk d the writes ws lead to a disk in B, by way of disks in S.
Leads(d, ws, B, S) ==
  /\ \A k \in 0 .. Len(ws) : After(d, ws, k) \in S
  /\ After(d, ws, Len(ws)) \in B

\* Only the first writes matter to the disk after them.
LEMMA AfterPrefix ==
  ASSUME NEW d, NEW ws, NEW vs, NEW n \in Nat, \A k \in 1 .. n : ws[k] = vs[k]
  PROVE  After(d, ws, n) = After(d, vs, n)
<1> DEFINE T == {k \in Nat : k <= n /\ After(d, ws, k) # After(d, vs, k)}
<1>1. SUFFICES ASSUME T # {} PROVE FALSE
  OBVIOUS
<1>2. PICK k \in T : \A y \in T : k <= y
  <2>1. T \subseteq Nat
    OBVIOUS
  <2> HIDE DEF T
  <2> QED BY <1>1, <2>1, LeastNatural
<1>3. k # 0
  BY AfterNone
<1>4. After(d, ws, k - 1) = After(d, vs, k - 1)
  <2>1. k - 1 \in Nat /\ k - 1 <= n /\ k - 1 < k
    BY <1>3
  <2>2. k - 1 \notin T
    BY <1>2, <2>1
  <2> QED BY <2>1, <2>2
<1>5. ws[k] = vs[k]
  BY <1>3
<1>6. /\ After(d, ws, k) = Written(After(d, ws, k - 1), ws[k])
      /\ After(d, vs, k) = Written(After(d, vs, k - 1), vs[k])
  BY <1>3, AfterNext
<1> QED BY <1>4, <1>5, <1>6

\* Writes after writes.
LEMMA AfterConcat ==
  ASSUME NEW d, NEW W, NEW ws \in Seq(W), NEW vs \in Seq(W), NEW n \in 0 .. Len(vs)
  PROVE  After(d, ws \o vs, Len(ws) + n) = After(After(d, ws, Len(ws)), vs, n)
<1> DEFINE T == {k \in Nat : k <= n /\ After(d, ws \o vs, Len(ws) + k) # After(After(d, ws, Len(ws)), vs, k)}
           l == Len(ws)
<1>0. l \in Nat /\ Len(vs) \in Nat
  OBVIOUS
<1>1. SUFFICES ASSUME T # {} PROVE FALSE
  OBVIOUS
<1>2. PICK k \in T : \A y \in T : k <= y
  <2>1. T \subseteq Nat
    OBVIOUS
  <2> HIDE DEF T
  <2> QED BY <1>1, <2>1, LeastNatural
<1>3. k # 0
  <2>1. After(d, ws \o vs, l) = After(d, ws, l)
    <3> DEFINE all == ws \o vs
    <3>1. \A j \in 1 .. l : all[j] = ws[j]
      OBVIOUS
    <3> HIDE DEF l, all, T
    <3>2. After(d, all, l) = After(d, ws, l)
      BY <1>0, <3>1, AfterPrefix
    <3> QED BY <3>2 DEF all
  <2>2. After(After(d, ws, l), vs, 0) = After(d, ws, l)
    BY AfterNone
  <2>3. l + 0 = l
    BY <1>0
  <2> QED BY <2>1, <2>2, <2>3
<1>4. After(d, ws \o vs, l + (k - 1)) = After(After(d, ws, l), vs, k - 1)
  <2>1. k - 1 \in Nat /\ k - 1 <= n /\ k - 1 < k
    BY <1>3
  <2>2. k - 1 \notin T
    BY <1>2, <2>1
  <2> QED BY <2>1, <2>2
<1>5. (ws \o vs)[l + k] = vs[k]
  <2>1. k \in 1 .. Len(vs)
    BY <1>0, <1>3
  <2> QED BY <2>1
<1>6. After(d, ws \o vs, l + k) = Written(After(d, ws \o vs, l + (k - 1)), (ws \o vs)[l + k])
  <2> DEFINE j == l + k
  <2>1. j \in Nat \ {0} /\ j - 1 = l + (k - 1)
    BY <1>0, <1>3
  <2> HIDE DEF j
  <2>2. After(d, ws \o vs, j) = Written(After(d, ws \o vs, j - 1), (ws \o vs)[j])
    BY <2>1, AfterNext
  <2> QED BY <2>1, <2>2 DEF j
<1>7. After(After(d, ws, l), vs, k) = Written(After(After(d, ws, l), vs, k - 1), vs[k])
  BY <1>3, AfterNext
<1> QED BY <1>4, <1>5, <1>6, <1>7

\* Nothing written leads nowhere else.
LEMMA LeadsNone ==
  ASSUME NEW B, NEW S, NEW d \in B, d \in S
  PROVE  Leads(d, <<>>, B, S)
<1>1. Len(<<>>) = 0 /\ \A k \in 0 .. 0 : k = 0
  OBVIOUS
<1> QED BY <1>1, AfterNone DEF Leads

\* One write.
LEMMA LeadsOne ==
  ASSUME NEW B, NEW S, NEW d \in S, NEW w, Written(d, w) \in B, Written(d, w) \in S
  PROVE  Leads(d, <<w>>, B, S)
<1>1. Len(<<w>>) = 1 /\ <<w>>[1] = w /\ \A k \in 0 .. 1 : k = 0 \/ k = 1
  OBVIOUS
<1>2. After(d, <<w>>, 1) = Written(After(d, <<w>>, 0), w)
  <2>1. 1 \in Nat \ {0} /\ 1 - 1 = 0
    OBVIOUS
  <2> QED BY <1>1, <2>1, AfterNext
<1> QED BY <1>1, <1>2, AfterNone DEF Leads

\* One sequence of writes after another.
LEMMA LeadsConcat ==
  ASSUME NEW W, NEW ws \in Seq(W), NEW vs \in Seq(W), NEW A, NEW B, NEW S, NEW d,
         Leads(d, ws, A, S), \A e \in A : Leads(e, vs, B, S)
  PROVE  Leads(d, ws \o vs, B, S)
<1> DEFINE l == Len(ws)
           m == Len(vs)
           e == After(d, ws, l)
<1>0. l \in Nat /\ m \in Nat /\ Len(ws \o vs) = l + m
  OBVIOUS
<1>1. e \in A /\ Leads(e, vs, B, S)
  BY DEF Leads
<1>2. ASSUME NEW k \in 0 .. l + m PROVE After(d, ws \o vs, k) \in S
  <2>1. CASE k <= l
    <3>1. \A j \in 1 .. k : (ws \o vs)[j] = ws[j]
      BY <1>0, <2>1
    <3>2. k \in Nat /\ k \in 0 .. Len(ws)
      BY <1>0, <2>1
    <3>3. After(d, ws \o vs, k) = After(d, ws, k)
      BY <3>1, <3>2, AfterPrefix
    <3> QED BY <3>2, <3>3 DEF Leads
  <2>2. CASE k > l
    <3>1. k - l \in 0 .. Len(vs) /\ k = l + (k - l)
      BY <1>0, <2>2
    <3>2. After(d, ws \o vs, l + (k - l)) = After(e, vs, k - l)
      BY <3>1, AfterConcat
    <3>3. After(e, vs, k - l) \in S
      BY <1>1, <3>1 DEF Leads
    <3> QED BY <3>1, <3>2, <3>3
  <2> QED BY <1>0, <2>1, <2>2
<1>3. After(d, ws \o vs, l + m) \in B
  <2>1. After(d, ws \o vs, l + m) = After(e, vs, m)
    <3>1. m \in 0 .. Len(vs)
      BY <1>0
    <3> QED BY <3>1, AfterConcat
  <2> QED BY <1>1, <2>1 DEF Leads
<1> QED BY <1>0, <1>2, <1>3 DEF Leads

\* What is enough.
LEMMA LeadsWeaker ==
  ASSUME NEW d, NEW ws, NEW A, NEW B, NEW R, NEW S, Leads(d, ws, A, R), A \subseteq B, R \subseteq S
  PROVE  Leads(d, ws, B, S)
BY DEF Leads

\* One write more.
LEMMA LeadsAppend ==
  ASSUME NEW d, NEW ws, NEW vs, NEW w, NEW A, NEW B, NEW S,
         Leads(d, ws, A, S), \A e \in A : Written(e, w) \in B \cap S,
         Len(ws) \in Nat, Len(vs) = Len(ws) + 1,
         \A k \in 1 .. Len(ws) : vs[k] = ws[k], vs[Len(vs)] = w
  PROVE  Leads(d, vs, B, S)
<1> DEFINE l == Len(ws)
<1>1. ASSUME NEW k \in 0 .. l PROVE After(d, vs, k) = After(d, ws, k)
  <2>1. \A j \in 1 .. k : vs[j] = ws[j]
    OBVIOUS
  <2> QED BY <2>1, AfterPrefix
<1>2. After(d, ws, l) \in A
  BY DEF Leads
<1>3. After(d, vs, l + 1) = Written(After(d, ws, l), w)
  <2> DEFINE j == l + 1
  <2>1. j \in Nat \ {0} /\ j - 1 = l /\ vs[j] = w
    OBVIOUS
  <2>2. After(d, vs, l) = After(d, ws, l)
    BY <1>1
  <2> HIDE DEF j, l
  <2>3. After(d, vs, j) = Written(After(d, vs, j - 1), vs[j])
    BY <2>1, AfterNext
  <2> QED BY <2>1, <2>2, <2>3 DEF j
<1>4. After(d, vs, l + 1) \in B \cap S
  BY <1>2, <1>3
<1>5. ASSUME NEW k \in 0 .. l + 1 PROVE After(d, vs, k) \in S
  <2>1. CASE k = l + 1
    BY <1>4, <2>1
  <2>2. CASE k # l + 1
    <3>1. k \in 0 .. l
      BY <2>2
    <3> QED BY <1>1, <3>1 DEF Leads
  <2> QED BY <2>1, <2>2
<1> QED BY <1>4, <1>5 DEF Leads

\* Three writes, as blocks are allocated and given back with.
LEMMA LeadsThree ==
  ASSUME NEW d, NEW u, NEW v, NEW w, NEW A, NEW B, NEW C, NEW S, d \in S,
         Written(d, u) \in A \cap S, \A e \in A : Written(e, v) \in B \cap S,
         \A e \in B : Written(e, w) \in C \cap S
  PROVE  Leads(d, <<u, v, w>>, C, S)
<1> DEFINE one == <<u>>
           two == <<u, v>>
           three == <<u, v, w>>
<1>1. Leads(d, one, A, S)
  BY LeadsOne
<1>2. /\ Len(one) = 1 /\ Len(two) = 2 /\ two[2] = v
      /\ \A k \in 1 .. 1 : two[k] = one[k]
  OBVIOUS
<1>3. /\ Len(three) = 3 /\ three[3] = w
      /\ \A k \in 1 .. 2 : three[k] = two[k]
  OBVIOUS
<1> HIDE DEF one, two, three
<1>4. Leads(d, two, B, S)
  <2>1. Len(one) \in Nat /\ Len(two) = Len(one) + 1
    BY <1>2
  <2> QED BY <1>1, <1>2, <2>1, LeadsAppend
<1>5. Leads(d, three, C, S)
  <2>1. /\ Len(two) \in Nat /\ Len(three) = Len(two) + 1 /\ three[Len(three)] = w
        /\ \A k \in 1 .. Len(two) : three[k] = two[k]
    BY <1>2, <1>3
  <2>2. \A e \in B : Written(e, w) \in C \cap S
    OBVIOUS
  <2> QED BY <1>4, <2>1, <2>2, LeadsAppend
<1> QED BY <1>5 DEF three

---------------------------------------------------------------------------
\* The function behind FlattenSeq.
IsFlatten(g, s, n) == g = [i \in 1 .. n |-> IF i = 1 THEN s[i] ELSE g[i - 1] \o s[i]]

\* There is a function that flattens the first n sequences step by step.
LEMMA FlattenExists ==
  ASSUME NEW s, NEW n \in Nat
  PROVE  \E g : IsFlatten(g, s, n)
<1> DEFINE T == {k \in Nat : ~ \E g : IsFlatten(g, s, k)}
<1>1. SUFFICES ASSUME T # {} PROVE FALSE
  OBVIOUS
<1>2. PICK m \in T : \A y \in T : m <= y
  <2>1. T \subseteq Nat
    OBVIOUS
  <2> HIDE DEF T
  <2> QED BY <1>1, <2>1, LeastNatural
<1>3. m # 0
  <2>1. IsFlatten([i \in 1 .. 0 |-> s[i]], s, 0)
    BY DEF IsFlatten
  <2> QED BY <2>1
<1>4. PICK g : IsFlatten(g, s, m - 1)
  <2>1. m - 1 \in Nat /\ m - 1 < m
    BY <1>3
  <2>2. m - 1 \notin T
    BY <1>2, <2>1
  <2> QED BY <2>1, <2>2
<1> DEFINE last == IF m = 1 THEN s[m] ELSE g[m - 1] \o s[m]
           h == [i \in 1 .. m |-> IF i = m THEN last ELSE g[i]]
<1>5. IsFlatten(h, s, m)
  <2>1. \A i \in 1 .. m - 1 : g[i] = IF i = 1 THEN s[i] ELSE g[i - 1] \o s[i]
    BY <1>4 DEF IsFlatten
  <2>2. \A i \in 1 .. m : h[i] = IF i = 1 THEN s[i] ELSE h[i - 1] \o s[i]
    <3> TAKE i \in 1 .. m
    <3>1. CASE i = m
      <4>1. i # 1 => i - 1 \in 1 .. m /\ i - 1 # m
        BY <1>3, <3>1
      <4> QED BY <3>1, <4>1
    <3>2. CASE i # m
      <4>1. i \in 1 .. m - 1 /\ h[i] = g[i]
        BY <3>2
      <4>2. i # 1 => i - 1 \in 1 .. m /\ i - 1 # m
        BY <3>2
      <4> QED BY <2>1, <4>1, <4>2
    <3> QED BY <3>1, <3>2
  <2> HIDE DEF h
  <2>3. h = [i \in 1 .. m |-> h[i]]
    BY DEF h
  <2> QED BY <2>2, <2>3 DEF IsFlatten
<1> QED BY <1>5

\* The parts of a flattened sequence lead on step by step: from B[0] the part x
\* leads from B[x - 1] to B[x].
LEMMA LeadsFlatten ==
  ASSUME NEW n \in Nat \ {0}, NEW s \in Seq(Seq(Writes)), Len(s) = n,
         NEW B, NEW S, NEW d \in B[0],
         \A x \in 1 .. n : \A e \in B[x - 1] : Leads(e, s[x], B[x], S)
  PROVE  /\ Seqs!FlattenSeq(s) \in Seq(Writes)
         /\ Leads(d, Seqs!FlattenSeq(s), B[n], S)
<1> DEFINE f == CHOOSE g : IsFlatten(g, s, n)
<1>1. Seqs!FlattenSeq(s) = f[n]
  BY DEF Seqs!FlattenSeq, IsFlatten
<1>2. IsFlatten(f, s, n)
  BY FlattenExists
<1> HIDE DEF f
<1>3. \A i \in 1 .. n : f[i] = IF i = 1 THEN s[i] ELSE f[i - 1] \o s[i]
  BY <1>2 DEF IsFlatten
<1> DEFINE Ok(i) == f[i] \in Seq(Writes) /\ Leads(d, f[i], B[i], S)
           T == {i \in Nat : i \in 1 .. n /\ ~Ok(i)}
<1>4. ASSUME T # {} PROVE FALSE
  <2>1. PICK m \in T : \A y \in T : m <= y
    <3>1. T \subseteq Nat
      OBVIOUS
    <3> HIDE DEF T
    <3> QED BY <1>4, <3>1, LeastNatural
  <2>2. s[m] \in Seq(Writes) /\ m \in 1 .. n /\ ~Ok(m)
    OBVIOUS
  <2>3. CASE m = 1
    <3>1. f[1] = s[1] /\ 1 - 1 = 0
      BY <1>3, <2>2, <2>3
    <3>2. Leads(d, s[1], B[1], S)
      BY <2>2, <2>3, <3>1
    <3> QED BY <2>2, <2>3, <3>1, <3>2
  <2>4. CASE m # 1
    <3>1. m - 1 \in 1 .. n /\ m - 1 \in Nat /\ m - 1 < m
      BY <2>2, <2>4
    <3>2. Ok(m - 1)
      <4>1. m - 1 \notin T
        BY <2>1, <3>1
      <4> QED BY <3>1, <4>1
    <3>3. f[m] = f[m - 1] \o s[m]
      BY <1>3, <2>2, <2>4
    <3>4. \A e \in B[m - 1] : Leads(e, s[m], B[m], S)
      BY <2>2
    <3>5. Leads(d, f[m - 1] \o s[m], B[m], S)
      BY <2>2, <3>2, <3>4, LeadsConcat
    <3>6. f[m - 1] \o s[m] \in Seq(Writes)
      BY <2>2, <3>2
    <3> QED BY <2>2, <3>3, <3>5, <3>6
  <2> QED BY <2>3, <2>4
<1>5. Ok(n)
  <2>1. n \notin T
    BY <1>4
  <2> QED BY <2>1
<1> QED BY <1>1, <1>5

---------------------------------------------------------------------------
(* What each write does *)

\* Block 0 is not of the data region.
LEMMA BlocksArePositive == 0 \notin Block /\ Block \subseteq Nat /\ IsFiniteSet(Block)
<1>1. 0 \notin Block /\ Block \subseteq Nat
  BY GeometryAssumption DEF Block
<1>2. IsFiniteSet(Block)
  <2>1. DataRegion \in Int /\ NumBlocks - 1 \in Int
    BY GeometryAssumption
  <2> QED BY <2>1, FS_Interval DEF Block
<1> QED BY <1>1, <1>2

\* A disk is its parts.
LEMMA DiskParts ==
  ASSUME NEW d \in DiskType
  PROVE  /\ d.inode \in [InodeNum -> InodeType] /\ d.blk \in [Block -> BlockType]
         /\ d.blockMap \subseteq Block /\ d.inodeMap \subseteq InodeNum
         /\ d.info \in InfoType
BY DEF DiskType, InfoType

\* e is d but for its data blocks, its inodes, ...
SameBut(e, d, part) ==
  /\ part # "inode" => e.inode = d.inode
  /\ part # "blk" => e.blk = d.blk
  /\ part # "blockMap" => e.blockMap = d.blockMap
  /\ part # "inodeMap" => e.inodeMap = d.inodeMap
  /\ part # "info" => e.info = d.info

\* Writing a block changes that block; writing to block 0, which is none of the
\* data region, changes nothing.
LEMMA BlockWritten ==
  ASSUME NEW d \in DiskType, NEW b \in Pointer, NEW c \in BlockType
  PROVE  /\ WriteBlock(b, c) \in Writes
         /\ Written(d, WriteBlock(b, c)) \in DiskType
         /\ SameBut(Written(d, WriteBlock(b, c)), d, "blk")
         /\ \A x \in Block : Written(d, WriteBlock(b, c)).blk[x] = IF x = b THEN c ELSE d.blk[x]
<1> DEFINE e == [d EXCEPT !.blk[b] = c]
<1>1. Written(d, WriteBlock(b, c)) = e
  BY DEF Written, WriteBlock, Write
<1>2. WriteBlock(b, c) \in Writes
  BY DEF Writes, WriteBlock, Write
<1>3. /\ e.inode = d.inode /\ e.blockMap = d.blockMap /\ e.inodeMap = d.inodeMap
      /\ e.info = d.info /\ e.blk = [d.blk EXCEPT ![b] = c]
  BY DEF DiskType
<1>4. e \in DiskType
  BY DEF DiskType
<1>5. \A x \in Block : e.blk[x] = IF x = b THEN c ELSE d.blk[x]
  BY <1>3, DiskParts
<1> QED BY <1>1, <1>2, <1>3, <1>4, <1>5 DEF SameBut

\* Putting an inode changes that inode only.
LEMMA InodeWritten ==
  ASSUME NEW d \in DiskType, NEW i \in InodeNum, NEW n \in InodeType
  PROVE  /\ PutInode(i, n) \in Writes
         /\ Written(d, PutInode(i, n)) \in DiskType
         /\ SameBut(Written(d, PutInode(i, n)), d, "inode")
         /\ \A x \in InodeNum : Written(d, PutInode(i, n)).inode[x] = IF x = i THEN n ELSE d.inode[x]
<1> DEFINE e == [d EXCEPT !.inode[i] = n]
<1>1. Written(d, PutInode(i, n)) = e
  BY DEF Written, PutInode, Write
<1>2. PutInode(i, n) \in Writes
  BY DEF Writes, PutInode, Write
<1>3. /\ e.blk = d.blk /\ e.blockMap = d.blockMap /\ e.inodeMap = d.inodeMap
      /\ e.info = d.info /\ e.inode = [d.inode EXCEPT ![i] = n]
  BY DEF DiskType
<1>4. e \in DiskType
  BY DEF DiskType
<1>5. \A x \in InodeNum : e.inode[x] = IF x = i THEN n ELSE d.inode[x]
  BY <1>3, DiskParts
<1> QED BY <1>1, <1>2, <1>3, <1>4, <1>5 DEF SameBut

\* Setting the bit of a block marks it.
LEMMA BlockBitSet ==
  ASSUME NEW d \in DiskType, NEW b \in Block
  PROVE  /\ SetBlockBitmap(b) \in Writes
         /\ Written(d, SetBlockBitmap(b)) \in DiskType
         /\ SameBut(Written(d, SetBlockBitmap(b)), d, "blockMap")
         /\ Written(d, SetBlockBitmap(b)).blockMap = d.blockMap \cup {b}
<1> DEFINE e == [d EXCEPT !.blockMap = @ \cup {b}]
<1>1. Written(d, SetBlockBitmap(b)) = e
  BY DEF Written, SetBlockBitmap, Write
<1>2. SetBlockBitmap(b) \in Writes
  BY DEF Writes, SetBlockBitmap, Write
<1>3. /\ e.blk = d.blk /\ e.inode = d.inode /\ e.inodeMap = d.inodeMap
      /\ e.info = d.info /\ e.blockMap = d.blockMap \cup {b}
  BY DEF DiskType
<1>4. e \in DiskType
  BY DEF DiskType
<1> QED BY <1>1, <1>2, <1>3, <1>4 DEF SameBut

\* Resetting the bit of a block takes the mark away.
LEMMA BlockBitReset ==
  ASSUME NEW d \in DiskType, NEW b \in Pointer
  PROVE  /\ ResetBlockBitmap(b) \in Writes
         /\ Written(d, ResetBlockBitmap(b)) \in DiskType
         /\ SameBut(Written(d, ResetBlockBitmap(b)), d, "blockMap")
         /\ Written(d, ResetBlockBitmap(b)).blockMap = d.blockMap \ {b}
<1> DEFINE e == [d EXCEPT !.blockMap = @ \ {b}]
<1>1. Written(d, ResetBlockBitmap(b)) = e
  BY DEF Written, ResetBlockBitmap, Write
<1>2. ResetBlockBitmap(b) \in Writes
  BY DEF Writes, ResetBlockBitmap, Write
<1>3. /\ e.blk = d.blk /\ e.inode = d.inode /\ e.inodeMap = d.inodeMap
      /\ e.info = d.info /\ e.blockMap = d.blockMap \ {b}
  BY DEF DiskType
<1>4. e \in DiskType
  BY DEF DiskType
<1> QED BY <1>1, <1>2, <1>3, <1>4 DEF SameBut

\* Setting the bit of an inode marks it.
LEMMA InodeBitSet ==
  ASSUME NEW d \in DiskType, NEW i \in InodeNum
  PROVE  /\ SetInodeBitmap(i) \in Writes
         /\ Written(d, SetInodeBitmap(i)) \in DiskType
         /\ SameBut(Written(d, SetInodeBitmap(i)), d, "inodeMap")
         /\ Written(d, SetInodeBitmap(i)).inodeMap = d.inodeMap \cup {i}
<1> DEFINE e == [d EXCEPT !.inodeMap = @ \cup {i}]
<1>1. Written(d, SetInodeBitmap(i)) = e
  BY DEF Written, SetInodeBitmap, Write
<1>2. SetInodeBitmap(i) \in Writes
  BY DEF Writes, SetInodeBitmap, Write
<1>3. /\ e.blk = d.blk /\ e.inode = d.inode /\ e.blockMap = d.blockMap
      /\ e.info = d.info /\ e.inodeMap = d.inodeMap \cup {i}
  BY DEF DiskType
<1>4. e \in DiskType
  BY DEF DiskType
<1> QED BY <1>1, <1>2, <1>3, <1>4 DEF SameBut

\* Resetting the bit of an inode takes the mark away.
LEMMA InodeBitReset ==
  ASSUME NEW d \in DiskType, NEW i \in InodeNum
  PROVE  /\ ResetInodeBitmap(i) \in Writes
         /\ Written(d, ResetInodeBitmap(i)) \in DiskType
         /\ SameBut(Written(d, ResetInodeBitmap(i)), d, "inodeMap")
         /\ Written(d, ResetInodeBitmap(i)).inodeMap = d.inodeMap \ {i}
<1> DEFINE e == [d EXCEPT !.inodeMap = @ \ {i}]
<1>1. Written(d, ResetInodeBitmap(i)) = e
  BY DEF Written, ResetInodeBitmap, Write
<1>2. ResetInodeBitmap(i) \in Writes
  BY DEF Writes, ResetInodeBitmap, Write
<1>3. /\ e.blk = d.blk /\ e.inode = d.inode /\ e.blockMap = d.blockMap
      /\ e.info = d.info /\ e.inodeMap = d.inodeMap \ {i}
  BY DEF DiskType
<1>4. e \in DiskType
  BY DEF DiskType
<1> QED BY <1>1, <1>2, <1>3, <1>4 DEF SameBut

\* Counting adds to the number of inodes.
LEMMA Counted ==
  ASSUME NEW d \in DiskType, NEW n \in Int, NEW m \in Int
  PROVE  /\ Count(n, m) \in Writes
         /\ Written(d, Count(n, m)) \in DiskType
         /\ SameBut(Written(d, Count(n, m)), d, "info")
         /\ Written(d, Count(n, m)).info.inodes = d.info.inodes + m
<1> DEFINE v == Info(n, -n, m)
           f == Info(d.info.alloc + v.alloc, d.info.free + v.free, d.info.inodes + v.inodes)
           e == [d EXCEPT !.info = f]
<1>1. Written(d, Count(n, m)) = e
  BY DEF Written, Count, Write
<1>2. v \in InfoType /\ v.inodes = m
  BY GeometryAssumption DEF Info, InfoType
<1>3. f \in InfoType /\ f.inodes = d.info.inodes + m
  <2>1. d.info.alloc \in Int /\ d.info.free \in Int /\ d.info.inodes \in Int
    BY DEF DiskType
  <2>2. v.alloc \in Int /\ v.free \in Int
    BY <1>2 DEF InfoType
  <2> HIDE DEF v
  <2> QED BY <1>2, <2>1, <2>2, GeometryAssumption DEF Info, InfoType
<1>4. Count(n, m) \in Writes
  BY <1>2 DEF Writes, Count, Write
<1> HIDE DEF f
<1>5. /\ e.blk = d.blk /\ e.inode = d.inode /\ e.blockMap = d.blockMap
      /\ e.inodeMap = d.inodeMap /\ e.info = f
  BY DEF DiskType
<1>6. e \in DiskType
  BY <1>3 DEF DiskType, InfoType
<1> QED BY <1>1, <1>3, <1>4, <1>5, <1>6 DEF SameBut

\* Putting the numbers of blocks leaves the number of inodes.
LEMMA InfoPut ==
  ASSUME NEW d \in DiskType, NEW n \in Int, NEW m \in Int
  PROVE  /\ PutInfo(n, m) \in Writes
         /\ Written(d, PutInfo(n, m)) \in DiskType
         /\ SameBut(Written(d, PutInfo(n, m)), d, "info")
         /\ Written(d, PutInfo(n, m)).info.inodes = d.info.inodes
<1> DEFINE f == Info(n, m, d.info.inodes)
           e == [d EXCEPT !.info = f]
<1>1. Written(d, PutInfo(n, m)) = e
  BY DEF Written, PutInfo, Write
<1>2. f \in InfoType /\ f.inodes = d.info.inodes
  BY GeometryAssumption DEF Info, InfoType, DiskType
<1>3. PutInfo(n, m) \in Writes
  BY DEF Writes, PutInfo, Write
<1> HIDE DEF f
<1>4. /\ e.blk = d.blk /\ e.inode = d.inode /\ e.blockMap = d.blockMap
      /\ e.inodeMap = d.inodeMap /\ e.info = f
  BY DEF DiskType
<1>5. e \in DiskType
  BY <1>2 DEF DiskType, InfoType
<1> QED BY <1>1, <1>2, <1>3, <1>4, <1>5 DEF SameBut

\* Every write of a call keeps the disk a disk.
LEMMA WrittenTyped ==
  ASSUME NEW d \in DiskType, NEW w \in Writes
  PROVE  Written(d, w) \in DiskType
<1>1. CASE w \in [part : {"blk"}, at : Pointer, val : BlockType]
  <2>1. w = WriteBlock(w.at, w.val) /\ w.at \in Pointer /\ w.val \in BlockType
    BY <1>1 DEF WriteBlock, Write
  <2> QED BY <2>1, BlockWritten
<1>2. CASE w \in [part : {"inode"}, at : InodeNum, val : InodeType]
  <2>1. w = PutInode(w.at, w.val) /\ w.at \in InodeNum /\ w.val \in InodeType
    BY <1>2 DEF PutInode, Write
  <2> QED BY <2>1, InodeWritten
<1>3. CASE w \in [part : {"set block"}, at : Block, val : {0}]
  <2>1. w = SetBlockBitmap(w.at) /\ w.at \in Block
    BY <1>3 DEF SetBlockBitmap, Write
  <2> QED BY <2>1, BlockBitSet
<1>4. CASE w \in [part : {"reset block"}, at : Pointer, val : {0}]
  <2>1. w = ResetBlockBitmap(w.at) /\ w.at \in Pointer
    BY <1>4 DEF ResetBlockBitmap, Write
  <2> QED BY <2>1, BlockBitReset
<1>5. CASE w \in [part : {"set inode", "reset inode"}, at : InodeNum, val : {0}]
  <2>1. (w = SetInodeBitmap(w.at) \/ w = ResetInodeBitmap(w.at)) /\ w.at \in InodeNum
    BY <1>5 DEF SetInodeBitmap, ResetInodeBitmap, Write
  <2> QED BY <2>1, InodeBitSet, InodeBitReset
<1>6. CASE w \in [part : {"info"}, at : {0}, val : InfoType]
  <2> DEFINE v == w.val
             f == Info(d.info.alloc + v.alloc, d.info.free + v.free, d.info.inodes + v.inodes)
  <2>1. Written(d, w) = [d EXCEPT !.info = f]
    BY <1>6 DEF Written
  <2>2. f \in InfoType
    <3>1. v.alloc \in Int /\ v.free \in Int /\ v.inodes \in Int
      BY <1>6 DEF InfoType
    <3>2. d.info.alloc \in Int /\ d.info.free \in Int /\ d.info.inodes \in Int
      BY DEF DiskType
    <3> HIDE DEF v
    <3> QED BY <3>1, <3>2, GeometryAssumption DEF Info, InfoType
  <2> HIDE DEF f
  <2> QED BY <2>1, <2>2 DEF DiskType, InfoType
<1>7. CASE w \in [part : {"blocks"}, at : Int, val : Int]
  <2>1. w = PutInfo(w.at, w.val) /\ w.at \in Int /\ w.val \in Int
    BY <1>7 DEF PutInfo, Write
  <2> QED BY <2>1, InfoPut
<1> QED BY <1>1, <1>2, <1>3, <1>4, <1>5, <1>6, <1>7 DEF Writes

\* Writes keep the type of the disk, however many of them are made.
LEMMA AfterTyped ==
  ASSUME NEW d \in DiskType, NEW ws \in Seq(Writes), NEW n \in 0 .. Len(ws)
  PROVE  After(d, ws, n) \in DiskType
<1> DEFINE T == {k \in Nat : k \in 0 .. Len(ws) /\ After(d, ws, k) \notin DiskType}
<1>1. SUFFICES ASSUME T # {} PROVE FALSE
  OBVIOUS
<1>2. PICK k \in T : \A y \in T : k <= y
  <2>1. T \subseteq Nat
    OBVIOUS
  <2> HIDE DEF T
  <2> QED BY <1>1, <2>1, LeastNatural
<1>3. k # 0
  BY AfterNone
<1>4. After(d, ws, k - 1) \in DiskType
  <2>1. k - 1 \in Nat /\ k - 1 \in 0 .. Len(ws) /\ k - 1 < k
    BY <1>3
  <2>2. k - 1 \notin T
    BY <1>2, <2>1
  <2> QED BY <2>1, <2>2
<1>5. ws[k] \in Writes
  BY <1>3
<1>6. After(d, ws, k) = Written(After(d, ws, k - 1), ws[k])
  BY <1>3, AfterNext
<1> QED BY <1>4, <1>5, <1>6, WrittenTyped

---------------------------------------------------------------------------
(* What is free *)

LEMMA LeastIs ==
  ASSUME NEW S, S \subseteq Nat, S # {}
  PROVE  Least(S) \in S /\ \A m \in S : Least(S) <= m
BY LeastNatural DEF Least

\* There is an inode to give out while one is not marked.
LEMMA FreeInodeIsFree ==
  ASSUME NEW d \in DiskType, InodeNum \ d.inodeMap # {}
  PROVE  GetFreeInodeNum(d) \in InodeNum \ d.inodeMap
<1>1. InodeNum \ d.inodeMap \subseteq Nat
  BY GeometryAssumption DEF InodeNum
<1> QED BY <1>1, LeastIs DEF GetFreeInodeNum

FreeBlocks(d) == Block \ d.blockMap
Below(S, x) == {c \in S : c < x}

\* How many of a set of blocks are below a number.
LEMMA BelowCounted ==
  ASSUME NEW S, S \subseteq Block, NEW x \in Nat
  PROVE  /\ Cardinality(Below(S, x)) \in Nat /\ Cardinality(S) \in Nat
         /\ Cardinality(Below(S, 0)) = 0 /\ Cardinality(Below(S, NumBlocks)) = Cardinality(S)
         /\ x \notin S => Cardinality(Below(S, x + 1)) = Cardinality(Below(S, x))
         /\ x \in S => Cardinality(Below(S, x + 1)) = Cardinality(Below(S, x)) + 1
<1>1. IsFiniteSet(S) /\ S \subseteq Nat
  BY BlocksArePositive, FS_Subset
<1>2. Below(S, x) \subseteq S
  BY DEF Below
<1>3. IsFiniteSet(Below(S, x))
  BY <1>1, <1>2, FS_Subset
<1>4. Below(S, 0) = {} /\ Below(S, NumBlocks) = S
  <2>1. \A c \in S : c < NumBlocks /\ ~(c < 0)
    BY GeometryAssumption DEF Block
  <2> QED BY <2>1 DEF Below
<1>5. x \notin S => Below(S, x + 1) = Below(S, x)
  <2>1. \A c \in S : x \notin S => (c < x + 1 <=> c < x)
    BY <1>1
  <2> QED BY <2>1 DEF Below
<1>6. x \in S => Below(S, x + 1) = Below(S, x) \cup {x} /\ x \notin Below(S, x)
  <2>1. \A c \in S : (c < x + 1 <=> c < x \/ c = x) /\ x < x + 1 /\ ~(x < x)
    BY <1>1
  <2> QED BY <2>1 DEF Below
<1>7. x \in S => Cardinality(Below(S, x + 1)) = Cardinality(Below(S, x)) + 1
  <2> DEFINE low == Below(S, x)
  <2> HIDE DEF low
  <2>1. IsFiniteSet(low) /\ (x \in S => x \notin low)
    BY <1>3, <1>6 DEF low
  <2>2. x \notin low => Cardinality(low \cup {x}) = Cardinality(low) + 1
    BY <2>1, FS_AddElement
  <2> QED BY <1>6, <2>1, <2>2 DEF low
<1>8. Cardinality(Below(S, x)) \in Nat /\ Cardinality(S) \in Nat
  BY <1>1, <1>3, FS_CardinalityType
<1>9. Cardinality({}) = 0
  BY FS_EmptySet
<1> QED BY <1>4, <1>5, <1>7, <1>8, <1>9

\* The free blocks are ranked: the k-th is there when there are k.
LEMMA RankedBlock ==
  ASSUME NEW S, S \subseteq Block, NEW k \in Nat \ {0}, k <= Cardinality(S)
  PROVE  \E b \in S : Cardinality(Below(S, b)) = k - 1
<1> DEFINE n(x) == Cardinality(Below(S, x))
           T == {x \in Nat : k <= n(x)}
<1>1. \A x \in Nat : /\ n(x) \in Nat /\ n(0) = 0 /\ n(NumBlocks) = Cardinality(S)
                     /\ x \notin S => n(x + 1) = n(x)
                     /\ x \in S => n(x + 1) = n(x) + 1
  BY BelowCounted
<1> HIDE DEF n
<1>2. NumBlocks \in T
  BY <1>1, GeometryAssumption
<1>3. PICK x \in T : \A y \in T : x <= y
  <2>1. T \subseteq Nat /\ T # {}
    BY <1>2
  <2> HIDE DEF T
  <2> QED BY <2>1, LeastNatural
<1>4. x \in Nat /\ k <= n(x) /\ x # 0
  BY <1>1
<1>5. PICK y \in Nat : x = y + 1
  <2>1. x - 1 \in Nat /\ x = (x - 1) + 1
    BY <1>4
  <2> QED BY <2>1
<1>6. ~(k <= n(y))
  <2>1. y \in Nat /\ ~(x <= y)
    BY <1>5
  <2>2. y \notin T
    BY <1>3, <2>1
  <2> QED BY <2>1, <2>2
<1>7. y \in S /\ n(y) = k - 1
  BY <1>1, <1>4, <1>5, <1>6
<1> QED BY <1>7 DEF n

\* The blocks a call is given are free, and different ones.
LEMMA FreeBlockIsFree ==
  ASSUME NEW d \in DiskType, NEW k \in 1 .. Cardinality(FreeBlocks(d))
  PROVE  /\ GetFreeBlockNum(d, k) \in FreeBlocks(d)
         /\ Cardinality(Below(FreeBlocks(d), GetFreeBlockNum(d, k))) = k - 1
<1> DEFINE free == Block \ d.blockMap
<1>1. \E b \in free : Cardinality(Below(free, b)) = k - 1
  <2>1. free \subseteq Block /\ k \in Nat \ {0} /\ k <= Cardinality(free)
    <3>1. free \subseteq Block /\ k \in 1 .. Cardinality(free)
      BY DEF FreeBlocks
    <3>2. Cardinality(free) \in Nat
      BY <3>1, BelowCounted
    <3> QED BY <3>1, <3>2
  <2> HIDE DEF free
  <2> QED BY <2>1, RankedBlock
<1>2. GetFreeBlockNum(d, k) = CHOOSE b \in free : Cardinality(Below(free, b)) = k - 1
  BY DEF GetFreeBlockNum, Below
<1> QED BY <1>1, <1>2 DEF FreeBlocks

\* Different numbers give different free blocks.
LEMMA FreeBlocksDiffer ==
  ASSUME NEW d \in DiskType, NEW k \in 1 .. Cardinality(FreeBlocks(d)),
         NEW m \in 1 .. Cardinality(FreeBlocks(d)), k # m
  PROVE  GetFreeBlockNum(d, k) # GetFreeBlockNum(d, m)
<1>1. /\ Cardinality(Below(FreeBlocks(d), GetFreeBlockNum(d, k))) = k - 1
      /\ Cardinality(Below(FreeBlocks(d), GetFreeBlockNum(d, m))) = m - 1
  BY FreeBlockIsFree
<1>2. k - 1 # m - 1
  OBVIOUS
<1> QED BY <1>1, <1>2

---------------------------------------------------------------------------
(* What is read *)

LEMMA EntryIsBig == 1 \in Entry /\ 2 \in Entry /\ Entry \subseteq Nat /\ IsFiniteSet(Entry)
<1>1. EntsPerBlock \in Int
  BY GeometryAssumption
<1> QED BY <1>1, GeometryAssumption, FS_Interval DEF Entry

\* A block of any kind reads as entries.
LEMMA EntsTyped == ASSUME NEW c \in BlockType PROVE Ents(c) \in [Entry -> EntryType]
<1>1. 0 \in InodeNum
  BY GeometryAssumption DEF InodeNum
<1>2. NoEntries \in [Entry -> EntryType]
  BY <1>1 DEF NoEntries, NoEntry, EntryType, Name
<1>3. [j \in Entry |-> [name |-> "?", ino |-> 0]] \in [Entry -> EntryType]
  BY <1>1 DEF EntryType, Name
<1>4. c.kind = "dir" => c.ents \in [Entry -> EntryType]
  BY DEF BlockType
<1> QED BY <1>2, <1>3, <1>4 DEF Ents

\* A block of any kind reads as pointers.
LEMMA PtrsTyped == ASSUME NEW c \in BlockType PROVE Ptrs(c) \in [Slot -> Pointer]
<1>1. NoPtrs \in [Slot -> Pointer]
  BY DEF NoPtrs, Pointer
<1>2. c.kind = "ptr" => c.ptrs \in [Slot -> Pointer]
  BY DEF BlockType
<1> QED BY <1>1, <1>2 DEF Ptrs

\* So does the indirect block, also where there is none.
LEMMA IndirectTyped ==
  ASSUME NEW d \in DiskType, NEW n \in InodeType
  PROVE  IndirectPtrs(d, n) \in [Slot -> Pointer]
<1>1. NoPtrs \in [Slot -> Pointer]
  BY DEF NoPtrs, Pointer
<1>2. n.indir # 0 => d.blk[n.indir] \in BlockType
  BY DEF InodeType, Pointer, DiskType
<1> QED BY <1>1, <1>2, PtrsTyped DEF IndirectPtrs

\* The positions of pointers: the indirect block, two direct ones, and slots.
LEMMA PosIs ==
  /\ 0 \in Pos /\ 1 \in DataPos /\ 2 \in DataPos /\ DataPos \subseteq Pos /\ Pos \subseteq Nat
  /\ \A k \in DataPos : k = 1 \/ k = 2 \/ k - 2 \in Slot
  /\ \A s \in Slot : s + 2 \in DataPos /\ s \in Nat /\ s # 0 /\ (s + 2) - 2 = s /\ ~(s + 2 <= 2)
  /\ \A k \in DataPos : k <= 2 <=> k \in 1 .. 2
BY GeometryAssumption DEF Pos, DataPos, Slot, MaxBlocks

\* A pointer by its position.
LEMMA PtrByPos ==
  ASSUME NEW d, NEW i
  PROVE  /\ PtrOf(d, i, 0) = d.inode[i].indir
         /\ PtrOf(d, i, 1) = d.inode[i].direct[1] /\ PtrOf(d, i, 2) = d.inode[i].direct[2]
         /\ \A s \in Slot : PtrOf(d, i, s + 2) = IndirectPtrs(d, d.inode[i])[s]
BY PosIs DEF PtrOf

\* What an inode points to is a block or nothing.
LEMMA PtrTyped ==
  ASSUME NEW d \in DiskType, NEW i \in InodeNum, NEW k \in Pos
  PROVE  PtrOf(d, i, k) \in Pointer
<1> DEFINE n == d.inode[i]
<1>1. n \in InodeType /\ n.direct \in [1 .. 2 -> Pointer] /\ n.indir \in Pointer
  BY DEF DiskType, InodeType
<1>2. IndirectPtrs(d, n) \in [Slot -> Pointer]
  BY <1>1, IndirectTyped
<1>3. k = 0 \/ k = 1 \/ k = 2 \/ k - 2 \in Slot
  BY PosIs DEF DataPos
<1> QED BY <1>1, <1>2, <1>3, PosIs DEF PtrOf

\* A look-up reads pointers up to the first zero.
LEMMA UpToZeroIs ==
  ASSUME NEW m \in Nat, NEW p \in [1 .. m -> Pointer]
  PROVE  \E n \in 0 .. m : /\ UpToZero(p) = [i \in 1 .. n |-> p[i]]
                           /\ \A i \in 1 .. n : p[i] # 0
                           /\ n < m => p[n + 1] = 0
<1> DEFINE D == {i \in DOMAIN p : \A k \in 1 .. i : p[k] # 0}
           T == {x \in Nat : x < m /\ p[x + 1] = 0}
<1>1. SUFFICES \E n \in 0 .. m : /\ D = 1 .. n /\ \A i \in 1 .. n : p[i] # 0
                                 /\ n < m => p[n + 1] = 0
  <2>1. PICK n \in 0 .. m : /\ D = 1 .. n /\ \A i \in 1 .. n : p[i] # 0
                            /\ n < m => p[n + 1] = 0
    BY <1>1
  <2>2. Cardinality(D) = n
    <3>1. Cardinality(1 .. n) = n
      <4>1. 1 \in Int /\ n \in Int
        OBVIOUS
      <4>2. Cardinality(1 .. n) = IF 1 > n THEN 0 ELSE n - 1 + 1
        BY <4>1, FS_Interval
      <4> QED BY <4>2
    <3> QED BY <2>1, <3>1
  <2>3. UpToZero(p) = [i \in 1 .. n |-> p[i]]
    BY <2>2 DEF UpToZero
  <2> QED BY <2>1, <2>3
<1>2. CASE T = {}
  <2>1. \A i \in 1 .. m : p[i] # 0
    <3> SUFFICES ASSUME NEW i \in 1 .. m, p[i] = 0 PROVE FALSE
      OBVIOUS
    <3>1. i - 1 \in Nat /\ i - 1 < m /\ (i - 1) + 1 = i
      OBVIOUS
    <3>2. i - 1 \in T
      BY <3>1
    <3> QED BY <1>2, <3>2
  <2>2. D = 1 .. m
    BY <2>1
  <2> QED BY <2>1, <2>2
<1>3. CASE T # {}
  <2>1. PICK n \in T : \A y \in T : n <= y
    <3>1. T \subseteq Nat
      OBVIOUS
    <3> HIDE DEF T
    <3> QED BY <1>3, <3>1, LeastNatural
  <2>2. n \in 0 .. m /\ n < m /\ p[n + 1] = 0
    OBVIOUS
  <2>3. \A i \in 1 .. n : p[i] # 0
    <3> SUFFICES ASSUME NEW i \in 1 .. n, p[i] = 0 PROVE FALSE
      OBVIOUS
    <3>1. i - 1 \in Nat /\ i - 1 < m /\ (i - 1) + 1 = i /\ i - 1 < n
      BY <2>2
    <3>2. i - 1 \in T
      BY <3>1
    <3> QED BY <2>1, <3>1, <3>2
  <2>4. D = 1 .. n
    <3>1. \A i \in DOMAIN p : (\A k \in 1 .. i : p[k] # 0) => i \in 1 .. n
      <4> SUFFICES ASSUME NEW i \in 1 .. m, i > n PROVE ~ (\A k \in 1 .. i : p[k] # 0)
        BY <2>2
      <4>1. n + 1 \in 1 .. i
        BY <2>2
      <4> QED BY <2>2, <4>1
    <3> QED BY <2>2, <2>3, <3>1
  <2> QED BY <2>2, <2>3, <2>4
<1> QED BY <1>2, <1>3

---------------------------------------------------------------------------
(* Looking names up *)

\* The direct pointers and those of the indirect block by position.
LEMMA PointersOf ==
  ASSUME NEW d \in DiskType, NEW i \in InodeNum
  PROVE  /\ d.inode[i] \in InodeType
         /\ d.inode[i].direct \in [1 .. 2 -> Pointer]
         /\ IndirectPtrs(d, d.inode[i]) \in [1 .. PtrsPerBlock -> Pointer]
<1>1. d.inode[i] \in InodeType
  BY DEF DiskType
<1> QED BY <1>1, IndirectTyped DEF InodeType, Slot

\* What findName goes through: the direct blocks up to a zero and the indirect
\* ones up to a zero.
LEMMA ScannedIs ==
  ASSUME NEW d \in DiskType, NEW i \in InodeNum
  PROVE  \E m \in 0 .. 2, n \in 0 .. PtrsPerBlock :
           LET bs == ScannedBlocks(d, i)
           IN  /\ bs \in Seq(Pointer) /\ Len(bs) = m + n
               /\ \A x \in 1 .. m : bs[x] = PtrOf(d, i, x) /\ PtrOf(d, i, x) # 0
               /\ \A x \in 1 .. n : bs[m + x] = PtrOf(d, i, x + 2) /\ PtrOf(d, i, x + 2) # 0
               /\ m < 2 => PtrOf(d, i, m + 1) = 0
               /\ n < PtrsPerBlock => PtrOf(d, i, n + 3) = 0
<1> DEFINE p == d.inode[i].direct
           q == IndirectPtrs(d, d.inode[i])
           bs == ScannedBlocks(d, i)
<1>1. p \in [1 .. 2 -> Pointer] /\ q \in [1 .. PtrsPerBlock -> Pointer]
      /\ 2 \in Nat /\ PtrsPerBlock \in Nat
  BY PointersOf, GeometryAssumption
<1>2. bs = UpToZero(p) \o UpToZero(q)
  BY DEF ScannedBlocks
<1>3. \A x \in 1 .. 2 : PtrOf(d, i, x) = p[x]
  BY PtrByPos
<1>4. \A x \in 1 .. PtrsPerBlock : PtrOf(d, i, x + 2) = q[x]
  BY PtrByPos DEF Slot
<1> HIDE DEF p, q, bs
<1>5. PICK m \in 0 .. 2 : /\ UpToZero(p) = [x \in 1 .. m |-> p[x]]
                          /\ \A x \in 1 .. m : p[x] # 0
                          /\ m < 2 => p[m + 1] = 0
  BY <1>1, UpToZeroIs
<1>6. PICK n \in 0 .. PtrsPerBlock : /\ UpToZero(q) = [x \in 1 .. n |-> q[x]]
                                     /\ \A x \in 1 .. n : q[x] # 0
                                     /\ n < PtrsPerBlock => q[n + 1] = 0
  BY <1>1, UpToZeroIs
<1> DEFINE a == UpToZero(p)
           b == UpToZero(q)
<1>7. /\ a \in Seq(Pointer) /\ Len(a) = m /\ \A x \in 1 .. m : a[x] = p[x]
      /\ b \in Seq(Pointer) /\ Len(b) = n /\ \A x \in 1 .. n : b[x] = q[x]
  <2>1. \A x \in 1 .. m : p[x] \in Pointer
    BY <1>1
  <2>2. \A x \in 1 .. n : q[x] \in Pointer
    BY <1>1
  <2> QED BY <1>5, <1>6, <2>1, <2>2
<1> HIDE DEF a, b
<1>8. /\ a \o b \in Seq(Pointer) /\ Len(a \o b) = m + n
      /\ \A x \in 1 .. m : (a \o b)[x] = a[x]
      /\ \A x \in 1 .. n : (a \o b)[m + x] = b[x]
  BY <1>7
<1>9. bs = a \o b
  BY <1>2 DEF a, b
<1>10. m < 2 => PtrOf(d, i, m + 1) = 0
  BY <1>3, <1>5
<1>11. n < PtrsPerBlock => PtrOf(d, i, n + 3) = 0
  <2> SUFFICES ASSUME n < PtrsPerBlock PROVE PtrOf(d, i, n + 3) = 0
    OBVIOUS
  <2> DEFINE x == n + 1
  <2>1. x \in 1 .. PtrsPerBlock /\ x + 2 = n + 3
    BY <1>1
  <2>2. q[x] = 0
    BY <1>6
  <2> HIDE DEF x
  <2> QED BY <1>4, <2>1, <2>2
<1>12. \A x \in 1 .. m : bs[x] = PtrOf(d, i, x) /\ PtrOf(d, i, x) # 0
  <2>1. \A x \in 1 .. m : x \in 1 .. 2
    OBVIOUS
  <2> QED BY <1>3, <1>5, <1>7, <1>8, <1>9, <2>1
<1>13. \A x \in 1 .. n : bs[m + x] = PtrOf(d, i, x + 2) /\ PtrOf(d, i, x + 2) # 0
  <2>1. \A x \in 1 .. n : x \in 1 .. PtrsPerBlock
    BY <1>1
  <2> QED BY <1>4, <1>6, <1>7, <1>8, <1>9, <2>1
<1>14. bs \in Seq(Pointer) /\ Len(bs) = m + n
  BY <1>8, <1>9
<1> QED BY <1>10, <1>11, <1>12, <1>13, <1>14 DEF bs

\* Each of them is behind a pointer, ...
LEMMA ScannedIsLinked ==
  ASSUME NEW d \in DiskType, NEW i \in InodeNum
  PROVE  /\ ScannedBlocks(d, i) \in Seq(Block)
         /\ \A x \in DOMAIN ScannedBlocks(d, i) :
              \E k \in DataPos : ScannedBlocks(d, i)[x] = PtrOf(d, i, k) /\ PtrOf(d, i, k) # 0
<1> DEFINE bs == ScannedBlocks(d, i)
<1>1. PICK m \in 0 .. 2, n \in 0 .. PtrsPerBlock :
               /\ bs \in Seq(Pointer) /\ Len(bs) = m + n
               /\ \A x \in 1 .. m : bs[x] = PtrOf(d, i, x) /\ PtrOf(d, i, x) # 0
               /\ \A x \in 1 .. n : bs[m + x] = PtrOf(d, i, x + 2) /\ PtrOf(d, i, x + 2) # 0
  BY ScannedIs
<1> HIDE DEF bs
<1>2. PtrsPerBlock \in Nat /\ m \in Nat /\ n \in Nat /\ m <= 2 /\ n <= PtrsPerBlock
  BY GeometryAssumption
<1>3. DOMAIN bs = 1 .. m + n
  BY <1>1
<1>4. ASSUME NEW x \in 1 .. m + n
      PROVE  \E k \in DataPos : bs[x] = PtrOf(d, i, k) /\ PtrOf(d, i, k) # 0
  <2>1. CASE x <= m
    <3>1. x \in 1 .. m /\ x \in DataPos
      BY <1>2, <2>1 DEF DataPos, Pos, MaxBlocks
    <3> QED BY <1>1, <3>1
  <2>2. CASE x > m
    <3> DEFINE y == x - m
    <3>1. y \in 1 .. n /\ m + y = x /\ y + 2 \in DataPos
      BY <1>2, <2>2 DEF DataPos, Pos, MaxBlocks
    <3> HIDE DEF y
    <3> QED BY <1>1, <3>1
  <2> QED BY <1>2, <2>1, <2>2
<1>5. \A x \in 1 .. m + n : bs[x] \in Block
  <2> TAKE x \in 1 .. m + n
  <2>1. bs[x] # 0
    BY <1>4
  <2>2. bs[x] \in Pointer
    BY <1>1
  <2> QED BY <2>1, <2>2 DEF Pointer
<1>6. bs \in Seq(Block)
  BY <1>1, <1>2, <1>5
<1> QED BY <1>3, <1>4, <1>6 DEF bs

\* ... and where pointers have no holes it is all of them.
LEMMA LinkedIsScanned ==
  ASSUME NEW d \in DiskType, NEW i \in InodeNum, NoHoles(d, i), NEW k \in DataPos, PtrOf(d, i, k) # 0
  PROVE  \E x \in DOMAIN ScannedBlocks(d, i) : ScannedBlocks(d, i)[x] = PtrOf(d, i, k)
<1> DEFINE bs == ScannedBlocks(d, i)
<1>1. PICK m \in 0 .. 2, n \in 0 .. PtrsPerBlock :
               /\ bs \in Seq(Pointer) /\ Len(bs) = m + n
               /\ \A x \in 1 .. m : bs[x] = PtrOf(d, i, x) /\ PtrOf(d, i, x) # 0
               /\ \A x \in 1 .. n : bs[m + x] = PtrOf(d, i, x + 2) /\ PtrOf(d, i, x + 2) # 0
               /\ m < 2 => PtrOf(d, i, m + 1) = 0
               /\ n < PtrsPerBlock => PtrOf(d, i, n + 3) = 0
  BY ScannedIs
<1> HIDE DEF bs
<1>2. /\ PtrsPerBlock \in Nat /\ m \in Nat /\ n \in Nat /\ m <= 2 /\ n <= PtrsPerBlock
      /\ k \in Nat /\ 1 <= k /\ k <= PtrsPerBlock + 2
  BY GeometryAssumption DEF DataPos, Pos, MaxBlocks
<1>3. DOMAIN bs = 1 .. m + n
  BY <1>1
<1>4. ASSUME NEW x \in DataPos, PtrOf(d, i, x) = 0 PROVE k < x
  <2>1. ~(x < k)
    BY <1>4 DEF NoHoles
  <2>2. x # k /\ x \in Nat
    BY <1>4, PosIs
  <2> QED BY <1>2, <2>1, <2>2
<1>5. CASE k <= 2
  <2>1. k <= m
    <3>1. CASE m < 2
      <4>1. m + 1 \in DataPos
        BY <1>2, <3>1 DEF DataPos, Pos, MaxBlocks
      <4>2. k < m + 1
        BY <1>1, <1>4, <3>1, <4>1
      <4> QED BY <1>2, <4>2
    <3>2. CASE ~(m < 2)
      BY <1>2, <1>5, <3>2
    <3> QED BY <3>1, <3>2
  <2>2. k \in 1 .. m /\ k \in DOMAIN bs
    BY <1>2, <1>3, <2>1
  <2> QED BY <1>1, <2>2 DEF bs
<1>6. CASE k > 2
  <2> DEFINE y == k - 2
  <2>1. y <= n
    <3>1. CASE n < PtrsPerBlock
      <4>1. n + 3 \in DataPos
        BY <1>2, <3>1 DEF DataPos, Pos, MaxBlocks
      <4>2. k < n + 3
        BY <1>1, <1>4, <3>1, <4>1
      <4> QED BY <1>2, <4>2
    <3>2. CASE ~(n < PtrsPerBlock)
      BY <1>2, <1>6, <3>2
    <3> QED BY <3>1, <3>2
  <2>2. y \in 1 .. n /\ y + 2 = k /\ m + y \in DOMAIN bs
    BY <1>2, <1>3, <1>6, <2>1
  <2> HIDE DEF y
  <2>3. bs[m + y] = PtrOf(d, i, k)
    BY <1>1, <2>2
  <2> QED BY <2>2, <2>3 DEF bs
<1> QED BY <1>2, <1>5, <1>6

\* The places findName gives.
PlaceType ==
  [found : BOOLEAN, ents : [Entry -> EntryType], idx : Entry, blk : Block, full : BOOLEAN]

\* Entry j of the block behind pointer k of inode i has the name.
IsAt(d, i, k, j, name) ==
  k \in DataPos /\ j \in Entry /\ PtrOf(d, i, k) # 0 /\ EntryAt(d, i, k, j).name = name

\* p is the place of that entry.
PlaceAt(p, d, i, k, j) ==
  p = Place(TRUE, Ents(d.blk[PtrOf(d, i, k)]), j, PtrOf(d, i, k), FALSE)

\* No place is a place.
LEMMA NoPlaceTyped == NoPlace \in PlaceType
<1>1. DataRegion \in Block
  BY GeometryAssumption DEF Block
<1>2. NoEntries \in [Entry -> EntryType]
  <2>1. 0 \in InodeNum
    BY GeometryAssumption DEF InodeNum
  <2> QED BY <2>1 DEF NoEntries, NoEntry, EntryType, Name
<1> QED BY <1>1, <1>2, EntryIsBig DEF NoPlace, Place, PlaceType

\* A name is found at an entry that has it, ...
LEMMA FindNameFinds ==
  ASSUME NEW d \in DiskType, NEW i \in InodeNum, NEW name, NEW prev \in PlaceType
  PROVE  LET p == findName(d, i, name, prev)
         IN  /\ p \in PlaceType
             /\ p.found => \E k, j : IsAt(d, i, k, j, name) /\ PlaceAt(p, d, i, k, j)
             /\ ~p.found => /\ p = [prev EXCEPT !.found = FALSE,
                                     !.full = (name = "" /\ ScannedBlocks(d, i) # <<>>)]
                            /\ \A x \in DOMAIN ScannedBlocks(d, i), j \in Entry :
                                 Ents(d.blk[ScannedBlocks(d, i)[x]])[j].name # name
<1> DEFINE bs == ScannedBlocks(d, i)
           here(k) == {j \in Entry : Ents(d.blk[bs[k]])[j].name = name}
           hits == {k \in DOMAIN bs : here(k) # {}}
           p == findName(d, i, name, prev)
           k0 == Least(hits)
           j0 == Least(here(k0))
           none == [prev EXCEPT !.found = FALSE, !.full = (name = "" /\ bs # <<>>)]
           some == Place(TRUE, Ents(d.blk[bs[k0]]), j0, bs[k0], FALSE)
<1>1. p = IF hits = {} THEN none ELSE some
  BY DEF findName
<1>2. /\ bs \in Seq(Block)
      /\ \A x \in DOMAIN bs : \E k \in DataPos : bs[x] = PtrOf(d, i, k) /\ PtrOf(d, i, k) # 0
  BY ScannedIsLinked
<1>3. CASE hits = {}
  <2>1. none \in PlaceType /\ none.found = FALSE
    BY DEF PlaceType
  <2>2. \A x \in DOMAIN bs, j \in Entry : Ents(d.blk[bs[x]])[j].name # name
    BY <1>3
  <2> QED BY <1>1, <1>3, <2>1, <2>2
<1>4. CASE hits # {}
  <2>1. k0 \in hits
    <3>1. hits \subseteq Nat
      BY <1>2
    <3> HIDE DEF hits
    <3> QED BY <1>4, <3>1, LeastIs
  <2>2. k0 \in DOMAIN bs /\ here(k0) # {}
    BY <2>1
  <2> HIDE DEF k0
  <2>3. j0 \in here(k0)
    <3>1. here(k0) \subseteq Nat
      BY EntryIsBig
    <3> HIDE DEF here
    <3> QED BY <2>2, <3>1, LeastIs
  <2>4. j0 \in Entry /\ Ents(d.blk[bs[k0]])[j0].name = name
    BY <2>3
  <2> HIDE DEF j0, bs
  <2>5. PICK k \in DataPos : bs[k0] = PtrOf(d, i, k) /\ PtrOf(d, i, k) # 0
    BY <1>2, <2>2
  <2>6. bs[k0] \in Block
    BY <1>2, <2>2
  <2>7. Ents(d.blk[bs[k0]]) \in [Entry -> EntryType]
    BY <2>6, EntsTyped DEF DiskType
  <2>8. some \in PlaceType /\ some.found = TRUE
    BY <2>4, <2>6, <2>7 DEF PlaceType, Place
  <2>9. IsAt(d, i, k, j0, name) /\ PlaceAt(some, d, i, k, j0)
    BY <2>4, <2>5 DEF IsAt, PlaceAt, EntryAt
  <2> QED BY <1>1, <1>4, <2>8, <2>9
<1> QED BY <1>3, <1>4

\* ... and is found if there is one, where pointers have no holes.
LEMMA FindNameMisses ==
  ASSUME NEW d \in DiskType, NEW i \in InodeNum, NEW name, NEW prev \in PlaceType,
         NoHoles(d, i), NEW k, NEW j, IsAt(d, i, k, j, name)
  PROVE  findName(d, i, name, prev).found
<1>1. PICK x \in DOMAIN ScannedBlocks(d, i) : ScannedBlocks(d, i)[x] = PtrOf(d, i, k)
  BY LinkedIsScanned DEF IsAt
<1>2. Ents(d.blk[ScannedBlocks(d, i)[x]])[j].name = name /\ j \in Entry
  BY <1>1 DEF IsAt, EntryAt
<1> DEFINE f == findName(d, i, name, prev).found
<1>3. ~f => \A y \in DOMAIN ScannedBlocks(d, i), m \in Entry :
                Ents(d.blk[ScannedBlocks(d, i)[y]])[m].name # name
  BY FindNameFinds
<1> HIDE DEF f
<1>4. f
  BY <1>2, <1>3
<1> QED BY <1>4 DEF f

---------------------------------------------------------------------------
(* Following paths *)

WalkStart == [n |-> 0, ino |-> 0, dir |-> 0, place |-> NoPlace]

\* One name more.
WalkOn(d, v, name, k) ==
  LET p == findName(d, v.ino, name, v.place)
  IN  IF v.n = k - 1 /\ p.found
        THEN [n |-> k, ino |-> p.ents[p.idx].ino, dir |-> v.ino, place |-> p]
        ELSE v

\* The function behind Walk.
IsWalk(g, d, path, n) ==
  g = [k \in 0 .. n |-> IF k = 0 THEN WalkStart ELSE WalkOn(d, g[k - 1], path[k], k)]
\* Such a function, and where it begins.
WalkFn(d, path) == CHOOSE g : IsWalk(g, d, path, Len(path))

\* There is a function that follows the path step by step.
LEMMA WalkExists ==
  ASSUME NEW d, NEW path, NEW n \in Nat
  PROVE  \E g : IsWalk(g, d, path, n)
<1> DEFINE T == {k \in Nat : ~ \E g : IsWalk(g, d, path, k)}
<1>1. SUFFICES ASSUME T # {} PROVE FALSE
  OBVIOUS
<1>2. PICK m \in T : \A y \in T : m <= y
  <2>1. T \subseteq Nat
    OBVIOUS
  <2> HIDE DEF T
  <2> QED BY <1>1, <2>1, LeastNatural
<1>3. m # 0
  <2>1. IsWalk([k \in 0 .. 0 |-> WalkStart], d, path, 0)
    BY DEF IsWalk
  <2> QED BY <2>1
<1>4. PICK g : IsWalk(g, d, path, m - 1)
  <2>1. m - 1 \in Nat /\ m - 1 < m
    BY <1>3
  <2>2. m - 1 \notin T
    BY <1>2, <2>1
  <2> QED BY <2>1, <2>2
<1> DEFINE h == [k \in 0 .. m |-> IF k = m THEN WalkOn(d, g[m - 1], path[m], m) ELSE g[k]]
<1>5. IsWalk(h, d, path, m)
  <2>1. \A k \in 0 .. m - 1 : g[k] = IF k = 0 THEN WalkStart ELSE WalkOn(d, g[k - 1], path[k], k)
    BY <1>4 DEF IsWalk
  <2>2. \A k \in 0 .. m : k # m => k \in 0 .. m - 1
    OBVIOUS
  <2>3. \A k \in 0 .. m : h[k] = IF k = 0 THEN WalkStart ELSE WalkOn(d, h[k - 1], path[k], k)
    <3> TAKE k \in 0 .. m
    <3>1. CASE k = m
      <4>1. k # 0 /\ k - 1 \in 0 .. m /\ k - 1 # m
        BY <1>3, <3>1
      <4> QED BY <3>1, <4>1
    <3>2. CASE k # m
      <4>1. k \in 0 .. m - 1 /\ h[k] = g[k]
        BY <2>2, <3>2
      <4>2. k # 0 => k - 1 \in 0 .. m /\ k - 1 # m
        BY <3>2
      <4> QED BY <2>1, <4>1, <4>2
    <3> QED BY <3>1, <3>2
  <2> HIDE DEF h
  <2>4. h = [k \in 0 .. m |-> h[k]]
    BY DEF h
  <2> QED BY <2>3, <2>4 DEF IsWalk
<1> QED BY <1>5

\* Paths that begin alike are followed alike.
Alike(p, q, k) == \A x \in 1 .. k : p[x] = q[x]

\* It is the only one, and paths that begin alike are followed alike.
LEMMA WalkUnique ==
  ASSUME NEW d, NEW p, NEW q, NEW n \in Nat, NEW m \in Nat, NEW g, NEW h,
         IsWalk(g, d, p, n), IsWalk(h, d, q, m),
         NEW k \in Nat, k <= n, k <= m, Alike(p, q, k)
  PROVE  g[k] = h[k]
<1> DEFINE T == {x \in Nat : x <= k /\ g[x] # h[x]}
<1>1. SUFFICES ASSUME T # {} PROVE FALSE
  OBVIOUS
<1>2. PICK x \in T : \A y \in T : x <= y
  <2>1. T \subseteq Nat
    OBVIOUS
  <2> HIDE DEF T
  <2> QED BY <1>1, <2>1, LeastNatural
<1>3. /\ g[x] = IF x = 0 THEN WalkStart ELSE WalkOn(d, g[x - 1], p[x], x)
      /\ h[x] = IF x = 0 THEN WalkStart ELSE WalkOn(d, h[x - 1], q[x], x)
  <2>1. x \in 0 .. n /\ x \in 0 .. m
    OBVIOUS
  <2> QED BY <2>1 DEF IsWalk
<1>4. x # 0
  BY <1>3
<1>5. g[x - 1] = h[x - 1]
  <2>1. x - 1 \in Nat /\ x - 1 <= k /\ x - 1 < x
    BY <1>4
  <2>2. x - 1 \notin T
    BY <1>2, <2>1
  <2> QED BY <2>1, <2>2
<1>6. p[x] = q[x]
  BY <1>4 DEF Alike
<1> QED BY <1>3, <1>5, <1>6

\* Walk is this function at the length of the path.
LEMMA WalkIs ==
  ASSUME NEW d, NEW S, NEW p \in Seq(S)
  PROVE  /\ IsWalk(WalkFn(d, p), d, p, Len(p))
         /\ Walk(d, p) = WalkFn(d, p)[Len(p)]
<1>0. Len(p) \in Nat
  OBVIOUS
<1>1. IsWalk(WalkFn(d, p), d, p, Len(p))
  BY <1>0, WalkExists DEF WalkFn
<1>2. Walk(d, p) = WalkFn(d, p)[Len(p)]
  BY DEF Walk, WalkFn, IsWalk, WalkOn, WalkStart
<1> QED BY <1>1, <1>2

\* The path of no names is the root's; a longer path is followed like the one
\* without its last name, and on.
LEMMA WalkNone == ASSUME NEW d PROVE Walk(d, <<>>) = WalkStart
<1>1. <<>> \in Seq({}) /\ Len(<<>>) = 0
  OBVIOUS
<1>2. IsWalk(WalkFn(d, <<>>), d, <<>>, 0) /\ Walk(d, <<>>) = WalkFn(d, <<>>)[0]
  BY <1>1, WalkIs
<1> QED BY <1>2 DEF IsWalk

\* A path without its last name.
LEMMA UpIs ==
  ASSUME NEW S, NEW p \in Seq(S), p # <<>>
  PROVE  /\ Len(p) \in Nat \ {0} /\ Up(p) \in Seq(S) /\ Len(Up(p)) = Len(p) - 1
         /\ \A x \in 1 .. Len(p) - 1 : Up(p)[x] = p[x]
<1> DEFINE l == Len(p) - 1
<1>1. Len(p) \in Nat \ {0} /\ l \in Nat /\ l <= Len(p)
  OBVIOUS
<1>2. \A k \in Nat : k <= Len(p) =>
        /\ SubSeq(p, 1, k) \in Seq(S) /\ Len(SubSeq(p, 1, k)) = k
        /\ \A x \in 1 .. k : SubSeq(p, 1, k)[x] = p[x]
  OBVIOUS
<1> QED BY <1>1, <1>2 DEF Up

\* A path is followed as far as the one it leads through, then one name on.
LEMMA WalkLonger ==
  ASSUME NEW d, NEW S, NEW p \in Seq(S), p # <<>>
  PROVE  Walk(d, p) = WalkOn(d, Walk(d, Up(p)), p[Len(p)], Len(p))
<1> DEFINE l == Len(p)
           g == WalkFn(d, p)
           h == WalkFn(d, Up(p))
<1>1. l \in Nat \ {0} /\ l - 1 \in Nat /\ Up(p) \in Seq(S) /\ Len(Up(p)) = l - 1
      /\ \A x \in 1 .. l - 1 : p[x] = Up(p)[x]
  BY UpIs
<1>2. IsWalk(g, d, p, l) /\ Walk(d, p) = g[l]
  BY WalkIs
<1>3. IsWalk(h, d, Up(p), l - 1) /\ Walk(d, Up(p)) = h[l - 1]
  BY <1>1, WalkIs
<1> HIDE DEF g, h, l
<1>4. g[l] = WalkOn(d, g[l - 1], p[l], l)
  BY <1>1, <1>2 DEF IsWalk
<1>5. g[l - 1] = h[l - 1]
  <2> DEFINE k == l - 1
             q == Up(p)
  <2>1. /\ k \in Nat /\ k <= l /\ k <= k /\ l \in Nat
        /\ Alike(p, q, k)
    BY <1>1 DEF Alike
  <2>2. IsWalk(g, d, p, l) /\ IsWalk(h, d, q, k)
    BY <1>2, <1>3
  <2> HIDE DEF k, q
  <2>3. g[k] = h[k]
    BY <2>1, <2>2, WalkUnique
  <2> QED BY <2>3 DEF k
<1> QED BY <1>2, <1>3, <1>4, <1>5 DEF l

\* A path is a sequence of plain names with all that lead to it.
LEMMA PathIs ==
  ASSUME NEW p \in Path
  PROVE  /\ p \in Seq(Name) /\ p # <<>> /\ Len(p) \in Nat \ {0}
         /\ \A k \in 1 .. Len(p) : SubSeq(p, 1, k) \in Path /\ Plain(p[k]) /\ p[k] \in Name
<1>1. p \in Seq(STRING) /\ p # <<>> /\ \A n \in 1 .. Len(p) : SubSeq(p, 1, n) \in Path
  BY NamesAssumption DEF Names!NameSpaceAssumption
<1>2. \A k \in 1 .. Len(p) : Plain(p[k])
  BY PathAssumption DEF Path
<1>3. \A k \in 1 .. Len(p) : p[k] \in Name
  <2> DEFINE all == {p[k] : k \in 1 .. Len(p)}
  <2>1. all \in {{q[k] : k \in 1 .. Len(q)} : q \in Path}
    OBVIOUS
  <2>2. \A k \in 1 .. Len(p) : p[k] \in all
    OBVIOUS
  <2> HIDE DEF all
  <2>3. all \subseteq Name
    BY <2>1 DEF Name
  <2> QED BY <2>2, <2>3
<1>4. p \in Seq(Name) /\ Len(p) \in Nat \ {0}
  BY <1>1, <1>3
<1> QED BY <1>1, <1>2, <1>3, <1>4

\* Prefixes.
LEMMA PrefixIs ==
  ASSUME NEW S, NEW p \in Seq(S), NEW k \in 0 .. Len(p)
  PROVE  /\ SubSeq(p, 1, k) \in Seq(S) /\ Len(SubSeq(p, 1, k)) = k
         /\ \A x \in 1 .. k : SubSeq(p, 1, k)[x] = p[x]
OBVIOUS

\* Sequences with the same members are the same.
LEMMA SameSequence ==
  ASSUME NEW S, NEW p \in Seq(S), NEW q \in Seq(S), Len(p) = Len(q), \A x \in 1 .. Len(p) : p[x] = q[x]
  PROVE  p = q
<1>1. DOMAIN p = 1 .. Len(p) /\ DOMAIN q = 1 .. Len(p)
  OBVIOUS
<1>2. p = [x \in 1 .. Len(p) |-> p[x]] /\ q = [x \in 1 .. Len(p) |-> q[x]]
  BY <1>1
<1> QED BY <1>2

\* The beginnings of a path without its last name are the path's.
LEMMA PrefixOfUp ==
  ASSUME NEW S, NEW p \in Seq(S), p # <<>>, NEW k \in 0 .. Len(p) - 1
  PROVE  SubSeq(Up(p), 1, k) = SubSeq(p, 1, k)
<1> DEFINE u == Up(p)
           a == SubSeq(u, 1, k)
           b == SubSeq(p, 1, k)
<1>1. Len(p) \in Nat \ {0} /\ u \in Seq(S) /\ Len(u) = Len(p) - 1
      /\ \A x \in 1 .. Len(p) - 1 : u[x] = p[x]
  BY UpIs
<1>2. k \in 0 .. Len(u) /\ k \in 0 .. Len(p) /\ k \in Nat
  BY <1>1
<1> HIDE DEF u
<1>3. a \in Seq(S) /\ Len(a) = k /\ \A x \in 1 .. k : a[x] = u[x]
  BY <1>1, <1>2, PrefixIs
<1>4. b \in Seq(S) /\ Len(b) = k /\ \A x \in 1 .. k : b[x] = p[x]
  BY <1>2, PrefixIs
<1> HIDE DEF a, b
<1>5. \A x \in 1 .. k : a[x] = b[x]
  <2>1. \A x \in 1 .. k : x \in 1 .. Len(p) - 1
    BY <1>1
  <2> QED BY <1>1, <1>3, <1>4, <2>1
<1>6. a = b
  BY <1>3, <1>4, <1>5, SameSequence
<1> QED BY <1>6 DEF a, b, u

\* A path is its own longest beginning.
LEMMA WholePrefix ==
  ASSUME NEW S, NEW p \in Seq(S)
  PROVE  SubSeq(p, 1, Len(p)) = p
<1> DEFINE q == SubSeq(p, 1, Len(p))
<1>1. Len(p) \in 0 .. Len(p)
  OBVIOUS
<1>2. q \in Seq(S) /\ Len(q) = Len(p) /\ \A x \in 1 .. Len(p) : q[x] = p[x]
  BY <1>1, PrefixIs
<1> HIDE DEF q
<1>3. q = p
  BY <1>2, SameSequence
<1> QED BY <1>3 DEF q

---------------------------------------------------------------------------
\* The walk w of path p over the disk d: its last name was found at its place,
\* it is the walk of that part of the path, and the next name is not found.
WalkRight(d, p, w) ==
  /\ w.n \in 0 .. Len(p) /\ w.ino \in InodeNum /\ w.dir \in InodeNum /\ w.place \in PlaceType
  /\ w.n = 0 => w.ino = 0
  /\ w.n # 0 => \E k, j : /\ IsAt(d, w.dir, k, j, p[w.n]) /\ PlaceAt(w.place, d, w.dir, k, j)
                          /\ w.ino = EntryAt(d, w.dir, k, j).ino
  /\ Walk(d, SubSeq(p, 1, w.n)) = w
  /\ w.n < Len(p) => ~findName(d, w.ino, p[w.n + 1], w.place).found

\* One name more keeps what a followed path is.
LEMMA WalkOnRight ==
  ASSUME NEW d \in DiskType, NEW S, NEW p \in Seq(S), p # <<>>, WalkRight(d, Up(p), Walk(d, Up(p)))
  PROVE  WalkRight(d, p, Walk(d, p))
<1> DEFINE l == Len(p)
           u == Up(p)
           v == Walk(d, u)
           w == Walk(d, p)
           f == findName(d, v.ino, p[l], v.place)
<1>1. l \in Nat \ {0} /\ u \in Seq(S) /\ Len(u) = l - 1 /\ \A x \in 1 .. l - 1 : u[x] = p[x]
  BY UpIs
<1>2. w = IF v.n = l - 1 /\ f.found
            THEN [n |-> l, ino |-> f.ents[f.idx].ino, dir |-> v.ino, place |-> f] ELSE v
  BY WalkLonger DEF WalkOn
<1>3. WalkRight(d, u, v)
  OBVIOUS
<1>4. /\ v.n \in 0 .. l - 1 /\ v.ino \in InodeNum /\ v.dir \in InodeNum /\ v.place \in PlaceType
  BY <1>1, <1>3 DEF WalkRight
<1> HIDE DEF u, v, w, l
<1>5. CASE v.n = l - 1 /\ f.found
  <2>1. f \in PlaceType /\ \E k, j : IsAt(d, v.ino, k, j, p[l]) /\ PlaceAt(f, d, v.ino, k, j)
    BY <1>4, <1>5, FindNameFinds
  <2> HIDE DEF f
  <2>2. PICK k, j : IsAt(d, v.ino, k, j, p[l]) /\ PlaceAt(f, d, v.ino, k, j)
    BY <2>1
  <2>3. w.n = l /\ w.ino = f.ents[f.idx].ino /\ w.dir = v.ino /\ w.place = f
    BY <1>2, <1>5
  <2>4. f.ents[f.idx] = EntryAt(d, v.ino, k, j)
    BY <2>2 DEF PlaceAt, Place, EntryAt
  <2>5. w.ino \in InodeNum
    <3>1. f.ents[f.idx] \in EntryType
      BY <2>1 DEF PlaceType
    <3> QED BY <2>3, <3>1 DEF EntryType
  <2>6. Walk(d, SubSeq(p, 1, l)) = w
    BY WholePrefix DEF w, l
  <2>7. l \in 0 .. l /\ l # 0 /\ ~(l < l)
    BY <1>1
  <2>8. /\ IsAt(d, w.dir, k, j, p[w.n]) /\ PlaceAt(w.place, d, w.dir, k, j)
        /\ w.ino = EntryAt(d, w.dir, k, j).ino
    BY <2>2, <2>3, <2>4
  <2> QED BY <1>4, <2>1, <2>3, <2>5, <2>6, <2>7, <2>8 DEF WalkRight, l, w
<1>6. CASE ~(v.n = l - 1 /\ f.found)
  <2>1. w = v
    BY <1>2, <1>6
  <2>2. v.n \in 0 .. l
    BY <1>1, <1>4
  <2>3. v.n # 0 => p[v.n] = u[v.n]
    <3>1. v.n # 0 => v.n \in 1 .. l - 1
      BY <1>4
    <3> QED BY <1>1, <3>1
  <2>4. Walk(d, SubSeq(p, 1, v.n)) = v
    <3>1. SubSeq(u, 1, v.n) = SubSeq(p, 1, v.n)
      BY <1>4, PrefixOfUp DEF l, u
    <3> QED BY <1>3, <3>1 DEF WalkRight
  <2>5. v.n < l => ~findName(d, v.ino, p[v.n + 1], v.place).found
    <3>1. CASE v.n = l - 1
      <4>1. v.n + 1 = l
        BY <1>1, <3>1
      <4> QED BY <1>6, <3>1, <4>1
    <3>2. CASE v.n # l - 1
      <4> DEFINE m == v.n + 1
      <4>1. v.n < Len(u) /\ m \in 1 .. l - 1
        BY <1>1, <1>4, <3>2
      <4>2. u[m] = p[m]
        BY <1>1, <4>1
      <4>3. ~findName(d, v.ino, u[m], v.place).found
        BY <1>3, <4>1 DEF WalkRight
      <4> QED BY <4>2, <4>3
    <3> QED BY <3>1, <3>2
  <2>6. WalkRight(d, p, v)
    <3>1. v.n = 0 => v.ino = 0
      BY <1>3 DEF WalkRight
    <3>2. v.n # 0 => \E k, j : /\ IsAt(d, v.dir, k, j, p[v.n]) /\ PlaceAt(v.place, d, v.dir, k, j)
                               /\ v.ino = EntryAt(d, v.dir, k, j).ino
      BY <1>3, <2>3 DEF WalkRight
    <3> QED BY <1>4, <2>2, <2>4, <2>5, <3>1, <3>2 DEF WalkRight, l
  <2> QED BY <2>1, <2>6 DEF w
<1> QED BY <1>5, <1>6

\* A followed path is as far as its names are there, for every path.
LEMMA WalkIsRight ==
  ASSUME NEW d \in DiskType, NEW S, NEW p \in Seq(S)
  PROVE  WalkRight(d, p, Walk(d, p))
<1> DEFINE T == {k \in Nat : \E q \in Seq(S) : Len(q) = k /\ ~WalkRight(d, q, Walk(d, q))}
<1>1. SUFFICES ASSUME T # {} PROVE FALSE
  <2>1. Len(p) \in Nat /\ Len(p) \notin T
    BY <1>1
  <2> QED BY <2>1
<1>2. PICK k \in T : \A y \in T : k <= y
  <2>1. T \subseteq Nat
    OBVIOUS
  <2> HIDE DEF T
  <2> QED BY <1>1, <2>1, LeastNatural
<1>3. PICK q \in Seq(S) : Len(q) = k /\ ~WalkRight(d, q, Walk(d, q))
  OBVIOUS
<1>4. CASE q = <<>>
  <2>1. WalkRight(d, <<>>, WalkStart)
    <3>1. 0 \in InodeNum
      BY GeometryAssumption DEF InodeNum
    <3>2. WalkStart.place \in PlaceType
      BY NoPlaceTyped DEF WalkStart
    <3>3. SubSeq(<<>>, 1, 0) = <<>> /\ Len(<<>>) = 0 /\ 0 \in 0 .. 0
      OBVIOUS
    <3>4. Walk(d, SubSeq(<<>>, 1, 0)) = WalkStart
      BY <3>3, WalkNone
    <3>5. WalkStart.n = 0 /\ WalkStart.ino = 0 /\ WalkStart.dir = 0
      BY DEF WalkStart
    <3> QED BY <3>1, <3>2, <3>3, <3>4, <3>5 DEF WalkRight
  <2> QED BY <1>3, <1>4, <2>1, WalkNone
<1>5. CASE q # <<>>
  <2>1. Up(q) \in Seq(S) /\ Len(Up(q)) = k - 1 /\ k \in Nat \ {0}
    BY <1>3, <1>5, UpIs
  <2>2. k - 1 \in Nat /\ k - 1 < k
    BY <2>1
  <2>3. k - 1 \notin T
    BY <1>2, <2>2
  <2>4. WalkRight(d, Up(q), Walk(d, Up(q)))
    BY <2>1, <2>2, <2>3
  <2> QED BY <1>3, <1>5, <2>4, WalkOnRight
<1> QED BY <1>4, <1>5

\* A path that is there: the walk gets to its end.
Reached(d, p) == Walk(d, p).n = Len(p)

\* What leads to a path that is there is there.
LEMMA ReachedUp ==
  ASSUME NEW d \in DiskType, NEW S, NEW p \in Seq(S), p # <<>>
  PROVE  /\ Reached(d, p) <=>
              /\ Reached(d, Up(p))
              /\ findName(d, Walk(d, Up(p)).ino, p[Len(p)], Walk(d, Up(p)).place).found
         /\ Reached(d, p) => Walk(d, p).dir = Walk(d, Up(p)).ino
<1> DEFINE l == Len(p)
           u == Up(p)
           v == Walk(d, u)
           w == Walk(d, p)
           f == findName(d, v.ino, p[l], v.place)
<1>1. l \in Nat \ {0} /\ u \in Seq(S) /\ Len(u) = l - 1
  BY UpIs
<1>2. w = IF v.n = l - 1 /\ f.found
            THEN [n |-> l, ino |-> f.ents[f.idx].ino, dir |-> v.ino, place |-> f] ELSE v
  BY WalkLonger DEF WalkOn
<1>3. v.n \in 0 .. l - 1
  BY <1>1, WalkIsRight DEF WalkRight
<1>4. Reached(d, p) <=> w.n = l
  BY DEF Reached
<1>5. Reached(d, u) <=> v.n = l - 1
  BY <1>1 DEF Reached
<1> HIDE DEF l, u, v, w, f
<1>6. w.n = l <=> (v.n = l - 1 /\ f.found)
  BY <1>1, <1>2, <1>3
<1>7. w.n = l => w.dir = v.ino
  BY <1>2, <1>6
<1> QED BY <1>4, <1>5, <1>6, <1>7 DEF l, u, v, w, f

---------------------------------------------------------------------------
(* What calls write are writes *)

LEMMA WritesAre ==
  /\ \A b \in Pointer, c \in BlockType : WriteBlock(b, c) \in Writes
  /\ \A i \in InodeNum, n \in InodeType : PutInode(i, n) \in Writes
  /\ \A b \in Block : SetBlockBitmap(b) \in Writes
  /\ \A b \in Pointer : ResetBlockBitmap(b) \in Writes
  /\ \A i \in InodeNum : SetInodeBitmap(i) \in Writes /\ ResetInodeBitmap(i) \in Writes
  /\ \A n, m \in Int : Count(n, m) \in Writes /\ PutInfo(n, m) \in Writes
<1>1. \A b \in Pointer, c \in BlockType : WriteBlock(b, c) \in Writes
  BY DEF Writes, WriteBlock, Write
<1>2. \A i \in InodeNum, n \in InodeType : PutInode(i, n) \in Writes
  BY DEF Writes, PutInode, Write
<1>3. \A b \in Block : SetBlockBitmap(b) \in Writes
  BY DEF Writes, SetBlockBitmap, Write
<1>4. \A b \in Pointer : ResetBlockBitmap(b) \in Writes
  BY DEF Writes, ResetBlockBitmap, Write
<1>5. \A i \in InodeNum : SetInodeBitmap(i) \in Writes /\ ResetInodeBitmap(i) \in Writes
  BY DEF Writes, SetInodeBitmap, ResetInodeBitmap, Write
<1>6. ASSUME NEW n \in Int, NEW m \in Int PROVE Count(n, m) \in Writes /\ PutInfo(n, m) \in Writes
  <2>1. Info(n, -n, m) \in InfoType
    BY GeometryAssumption DEF Info, InfoType
  <2> QED BY <2>1 DEF Writes, Count, PutInfo, Write
<1> QED BY <1>1, <1>2, <1>3, <1>4, <1>5, <1>6

\* What the calls put into blocks are blocks.
LEMMA BlocksAre ==
  /\ Zero \in BlockType
  /\ \A e \in [Entry -> EntryType] : DirBlock(e) \in BlockType
  /\ \A p \in [Slot -> Pointer] : PtrBlock(p) \in BlockType
  /\ \A v \in Payload : DataBlock(v) \in BlockType
BY DEF Zero, DirBlock, PtrBlock, DataBlock, BlockType

\* A free inode is an inode.
LEMMA FreeInodeTyped == FreeInode \in InodeType
BY DEF FreeInode, InodeType, Pointer

\* Allocating a block is a sequence of writes.
LEMMA AllocateTyped ==
  ASSUME NEW link \in Writes, NEW b \in Block
  PROVE  Allocate(link, b) \in Seq(Writes)
<1>1. SetBlockBitmap(b) \in Writes /\ Count(1, 0) \in Writes
  BY WritesAre
<1> QED BY <1>1 DEF Allocate

\* So is giving it back.
LEMMA FreeTyped ==
  ASSUME NEW b \in Block
  PROVE  Free(b) \in Seq(Writes)
<1>1. WriteBlock(b, Zero) \in Writes /\ ResetBlockBitmap(b) \in Writes /\ Count(-1, 0) \in Writes
  BY WritesAre, BlocksAre DEF Pointer
<1> QED BY <1>1 DEF Free

\* Sequences of writes in a row are writes.
LEMMA FlattenTyped ==
  ASSUME NEW s \in Seq(Seq(Writes)), Len(s) # 0
  PROVE  Seqs!FlattenSeq(s) \in Seq(Writes)
<1> DEFINE n == Len(s)
           B == [x \in 0 .. n |-> DiskType]
<1>1. n \in Nat \ {0}
  OBVIOUS
<1>2. BlankDisk \in DiskType
  <2>1. [b \in Block |-> Zero] \in [Block -> BlockType]
    BY BlocksAre
  <2>2. [i \in InodeNum |-> FreeInode] \in [InodeNum -> InodeType]
    BY FreeInodeTyped
  <2>3. Info(0, 0, 0) \in [alloc : Int, free : Int, inodes : Int]
    BY GeometryAssumption DEF Info
  <2> QED BY <2>1, <2>2, <2>3 DEF BlankDisk, DiskType
<1>3. \A x \in 1 .. n : \A e \in B[x - 1] : Leads(e, s[x], B[x], DiskType)
  <2> TAKE x \in 1 .. n
  <2>1. B[x - 1] = DiskType /\ B[x] = DiskType /\ s[x] \in Seq(Writes)
    BY <1>1
  <2>2. Len(s[x]) \in 0 .. Len(s[x])
    BY <2>1
  <2> QED BY <2>1, <2>2, AfterTyped DEF Leads
<1>4. BlankDisk \in B[0]
  BY <1>1, <1>2
<1> HIDE DEF n, B
<1>5. Len(s) = n
  BY DEF n
<1> QED BY <1>1, <1>3, <1>4, <1>5, LeadsFlatten

\* The rank of a number in a set of them: what it is for the k-th free block.
UpTo(S, x) == {y \in S : y <= x}

\* In a finite set of numbers every member has a rank of its own.
LEMMA RankIs ==
  ASSUME NEW S, S \subseteq Nat, IsFiniteSet(S), NEW x \in S
  PROVE  /\ Cardinality(UpTo(S, x)) \in 1 .. Cardinality(S)
         /\ \A y \in S : Cardinality(UpTo(S, x)) = Cardinality(UpTo(S, y)) => x = y
<1>1. \A z : UpTo(S, z) \subseteq S
  BY DEF UpTo
<1>2. \A z : /\ IsFiniteSet(UpTo(S, z)) /\ Cardinality(UpTo(S, z)) \in Nat /\ Cardinality(S) \in Nat
             /\ Cardinality(UpTo(S, z)) <= Cardinality(S)
  BY <1>1, FS_Subset, FS_CardinalityType
<1>3. x \in UpTo(S, x)
  BY DEF UpTo
<1>4. Cardinality(UpTo(S, x)) # 0
  BY <1>2, <1>3, FS_EmptySet
<1>5. Cardinality(UpTo(S, x)) \in 1 .. Cardinality(S)
  BY <1>2, <1>4
<1>6. ASSUME NEW y \in S, NEW z \in S, y < z,
             Cardinality(UpTo(S, y)) = Cardinality(UpTo(S, z))
      PROVE  FALSE
  <2> DEFINE A == UpTo(S, y)
             B == UpTo(S, z)
  <2>1. A \subseteq B
    <3>1. \A u \in S : u <= y => u <= z
      BY <1>6
    <3> QED BY <3>1 DEF UpTo
  <2>2. IsFiniteSet(B) /\ Cardinality(A) = Cardinality(B)
    BY <1>2, <1>6
  <2>3. z \in B /\ z \notin A
    BY <1>6 DEF UpTo
  <2> HIDE DEF A, B
  <2>4. A = B
    BY <2>1, <2>2, FS_Subset
  <2> QED BY <2>3, <2>4
<1>7. ASSUME NEW y \in S, Cardinality(UpTo(S, x)) = Cardinality(UpTo(S, y)) PROVE x = y
  <2>1. x < y \/ y < x \/ x = y
    OBVIOUS
  <2> QED BY <1>6, <1>7, <2>1
<1> QED BY <1>5, <1>7

\* The slots of an indirect block are finitely many numbers from 1.
LEMMA SlotsAre == Slot \subseteq Nat /\ IsFiniteSet(Slot) /\ 1 \in Slot
<1>1. PtrsPerBlock \in Int
  BY GeometryAssumption
<1> QED BY <1>1, GeometryAssumption, FS_Interval DEF Slot

\* The greatest of some numbers.
LEMMA GreatestIs ==
  ASSUME NEW n \in Nat, NEW S, S \subseteq 1 .. n, S # {}
  PROVE  \E x \in S : \A y \in S : y <= x
<1> DEFINE T == {k \in Nat : \E x \in S : k = n - x}
<1>1. T # {} /\ T \subseteq Nat
  <2>1. PICK x \in S : TRUE
    OBVIOUS
  <2>2. n - x \in Nat
    BY <2>1
  <2>3. n - x \in T
    BY <2>2
  <2> QED BY <2>3
<1>2. PICK k \in T : \A y \in T : k <= y
  <2> HIDE DEF T
  <2> QED BY <1>1, LeastNatural
<1>3. PICK x \in S : k = n - x
  OBVIOUS
<1>4. \A y \in S : y <= x
  <2> TAKE y \in S
  <2>1. n - y \in Nat /\ y \in Nat /\ x \in Nat
    OBVIOUS
  <2>2. n - y \in T
    BY <2>1
  <2>3. n - x <= n - y
    BY <1>2, <1>3, <2>2
  <2> QED BY <2>1, <2>3
<1> QED BY <1>4

---------------------------------------------------------------------------
\* The blocks a directory is given.
LEMMA GrowthTyped ==
  ASSUME NEW d \in DiskType, NEW p \in InodeNum, NEW place
  PROVE  Growth(d, p, place) \in Nat
<1>1. {i \in Slot : IndirectPtrs(d, d.inode[p])[i] = 0} \subseteq Slot
  OBVIOUS
<1>2. IsFiniteSet({i \in Slot : IndirectPtrs(d, d.inode[p])[i] = 0})
  BY <1>1, SlotsAre, FS_Subset
<1> QED BY <1>2, FS_CardinalityType DEF Growth

\* What a directory grows with are writes, where there are blocks enough.
LEMMA GrowDirTyped ==
  ASSUME NEW d \in DiskType, NEW p \in InodeNum, NEW place, place.full,
         Growth(d, p, place) <= Cardinality(FreeBlocks(d))
  PROVE  GrowDir(d, p) \in Seq(Writes)
<1> DEFINE n == d.inode[p]
           ptrs == IndirectPtrs(d, n)
           left == {i \in Slot : ptrs[i] = 0}
           b == GetFreeBlockNum(d, 1)
           c == GetFreeBlockNum(d, 2)
           new(i) == GetFreeBlockNum(d, Cardinality({j \in left : j <= i}))
           filled(i) == PtrBlock([j \in Slot |-> IF j \in left /\ j <= i THEN new(j) ELSE ptrs[j]])
           fill(i) == Allocate(WriteBlock(n.indir, filled(i)), new(i))
           parts == [i \in Slot |-> IF i \in left THEN fill(i) ELSE <<>>]
           rest == [n EXCEPT !.direct[2] = b]
           linked == [n EXCEPT !.indir = b]
           first == [i \in Slot |-> IF i = 1 THEN c ELSE 0]
<1>1. n \in InodeType /\ ptrs \in [Slot -> Pointer] /\ n.indir \in Pointer
  BY PointersOf DEF InodeType, Slot
<1>2. Cardinality(FreeBlocks(d)) \in Nat
  BY BlocksArePositive, FS_Subset, FS_CardinalityType DEF FreeBlocks
<1>3. \A k \in 1 .. Cardinality(FreeBlocks(d)) : GetFreeBlockNum(d, k) \in Block
  BY FreeBlockIsFree DEF FreeBlocks
<1>4. CASE n.direct[2] = 0
  <2>1. Growth(d, p, place) = 1
    BY <1>4 DEF Growth
  <2>2. b \in Block
    <3>1. 1 \in 1 .. Cardinality(FreeBlocks(d))
      BY <1>2, <2>1
    <3> QED BY <1>3, <3>1
  <2> HIDE DEF b
  <2>3. rest \in InodeType
    BY <1>1, <2>2 DEF InodeType, Pointer
  <2>4. GrowDir(d, p) = Allocate(PutInode(p, rest), b)
    BY <1>4 DEF GrowDir, b
  <2> QED BY <2>2, <2>3, <2>4, WritesAre, AllocateTyped
<1>5. CASE n.direct[2] # 0 /\ n.indir = 0
  <2>1. Growth(d, p, place) = 2
    BY <1>5 DEF Growth
  <2>2. b \in Block /\ c \in Block
    <3>1. 1 \in 1 .. Cardinality(FreeBlocks(d)) /\ 2 \in 1 .. Cardinality(FreeBlocks(d))
      BY <1>2, <2>1
    <3> QED BY <1>3, <3>1
  <2> HIDE DEF b, c
  <2>3. linked \in InodeType /\ first \in [Slot -> Pointer]
    BY <1>1, <2>2 DEF InodeType, Pointer
  <2>4. GrowDir(d, p) = Allocate(PutInode(p, linked), b) \o Allocate(WriteBlock(b, PtrBlock(first)), c)
    BY <1>5 DEF GrowDir, b, c
  <2> HIDE DEF linked, first
  <2>5. b \in Pointer
    BY <2>2 DEF Pointer
  <2>6. PutInode(p, linked) \in Writes /\ WriteBlock(b, PtrBlock(first)) \in Writes
    BY <2>3, <2>5, WritesAre, BlocksAre
  <2>7. Allocate(PutInode(p, linked), b) \in Seq(Writes) /\ Allocate(WriteBlock(b, PtrBlock(first)), c) \in Seq(Writes)
    BY <2>2, <2>6, AllocateTyped
  <2> QED BY <2>4, <2>7
<1>6. CASE n.direct[2] # 0 /\ n.indir # 0
  <2>1. Growth(d, p, place) = Cardinality(left)
    BY <1>6 DEF Growth
  <2>2. GrowDir(d, p) = Seqs!FlattenSeq(parts)
    BY <1>6 DEF GrowDir
  <2>3. left \subseteq Slot
    OBVIOUS
  <2>4. left \subseteq Nat /\ IsFiniteSet(left) /\ Cardinality(left) \in Nat
    BY <2>3, SlotsAre, FS_Subset, FS_CardinalityType
  <2>5. \A i \in left : new(i) \in Block
    <3> HIDE DEF left
    <3> TAKE i \in left
    <3>1. Cardinality(UpTo(left, i)) \in 1 .. Cardinality(left)
      BY <2>4, RankIs
    <3>2. Cardinality(UpTo(left, i)) \in 1 .. Cardinality(FreeBlocks(d))
      BY <1>2, <2>1, <2>4, <3>1
    <3> QED BY <1>3, <3>2 DEF UpTo
  <2> HIDE DEF new
  <2>6. \A i : filled(i) \in BlockType
    <3> TAKE i
    <3>1. [j \in Slot |-> IF j \in left /\ j <= i THEN new(j) ELSE ptrs[j]] \in [Slot -> Pointer]
      BY <1>1, <2>5 DEF Pointer
    <3> QED BY <3>1, BlocksAre
  <2> HIDE DEF filled
  <2>7. \A i \in left : fill(i) \in Seq(Writes)
    <3> TAKE i \in left
    <3>1. WriteBlock(n.indir, filled(i)) \in Writes
      BY <1>1, <2>6, WritesAre
    <3> QED BY <2>5, <3>1, AllocateTyped
  <2> HIDE DEF fill
  <2>8. parts \in Seq(Seq(Writes)) /\ Len(parts) = PtrsPerBlock
    <3>1. \A i \in Slot : (IF i \in left THEN fill(i) ELSE <<>>) \in Seq(Writes)
      BY <2>7
    <3>2. PtrsPerBlock \in Nat
      BY GeometryAssumption
    <3> HIDE DEF left
    <3> QED BY <3>1, <3>2 DEF Slot
  <2>9. Len(parts) # 0
    BY <2>8, GeometryAssumption
  <2> HIDE DEF parts
  <2> QED BY <2>2, <2>8, <2>9, FlattenTyped
<1> QED BY <1>4, <1>5, <1>6

\* What Room says of a disk.
Enough(d, blocks) == blocks <= Cardinality(FreeBlocks(d))

\* Where there are n free blocks the n-th is a block.
LEMMA EnoughGives ==
  ASSUME NEW d \in DiskType, NEW n \in Nat \ {0}, Enough(d, n)
  PROVE  GetFreeBlockNum(d, n) \in Block /\ GetFreeBlockNum(d, n) \in Pointer
<1>1. Cardinality(FreeBlocks(d)) \in Nat
  BY BlocksArePositive, FS_Subset, FS_CardinalityType DEF FreeBlocks
<1>2. n \in 1 .. Cardinality(FreeBlocks(d))
  BY <1>1 DEF Enough
<1> QED BY <1>2, FreeBlockIsFree DEF FreeBlocks, Pointer

\* The writes of a grown directory, and the place in it for a new name.
LEMMA GrownTyped ==
  ASSUME NEW d \in DiskType, NEW p \in InodeNum, NEW place \in PlaceType,
         Enough(d, Growth(d, p, place))
  PROVE  Grown(d, p, place) \in Seq(Writes) /\ RoomFor(d, p, place) \in PlaceType
<1>1. Growth(d, p, place) \in Nat
  BY GrowthTyped
<1>2. Grown(d, p, place) \in Seq(Writes)
  <2>1. CASE place.full
    BY <2>1, GrowDirTyped DEF Enough, Grown
  <2>2. CASE ~place.full
    BY <2>2 DEF Grown
  <2> QED BY <2>1, <2>2
<1>3. CASE Growth(d, p, place) = 0
  BY <1>2, <1>3 DEF RoomFor
<1>4. CASE Growth(d, p, place) # 0
  <2>1. Growth(d, p, place) \in Nat \ {0}
    BY <1>1, <1>4
  <2>2. GetFreeBlockNum(d, Growth(d, p, place)) \in Block
    BY <2>1, EnoughGives
  <2>3. NoEntries \in [Entry -> EntryType]
    <3>1. NoEntry \in EntryType
      BY GeometryAssumption DEF NoEntry, EntryType, Name, InodeNum
    <3> QED BY <3>1 DEF NoEntries
  <2> HIDE DEF Growth
  <2> QED BY <1>2, <1>4, <2>2, <2>3, EntryIsBig DEF RoomFor, Place, PlaceType
<1> QED BY <1>3, <1>4

\* No entry is an entry.
LEMMA NoEntryTyped == NoEntry \in EntryType /\ NoEntries \in [Entry -> EntryType]
<1>1. NoEntry \in EntryType
  BY GeometryAssumption DEF NoEntry, EntryType, Name, InodeNum
<1> QED BY <1>1 DEF NoEntries

\* The parts of a place.
LEMMA PlaceParts ==
  ASSUME NEW place \in PlaceType
  PROVE  /\ place.ents \in [Entry -> EntryType] /\ place.idx \in Entry
         /\ place.blk \in Block /\ place.blk \in Pointer
         /\ place.ents[place.idx] \in EntryType /\ place.ents[place.idx].ino \in InodeNum
BY DEF PlaceType, EntryType, Pointer

\* Entering a name is a write.
LEMMA WriteEntryTyped ==
  ASSUME NEW place \in PlaceType, NEW name \in Name, NEW c \in InodeNum
  PROVE  WriteEntry(place, name, c) \in Writes
<1>1. [name |-> name, ino |-> c] \in EntryType
  BY DEF EntryType
<1>2. [place.ents EXCEPT ![place.idx] = [name |-> name, ino |-> c]] \in [Entry -> EntryType]
  BY <1>1, PlaceParts
<1> QED BY <1>2, PlaceParts, BlocksAre, WritesAre DEF WriteEntry

\* What a directory and a file are made with.
LEMMA MakeDirTyped ==
  ASSUME NEW d \in DiskType, NEW name \in Name, NEW p \in InodeNum, NEW place \in PlaceType,
         Enough(d, Growth(d, p, place) + 1), InodeNum \ d.inodeMap # {}
  PROVE  myMakeDir(d, name, p, place) \in Seq(Writes)
<1> DEFINE c == GetFreeInodeNum(d)
           b == GetFreeBlockNum(d, Growth(d, p, place) + 1)
           dots == [NoEntries EXCEPT ![1] = [name |-> ".", ino |-> c],
                                     ![2] = [name |-> "..", ino |-> p]]
           child == [type |-> "dir", direct |-> <<b, 0>>, indir |-> 0]
<1>1. Growth(d, p, place) \in Nat /\ Cardinality(FreeBlocks(d)) \in Nat
  BY GrowthTyped, BlocksArePositive, FS_Subset, FS_CardinalityType DEF FreeBlocks
<1>2. Enough(d, Growth(d, p, place))
  <2> HIDE DEF Growth
  <2> QED BY <1>1 DEF Enough
<1>3. Grown(d, p, place) \in Seq(Writes) /\ RoomFor(d, p, place) \in PlaceType
  BY <1>2, GrownTyped
<1>4. b \in Block /\ b \in Pointer
  <2> DEFINE n == Growth(d, p, place) + 1
  <2>1. n \in Nat \ {0}
    BY <1>1
  <2>2. Enough(d, n)
    OBVIOUS
  <2> HIDE DEF n
  <2>3. GetFreeBlockNum(d, n) \in Block /\ GetFreeBlockNum(d, n) \in Pointer
    BY <2>1, <2>2, EnoughGives
  <2> QED BY <2>3 DEF n
<1>5. c \in InodeNum
  BY FreeInodeIsFree
<1>6. myMakeDir(d, name, p, place) =
        Grown(d, p, place) \o
        <<WriteEntry(RoomFor(d, p, place), name, c), WriteBlock(b, DirBlock(dots)),
          PutInode(c, child), SetInodeBitmap(c), SetBlockBitmap(b), Count(1, 1)>>
  BY DEF myMakeDir
<1> HIDE DEF b, c
<1>7. dots \in [Entry -> EntryType]
  <2>1. [name |-> ".", ino |-> c] \in EntryType /\ [name |-> "..", ino |-> p] \in EntryType
    BY <1>5 DEF EntryType, Name
  <2> QED BY <2>1, NoEntryTyped, EntryIsBig
<1>8. child \in InodeType
  BY <1>4 DEF InodeType, Pointer
<1> HIDE DEF dots, child
<1>9. WriteEntry(RoomFor(d, p, place), name, c) \in Writes
  BY <1>3, <1>5, WriteEntryTyped
<1>10. /\ WriteBlock(b, DirBlock(dots)) \in Writes /\ PutInode(c, child) \in Writes
       /\ SetInodeBitmap(c) \in Writes /\ SetBlockBitmap(b) \in Writes /\ Count(1, 1) \in Writes
  BY <1>4, <1>5, <1>7, <1>8, WritesAre, BlocksAre
<1> QED BY <1>3, <1>6, <1>9, <1>10

\* Making a file is a sequence of writes.
LEMMA MakeFileTyped ==
  ASSUME NEW d \in DiskType, NEW name \in Name, NEW p \in InodeNum, NEW place \in PlaceType,
         Enough(d, Growth(d, p, place)), InodeNum \ d.inodeMap # {}
  PROVE  myMakeFile(d, name, p, place) \in Seq(Writes)
<1> DEFINE c == GetFreeInodeNum(d)
<1>1. Grown(d, p, place) \in Seq(Writes) /\ RoomFor(d, p, place) \in PlaceType
  BY GrownTyped
<1>2. c \in InodeNum
  BY FreeInodeIsFree
<1>3. myMakeFile(d, name, p, place) =
        Grown(d, p, place) \o
        <<WriteEntry(RoomFor(d, p, place), name, c), PutInode(c, FreeInode),
          SetInodeBitmap(c), Count(0, 1)>>
  BY DEF myMakeFile
<1> HIDE DEF c
<1>4. WriteEntry(RoomFor(d, p, place), name, c) \in Writes
  BY <1>1, <1>2, WriteEntryTyped
<1>5. PutInode(c, FreeInode) \in Writes /\ SetInodeBitmap(c) \in Writes /\ Count(0, 1) \in Writes
  BY <1>2, WritesAre, FreeInodeTyped
<1> QED BY <1>1, <1>3, <1>4, <1>5

---------------------------------------------------------------------------
(* What is cleared and given back *)

\* The entries behind a place that are taken, and the last of them.
Behind(place) == {j \in Entry : j > place.idx /\ place.ents[j].name # ""}
LastBehind(place) == CHOOSE j \in Behind(place) : \A k \in Behind(place) : k <= j
Moved(place) == [Cleared(place) EXCEPT ![place.idx] = place.ents[LastBehind(place)],
                                       ![LastBehind(place)] = NoEntry]

\* Clearing an entry, with the copy of the last one into its place.
LEMMA ClearEntryIs ==
  ASSUME NEW place
  PROVE  ClearEntry(place) =
           <<WriteBlock(place.blk, DirBlock(Cleared(place)))>>
           \o IF Behind(place) = {} THEN <<>> ELSE <<WriteBlock(place.blk, DirBlock(Moved(place)))>>
BY DEF ClearEntry, Moved, LastBehind, Behind

\* The last name behind an entry in its block.
LEMMA LastBehindIs ==
  ASSUME NEW place \in PlaceType, Behind(place) # {}
  PROVE  LastBehind(place) \in Behind(place) /\ \A k \in Behind(place) : k <= LastBehind(place)
<1>1. Behind(place) \subseteq 1 .. EntsPerBlock /\ EntsPerBlock \in Nat
  BY GeometryAssumption DEF Behind, Entry
<1>2. \E x \in Behind(place) : \A y \in Behind(place) : y <= x
  <2> HIDE DEF Behind
  <2> QED BY <1>1, GreatestIs
<1> QED BY <1>2 DEF LastBehind

\* Clearing an entry is a sequence of writes.
LEMMA ClearEntryTyped ==
  ASSUME NEW place \in PlaceType
  PROVE  ClearEntry(place) \in Seq(Writes)
<1>1. Cleared(place) \in [Entry -> EntryType]
  BY PlaceParts, NoEntryTyped DEF Cleared
<1>2. CASE Behind(place) = {}
  <2>1. WriteBlock(place.blk, DirBlock(Cleared(place))) \in Writes
    BY <1>1, PlaceParts, BlocksAre, WritesAre
  <2>2. ClearEntry(place) = <<WriteBlock(place.blk, DirBlock(Cleared(place)))>> \o <<>>
    BY <1>2, ClearEntryIs
  <2> QED BY <2>1, <2>2
<1>3. CASE Behind(place) # {}
  <2>1. LastBehind(place) \in Entry
    BY <1>3, LastBehindIs DEF Behind
  <2>2. Moved(place) \in [Entry -> EntryType]
    BY <1>1, <2>1, PlaceParts, NoEntryTyped DEF Moved
  <2>3. /\ WriteBlock(place.blk, DirBlock(Cleared(place))) \in Writes
        /\ WriteBlock(place.blk, DirBlock(Moved(place))) \in Writes
    BY <1>1, <2>2, PlaceParts, BlocksAre, WritesAre
  <2>4. ClearEntry(place) = <<WriteBlock(place.blk, DirBlock(Cleared(place)))>>
                            \o <<WriteBlock(place.blk, DirBlock(Moved(place)))>>
    BY <1>3, ClearEntryIs
  <2> QED BY <2>3, <2>4
<1> QED BY <1>2, <1>3

\* The pointers of an inode given back one after the other.
LEMMA FreeFileTyped ==
  ASSUME NEW d \in DiskType, NEW c \in InodeNum
  PROVE  FreeFile(d, c) \in Seq(Writes)
<1> DEFINE n == d.inode[c]
           ptrs == IndirectPtrs(d, n)
           bare == [n EXCEPT !.direct = <<0, 0>>]
           upTo(p, i) == [k \in DOMAIN p |-> IF k <= i THEN 0 ELSE p[k]]
           direct(i) == Free(n.direct[i]) \o <<PutInode(c, [n EXCEPT !.direct = upTo(@, i)])>>
           indirect(i) == Free(ptrs[i]) \o <<WriteBlock(n.indir, PtrBlock(upTo(ptrs, i)))>>
           one == [i \in 1 .. 2 |-> IF n.direct[i] # 0 THEN direct(i) ELSE <<>>]
           two == [i \in Slot |-> IF ptrs[i] # 0 THEN indirect(i) ELSE <<>>]
           last == IF n.indir = 0 THEN <<>> ELSE Free(n.indir) \o <<PutInode(c, [bare EXCEPT !.indir = 0])>>
<1>1. FreeFile(d, c) = Seqs!FlattenSeq(one \o two) \o last
  BY DEF FreeFile
<1>2. n \in InodeType /\ ptrs \in [Slot -> Pointer] /\ n.indir \in Pointer
  BY PointersOf DEF InodeType, Slot
<1>3. n.direct \in [1 .. 2 -> Pointer]
  BY PointersOf
<1>4. PtrsPerBlock \in Nat
  BY GeometryAssumption
<1> HIDE DEF n, ptrs
<1>5. ASSUME NEW i \in 1 .. 2, n.direct[i] # 0 PROVE direct(i) \in Seq(Writes)
  <2>1. n.direct[i] \in Block
    BY <1>3, <1>5 DEF Pointer
  <2>2. upTo(n.direct, i) \in [1 .. 2 -> Pointer]
    BY <1>3 DEF Pointer
  <2>3. [n EXCEPT !.direct = upTo(@, i)] \in InodeType
    BY <1>2, <2>2 DEF InodeType
  <2>4. PutInode(c, [n EXCEPT !.direct = upTo(@, i)]) \in Writes
    BY <2>3, WritesAre
  <2>5. Free(n.direct[i]) \in Seq(Writes)
    BY <2>1, FreeTyped
  <2> HIDE DEF upTo
  <2> QED BY <2>4, <2>5
<1>6. ASSUME NEW i \in Slot, ptrs[i] # 0 PROVE indirect(i) \in Seq(Writes)
  <2>1. ptrs[i] \in Block
    BY <1>2, <1>6 DEF Pointer
  <2>2. upTo(ptrs, i) \in [Slot -> Pointer]
    BY <1>2 DEF Pointer
  <2> HIDE DEF upTo
  <2>3. WriteBlock(n.indir, PtrBlock(upTo(ptrs, i))) \in Writes
    BY <1>2, <2>2, WritesAre, BlocksAre
  <2>4. Free(ptrs[i]) \in Seq(Writes)
    BY <2>1, FreeTyped
  <2> QED BY <2>3, <2>4
<1> HIDE DEF direct, indirect
<1>7. one \in Seq(Seq(Writes)) /\ Len(one) = 2
  <2>1. \A i \in 1 .. 2 : (IF n.direct[i] # 0 THEN direct(i) ELSE <<>>) \in Seq(Writes)
    BY <1>5
  <2> QED BY <2>1
<1>8. two \in Seq(Seq(Writes))
  <2>1. \A i \in Slot : (IF ptrs[i] # 0 THEN indirect(i) ELSE <<>>) \in Seq(Writes)
    BY <1>6
  <2> QED BY <1>4, <2>1 DEF Slot
<1> HIDE DEF one, two
<1>9. one \o two \in Seq(Seq(Writes)) /\ Len(one \o two) # 0
  BY <1>7, <1>8
<1> DEFINE all == one \o two
<1> HIDE DEF all
<1>10. Seqs!FlattenSeq(all) \in Seq(Writes)
  BY <1>9, FlattenTyped DEF all
<1>11. last \in Seq(Writes)
  <2>1. CASE n.indir = 0
    BY <2>1
  <2>2. CASE n.indir # 0
    <3>1. n.indir \in Block
      BY <1>2, <2>2 DEF Pointer
    <3>2. [bare EXCEPT !.indir = 0] \in InodeType
      <4>1. <<0, 0>> \in [1 .. 2 -> Pointer] /\ 0 \in Pointer
        BY DEF Pointer
      <4>2. bare \in InodeType
        BY <1>2, <4>1 DEF InodeType
      <4> HIDE DEF bare
      <4> QED BY <4>1, <4>2 DEF InodeType
    <3>3. Free(n.indir) \in Seq(Writes) /\ PutInode(c, [bare EXCEPT !.indir = 0]) \in Writes
      BY <3>1, <3>2, FreeTyped, WritesAre
    <3> HIDE DEF bare
    <3>4. last = Free(n.indir) \o <<PutInode(c, [bare EXCEPT !.indir = 0])>>
      BY <2>2
    <3> QED BY <3>3, <3>4
  <2> QED BY <2>1, <2>2
<1> HIDE DEF last
<1>12. FreeFile(d, c) = Seqs!FlattenSeq(all) \o last
  BY <1>1 DEF all
<1> QED BY <1>10, <1>11, <1>12

\* Removing a file is one.
LEMMA RemoveFileTyped ==
  ASSUME NEW d \in DiskType, NEW p \in InodeNum, NEW place \in PlaceType
  PROVE  myRemoveFile(d, p, place) \in Seq(Writes)
<1> DEFINE c == place.ents[place.idx].ino
           gone == <<PutInode(c, FreeInode), ResetInodeBitmap(c), Count(0, -1)>>
           back == IF Emptied(place) /\ d.inode[p].direct[2] = place.blk THEN Free(place.blk) ELSE <<>>
<1>1. c \in InodeNum /\ place.blk \in Block
  BY PlaceParts
<1>2. myRemoveFile(d, p, place) = FreeFile(d, c) \o gone \o ClearEntry(place) \o back
  BY DEF myRemoveFile
<1>3. FreeFile(d, c) \in Seq(Writes) /\ ClearEntry(place) \in Seq(Writes)
  BY <1>1, FreeFileTyped, ClearEntryTyped
<1>4. gone \in Seq(Writes)
  <2> HIDE DEF c
  <2>1. PutInode(c, FreeInode) \in Writes /\ ResetInodeBitmap(c) \in Writes /\ Count(0, -1) \in Writes
    BY <1>1, WritesAre, FreeInodeTyped
  <2> QED BY <2>1
<1>5. back \in Seq(Writes)
  <2>1. Free(place.blk) \in Seq(Writes)
    BY <1>1, FreeTyped
  <2> HIDE DEF Free
  <2> QED BY <2>1
<1> HIDE DEF c, gone, back
<1> QED BY <1>2, <1>3, <1>4, <1>5

\* The pointer that moves.
LEMMA ShrinkIndirectTyped ==
  ASSUME NEW d \in DiskType, NEW n \in InodeType, n.indir # 0, NEW b \in Block
  PROVE  ShrinkIndirect(d, n, b) \in Seq(Writes)
<1> DEFINE ptrs == IndirectPtrs(d, n)
           hit == {i \in Slot : ptrs[i] = b}
           to == IF hit = {} THEN 1 ELSE Least(hit)
           rest == [i \in Slot |-> IF i \in hit THEN 0 ELSE ptrs[i]]
           movable == {i \in Slot : rest[i] # 0 /\ i > (IF i < to THEN 1 ELSE to)}
           from == CHOOSE i \in movable : \A k \in movable : k <= i
           moved == [i \in Slot |-> IF i = to THEN rest[from] ELSE IF i = from THEN 0 ELSE rest[i]]
           one == IF hit = {} THEN <<>> ELSE Free(b)
           two == IF movable = {} THEN <<>> ELSE <<WriteBlock(n.indir, PtrBlock(moved))>>
           three == IF rest # NoPtrs THEN <<>>
                    ELSE <<ResetBlockBitmap(n.indir), Count(-1, 0), WriteBlock(n.indir, Zero)>>
<1>1. ShrinkIndirect(d, n, b) = one \o two \o three
  BY DEF ShrinkIndirect
<1>2. n.indir \in Pointer /\ ptrs \in [Slot -> Pointer]
  BY IndirectTyped DEF InodeType
<1> HIDE DEF ptrs, hit, to
<1>3. rest \in [Slot -> Pointer]
  BY <1>2 DEF Pointer
<1>4. one \in Seq(Writes)
  <2>1. Free(b) \in Seq(Writes)
    BY FreeTyped
  <2> QED BY <2>1
<1> HIDE DEF rest
<1>5. two \in Seq(Writes)
  <2>1. CASE movable = {}
    BY <2>1
  <2>2. CASE movable # {}
    <3>1. movable \subseteq 1 .. PtrsPerBlock /\ PtrsPerBlock \in Nat
      BY GeometryAssumption DEF Slot
    <3> HIDE DEF movable
    <3>2. \E x \in movable : \A y \in movable : y <= x
      BY <2>2, <3>1, GreatestIs
    <3>3. from \in Slot
      BY <3>1, <3>2 DEF Slot
    <3> HIDE DEF from
    <3>4. moved \in [Slot -> Pointer]
      BY <1>3, <3>3 DEF Pointer
    <3> HIDE DEF moved
    <3>5. WriteBlock(n.indir, PtrBlock(moved)) \in Writes
      BY <1>2, <3>4, WritesAre, BlocksAre
    <3> QED BY <2>2, <3>5
  <2> QED BY <2>1, <2>2
<1>6. three \in Seq(Writes)
  <2>1. /\ ResetBlockBitmap(n.indir) \in Writes /\ Count(-1, 0) \in Writes
        /\ WriteBlock(n.indir, Zero) \in Writes
    BY <1>2, WritesAre, BlocksAre
  <2> QED BY <2>1
<1> HIDE DEF one, two, three
<1> QED BY <1>1, <1>4, <1>5, <1>6

\* What RemoveDir does to the directory it removes from.
ShrinkOf(d, p, place) ==
  LET n == d.inode[p]
  IN  IF ~Emptied(place) THEN <<>>
      ELSE IF n.direct[2] = place.blk THEN Free(place.blk)
      ELSE IF n.indir # 0 THEN ShrinkIndirect(d, n, place.blk)
      ELSE <<>>
\* The count myRemoveDir ends with.
CountOf(d, p, place) ==
  IF \E k \in DOMAIN ShrinkOf(d, p, place) : ShrinkOf(d, p, place)[k].part = "info" THEN <<>>
  ELSE <<Count(-1, -1)>>

\* What removing a directory writes, in its order.
LEMMA RemoveDirIs ==
  ASSUME NEW d, NEW p, NEW place
  PROVE  LET c == place.ents[place.idx].ino
         IN  myRemoveDir(d, p, place) =
               <<WriteBlock(d.inode[c].direct[1], Zero), PutInode(c, FreeInode),
                 ResetBlockBitmap(0), ResetInodeBitmap(c)>>
               \o ClearEntry(place) \o ShrinkOf(d, p, place) \o CountOf(d, p, place)
BY DEF myRemoveDir, ShrinkOf, CountOf

\* Removing a directory is a sequence of writes.
LEMMA RemoveDirTyped ==
  ASSUME NEW d \in DiskType, NEW p \in InodeNum, NEW place \in PlaceType
  PROVE  myRemoveDir(d, p, place) \in Seq(Writes)
<1> DEFINE c == place.ents[place.idx].ino
           gone == <<WriteBlock(d.inode[c].direct[1], Zero), PutInode(c, FreeInode),
                     ResetBlockBitmap(0), ResetInodeBitmap(c)>>
<1>1. c \in InodeNum /\ place.blk \in Block
  BY PlaceParts
<1>2. myRemoveDir(d, p, place) = gone \o ClearEntry(place) \o ShrinkOf(d, p, place) \o CountOf(d, p, place)
  BY RemoveDirIs
<1>3. gone \in Seq(Writes)
  <2> HIDE DEF c
  <2>1. d.inode[c].direct[1] \in Pointer /\ 0 \in Pointer
    BY <1>1, PointersOf DEF Pointer
  <2>2. /\ WriteBlock(d.inode[c].direct[1], Zero) \in Writes /\ PutInode(c, FreeInode) \in Writes
        /\ ResetBlockBitmap(0) \in Writes /\ ResetInodeBitmap(c) \in Writes
    BY <1>1, <2>1, WritesAre, FreeInodeTyped, BlocksAre
  <2> QED BY <2>2
<1>4. ShrinkOf(d, p, place) \in Seq(Writes)
  <2>1. d.inode[p] \in InodeType
    BY PointersOf
  <2>2. Free(place.blk) \in Seq(Writes)
    BY <1>1, FreeTyped
  <2>3. d.inode[p].indir # 0 => ShrinkIndirect(d, d.inode[p], place.blk) \in Seq(Writes)
    BY <1>1, <2>1, ShrinkIndirectTyped
  <2> QED BY <2>2, <2>3 DEF ShrinkOf
<1>5. CountOf(d, p, place) \in Seq(Writes)
  <2>1. Count(-1, -1) \in Writes
    BY WritesAre
  <2> QED BY <2>1 DEF CountOf
<1>6. ClearEntry(place) \in Seq(Writes)
  BY ClearEntryTyped
<1> HIDE DEF gone
<1> QED BY <1>2, <1>3, <1>4, <1>5, <1>6

---------------------------------------------------------------------------
(* What a write to a file writes *)

\* The parts of PutBlocks, with W the blocks it wants.
NewFor(d, W, w) == GetFreeBlockNum(d, Cardinality(UpTo(W, w)))
Now(d, W, w, old, u) == IF w \in W /\ w <= u THEN NewFor(d, W, w) ELSE old
Evens(W) == {w \in W : w % 2 = 0}
IndirNow(d, n, W, u) ==
  IF \E w \in W : w % 2 = 0 /\ w <= u THEN NewFor(d, W, CHOOSE w \in W : w % 2 = 0) ELSE n.indir
InodeNow(d, n, W, u) ==
  [n EXCEPT !.direct = <<Now(d, W, 1, @[1], u), Now(d, W, 3, @[2], u)>>, !.indir = IndirNow(d, n, W, u)]
PtrsNow(d, n, W, u) == [s \in Slot |-> Now(d, W, 2 * s + 3, IndirectPtrs(d, n)[s], u)]
LinkNow(d, i, W, u) ==
  IF u < 4 \/ u % 2 = 0 THEN PutInode(i, InodeNow(d, d.inode[i], W, u))
  ELSE WriteBlock(IndirNow(d, d.inode[i], W, u), PtrBlock(PtrsNow(d, d.inode[i], W, u)))
AllocNow(d, i, W, u) == IF u \in W THEN Allocate(LinkNow(d, i, W, u), NewFor(d, W, u)) ELSE <<>>
PutNow(d, i, W, k, v) ==
  AllocNow(d, i, W, 2 * k) \o AllocNow(d, i, W, 2 * k + 1)
  \o <<WriteBlock(Now(d, W, 2 * k + 1, PtrAt(d, d.inode[i], k), 2 * k + 1), DataBlock(v))>>

\* What a write to a file writes, block after block.
LEMMA PutBlocksIs ==
  ASSUME NEW d, NEW i, NEW from, NEW to, NEW v
  PROVE  PutBlocks(d, i, from, to, v) =
           Seqs!FlattenSeq([x \in 1 .. to - from + 1 |->
                             PutNow(d, i, Wanted(d, d.inode[i], from .. to), from + x - 1, v)])
BY DEF PutBlocks, PutNow, AllocNow, LinkNow, PtrsNow, InodeNow, IndirNow, Now, NewFor, UpTo

\* The pointer for an index of a file by position.
LEMMA IndexIs ==
  /\ MaxBlocks \in Nat
  /\ \A k \in 0 .. MaxBlocks - 1 :
       /\ k \in Nat /\ k + 1 \in DataPos
       /\ k < 2 => k = 0 \/ k = 1
       /\ ~(k < 2) => k - 1 \in Slot /\ (k - 1) + 2 = k + 1
<1>1. PtrsPerBlock \in Nat \ {0}
  BY GeometryAssumption
<1> QED BY <1>1 DEF MaxBlocks, DataPos, Pos, Slot

\* Block k of a file is behind its pointer k + 1.
LEMMA PtrAtIs ==
  ASSUME NEW d, NEW i, NEW k \in 0 .. MaxBlocks - 1
  PROVE  PtrAt(d, d.inode[i], k) = PtrOf(d, i, k + 1)
<1>1. k < 2 => k = 0 \/ k = 1
  BY IndexIs
<1>2. ~(k < 2) => k - 1 \in Slot /\ (k - 1) + 2 = k + 1
  BY IndexIs
<1>3. \A s \in Slot : PtrOf(d, i, s + 2) = IndirectPtrs(d, d.inode[i])[s]
  BY PtrByPos
<1>4. ~(k < 2) => PtrOf(d, i, k + 1) = IndirectPtrs(d, d.inode[i])[k - 1]
  <2> DEFINE s == k - 1
  <2> HIDE DEF s
  <2>1. ~(k < 2) => s \in Slot /\ s + 2 = k + 1
    BY <1>2 DEF s
  <2> QED BY <1>3, <2>1 DEF s
<1>5. /\ k = 0 => d.inode[i].direct[k + 1] = d.inode[i].direct[1] /\ k + 1 = 1
      /\ k = 1 => d.inode[i].direct[k + 1] = d.inode[i].direct[2] /\ k + 1 = 2
  OBVIOUS
<1> QED BY <1>1, <1>4, <1>5, PtrByPos DEF PtrAt

\* What is wanted: numbers, at most one of them even.
LEMMA WantedIs ==
  ASSUME NEW d, NEW i, NEW from \in Nat, NEW to \in Nat
  PROVE  LET W == Wanted(d, d.inode[i], from .. to)
         IN  /\ W \subseteq Nat /\ IsFiniteSet(W) /\ Cardinality(W) \in Nat
             /\ \A w, x \in Evens(W) : w = x
             /\ \A w \in Evens(W) : d.inode[i].indir = 0 /\ w >= 4 /\ \E k \in from .. to : k >= 2 /\ w = 2 * k
             /\ \A k \in from .. to : k >= 2 /\ d.inode[i].indir = 0 =>
                  \E w \in Evens(W) : w <= 2 * k
             /\ \A k \in Nat : 2 * k + 1 \in W <=> k \in from .. to /\ PtrAt(d, d.inode[i], k) = 0
             /\ \A w \in W \ Evens(W) : \E k \in from .. to : w = 2 * k + 1
             /\ \A k \in Nat : 2 * k + 1 \notin Evens(W)
<1> DEFINE n == d.inode[i]
           is == from .. to
           odd == {2 * k + 1 : k \in {x \in is : PtrAt(d, n, x) = 0}}
           firsts == {x \in is : x >= 2 /\ \A y \in is : y < 2 \/ x <= y}
           even == {2 * k : k \in firsts}
           W == Wanted(d, n, is)
<1> HIDE DEF n
<1>1. W = odd \cup (IF n.indir # 0 THEN {} ELSE even)
  BY DEF Wanted
<1>2. is \subseteq Nat /\ IsFiniteSet(is)
  BY FS_Interval
<1>3. \A x, y \in firsts : x = y
  <2> TAKE x \in firsts, y \in firsts
  <2>1. x \in is /\ y \in is /\ x >= 2 /\ y >= 2
    OBVIOUS
  <2>2. (y < 2 \/ x <= y) /\ (x < 2 \/ y <= x)
    OBVIOUS
  <2>3. x \in Nat /\ y \in Nat
    BY <1>2, <2>1
  <2> QED BY <2>1, <2>2, <2>3
<1>4. odd \subseteq Nat /\ even \subseteq Nat
  BY <1>2
<1>5. IsFiniteSet(odd) /\ IsFiniteSet(even)
  <2> DEFINE top == 2 * to + 1
  <2>1. \A k \in is : 2 * k + 1 \in 0 .. top /\ 2 * k \in 0 .. top
    OBVIOUS
  <2>2. odd \subseteq 0 .. top /\ even \subseteq 0 .. top
    <3>1. firsts \subseteq is
      OBVIOUS
    <3> HIDE DEF is, firsts, top
    <3> QED BY <2>1, <3>1
  <2>3. top \in Int
    OBVIOUS
  <2> HIDE DEF top
  <2>4. IsFiniteSet(0 .. top)
    BY <2>3, FS_Interval
  <2> HIDE DEF odd, even
  <2> QED BY <2>2, <2>4, FS_Subset
<1>7. \A w \in odd : w % 2 = 1 /\ w % 2 # 0
  BY <1>2
<1>8. \A w \in even : w % 2 = 0
  BY <1>2
<1>9. Evens(W) = IF n.indir # 0 THEN {} ELSE even
  <2> HIDE DEF odd, even, W
  <2> QED BY <1>1, <1>7, <1>8 DEF Evens
<1>10. \A w, x \in even : w = x
  BY <1>3
<1>11. W \subseteq Nat /\ IsFiniteSet(W) /\ Cardinality(W) \in Nat
  <2> HIDE DEF odd, even, W
  <2>1. W \subseteq odd \cup even
    BY <1>1
  <2>2. IsFiniteSet(odd \cup even)
    BY <1>5, FS_Union
  <2> QED BY <1>4, <2>1, <2>2, FS_Subset, FS_CardinalityType
<1>12. \A w \in even : w >= 4 /\ \E k \in is : k >= 2 /\ w = 2 * k
  <2> TAKE w \in even
  <2>1. PICK k \in firsts : w = 2 * k
    OBVIOUS
  <2>2. k \in Nat /\ k \in is /\ k >= 2
    BY <1>2
  <2> QED BY <2>1, <2>2
<1>13. ASSUME NEW k \in is, k >= 2 PROVE \E w \in even : w <= 2 * k
  <2> DEFINE T == {x \in is : x >= 2}
  <2>1. T \subseteq Nat /\ k \in T
    BY <1>2, <1>13
  <2> HIDE DEF T
  <2>2. PICK x \in T : \A y \in T : x <= y
    BY <2>1, LeastNatural
  <2>3. x \in is /\ x >= 2 /\ x <= k /\ x \in Nat /\ k \in Nat
    BY <2>1, <2>2 DEF T
  <2>4. \A y \in is : y < 2 \/ x <= y
    <3> TAKE y \in is
    <3>1. y \in Nat
      BY <1>2
    <3>2. y >= 2 => y \in T
      BY DEF T
    <3> QED BY <2>2, <3>1, <3>2
  <2>5. x \in firsts
    BY <2>3, <2>4
  <2>6. 2 * x \in even
    BY <2>5
  <2>7. 2 * x <= 2 * k
    BY <2>3
  <2> QED BY <2>6, <2>7
<1>14. ASSUME NEW k \in Nat PROVE 2 * k + 1 \in W <=> k \in is /\ PtrAt(d, n, k) = 0
  <2>1. (2 * k + 1) % 2 = 1
    OBVIOUS
  <2>2. 2 * k + 1 \notin even
    BY <1>8, <2>1
  <2>3. 2 * k + 1 \in odd <=> k \in is /\ PtrAt(d, n, k) = 0
    <3>1. \A x \in Nat : 2 * x + 1 = 2 * k + 1 <=> x = k
      OBVIOUS
    <3> QED BY <1>2, <3>1
  <2> HIDE DEF odd, even, W
  <2> QED BY <1>1, <2>2, <2>3
<1>18. \A w \in odd : \E k \in is : w = 2 * k + 1
  OBVIOUS
<1>20. \A k \in Nat : (2 * k + 1) % 2 # 0
  OBVIOUS
<1> HIDE DEF odd, even, W, is
<1>19. \A w \in W \ Evens(W) : \E k \in is : w = 2 * k + 1
  BY <1>1, <1>9, <1>18
<1>21. \A k \in Nat : 2 * k + 1 \notin Evens(W)
  BY <1>20 DEF Evens
<1>15. \A w, x \in Evens(W) : w = x
  BY <1>9, <1>10
<1>16. \A w \in Evens(W) : n.indir = 0 /\ w >= 4 /\ \E k \in is : k >= 2 /\ w = 2 * k
  BY <1>9, <1>12
<1>17. \A k \in is : k >= 2 /\ n.indir = 0 => \E w \in Evens(W) : w <= 2 * k
  BY <1>9, <1>13
<1> QED BY <1>11, <1>14, <1>15, <1>16, <1>17, <1>19, <1>21 DEF W, is, n

\* Blocks suffice for a write.
LEMMA NewForTyped ==
  ASSUME NEW d \in DiskType, NEW W, W \subseteq Nat, IsFiniteSet(W), Enough(d, Cardinality(W)),
         NEW w \in W
  PROVE  NewFor(d, W, w) \in Block /\ NewFor(d, W, w) \in Pointer
<1>1. Cardinality(UpTo(W, w)) \in 1 .. Cardinality(W) /\ Cardinality(W) \in Nat
  BY RankIs, FS_CardinalityType
<1>2. Cardinality(FreeBlocks(d)) \in Nat
  BY BlocksArePositive, FS_Subset, FS_CardinalityType DEF FreeBlocks
<1> DEFINE k == Cardinality(UpTo(W, w))
<1>3. k \in Nat \ {0} /\ Enough(d, k)
  BY <1>1, <1>2 DEF Enough
<1> HIDE DEF k
<1>4. GetFreeBlockNum(d, k) \in Block /\ GetFreeBlockNum(d, k) \in Pointer
  BY <1>3, EnoughGives
<1> QED BY <1>4 DEF NewFor, k

\* The inode and the pointers half way through a write, and the write that
\* links a block.
LEMMA LinkNowTyped ==
  ASSUME NEW d \in DiskType, NEW i \in InodeNum, NEW W, W \subseteq Nat, IsFiniteSet(W),
         Enough(d, Cardinality(W)), NEW u
  PROVE  /\ InodeNow(d, d.inode[i], W, u) \in InodeType
         /\ PtrsNow(d, d.inode[i], W, u) \in [Slot -> Pointer]
         /\ IndirNow(d, d.inode[i], W, u) \in Pointer
         /\ LinkNow(d, i, W, u) \in Writes
<1> DEFINE n == d.inode[i]
<1>1. n \in InodeType /\ n.direct \in [1 .. 2 -> Pointer] /\ IndirectPtrs(d, n) \in [Slot -> Pointer]
  BY PointersOf DEF Slot
<1> HIDE DEF n
<1>2. \A w, old : old \in Pointer => Now(d, W, w, old, u) \in Pointer
  BY NewForTyped DEF Now
<1>3. IndirNow(d, n, W, u) \in Pointer
  <2>1. CASE \E w \in W : w % 2 = 0 /\ w <= u
    <3>1. (CHOOSE w \in W : w % 2 = 0) \in W
      BY <2>1
    <3> QED BY <2>1, <3>1, NewForTyped DEF IndirNow
  <2>2. CASE ~ \E w \in W : w % 2 = 0 /\ w <= u
    BY <1>1, <2>2 DEF IndirNow, InodeType
  <2> QED BY <2>1, <2>2
<1>4. InodeNow(d, n, W, u) \in InodeType
  <2> DEFINE dir == <<Now(d, W, 1, n.direct[1], u), Now(d, W, 3, n.direct[2], u)>>
  <2>1. n.direct[1] \in Pointer /\ n.direct[2] \in Pointer
    BY <1>1
  <2>2. dir \in [1 .. 2 -> Pointer]
    BY <1>2, <2>1
  <2>3. InodeNow(d, n, W, u) = [n EXCEPT !.direct = dir, !.indir = IndirNow(d, n, W, u)]
    BY DEF InodeNow
  <2> HIDE DEF dir
  <2> QED BY <1>1, <1>3, <2>2, <2>3 DEF InodeType
<1>5. PtrsNow(d, n, W, u) \in [Slot -> Pointer]
  BY <1>1, <1>2 DEF PtrsNow
<1>6. LinkNow(d, i, W, u) \in Writes
  BY <1>3, <1>4, <1>5, WritesAre, BlocksAre DEF LinkNow, n
<1> QED BY <1>3, <1>4, <1>5, <1>6 DEF n

\* Allocating a wanted block is a sequence of writes.
LEMMA AllocNowTyped ==
  ASSUME NEW d \in DiskType, NEW i \in InodeNum, NEW W, W \subseteq Nat, IsFiniteSet(W),
         Enough(d, Cardinality(W)), NEW u
  PROVE  AllocNow(d, i, W, u) \in Seq(Writes)
<1>1. CASE u \in W
  BY <1>1, LinkNowTyped, NewForTyped, AllocateTyped DEF AllocNow
<1>2. CASE u \notin W
  BY <1>2 DEF AllocNow
<1> QED BY <1>1, <1>2

\* So is what is written for one block of the file.
LEMMA PutNowTyped ==
  ASSUME NEW d \in DiskType, NEW i \in InodeNum, NEW W, W \subseteq Nat, IsFiniteSet(W),
         Enough(d, Cardinality(W)), NEW k \in 0 .. MaxBlocks - 1, NEW v \in Payload
  PROVE  PutNow(d, i, W, k, v) \in Seq(Writes)
<1> DEFINE at0 == Now(d, W, 2 * k + 1, PtrAt(d, d.inode[i], k), 2 * k + 1)
<1>1. PtrAt(d, d.inode[i], k) \in Pointer
  <2> DEFINE q == k + 1
  <2>1. q \in Pos /\ PtrAt(d, d.inode[i], k) = PtrOf(d, i, q)
    BY IndexIs, PtrAtIs, PosIs
  <2> HIDE DEF q
  <2> QED BY <2>1, PtrTyped
<1>2. at0 \in Pointer
  BY <1>1, NewForTyped DEF Now
<1> HIDE DEF at0
<1>3. WriteBlock(at0, DataBlock(v)) \in Writes
  BY <1>2, WritesAre, BlocksAre
<1>4. AllocNow(d, i, W, 2 * k) \in Seq(Writes) /\ AllocNow(d, i, W, 2 * k + 1) \in Seq(Writes)
  BY AllocNowTyped
<1> QED BY <1>3, <1>4 DEF PutNow, at0

\* So is all of a write to a file.
LEMMA PutBlocksTyped ==
  ASSUME NEW d \in DiskType, NEW i \in InodeNum, NEW from \in Nat, NEW to \in Nat,
         from <= to, to <= MaxBlocks - 1, NEW v \in Payload,
         Enough(d, Cardinality(Wanted(d, d.inode[i], from .. to)))
  PROVE  PutBlocks(d, i, from, to, v) \in Seq(Writes)
<1> DEFINE W == Wanted(d, d.inode[i], from .. to)
           parts == [x \in 1 .. to - from + 1 |-> PutNow(d, i, W, from + x - 1, v)]
<1>1. W \subseteq Nat /\ IsFiniteSet(W) /\ Enough(d, Cardinality(W))
  BY WantedIs
<1>2. PutBlocks(d, i, from, to, v) = Seqs!FlattenSeq(parts)
  BY PutBlocksIs
<1> HIDE DEF W
<1>3. ASSUME NEW k \in 0 .. MaxBlocks - 1 PROVE PutNow(d, i, W, k, v) \in Seq(Writes)
  BY <1>1, PutNowTyped
<1>4. \A x \in 1 .. to - from + 1 : from + x - 1 \in 0 .. MaxBlocks - 1
  BY IndexIs
<1>5. to - from + 1 \in Nat \ {0}
  OBVIOUS
<1>6. \A x \in 1 .. to - from + 1 : PutNow(d, i, W, from + x - 1, v) \in Seq(Writes)
  BY <1>3, <1>4
<1> DEFINE m == to - from + 1
<1> HIDE DEF m
<1>7. parts \in Seq(Seq(Writes)) /\ Len(parts) = m
  BY <1>5, <1>6 DEF m
<1>8. Len(parts) # 0
  BY <1>5, <1>7 DEF m
<1> HIDE DEF parts
<1> QED BY <1>2, <1>7, <1>8, FlattenTyped

\* The disk that mount makes.
LEMMA BlankTyped == BlankDisk \in DiskType
<1>1. [b \in Block |-> Zero] \in [Block -> BlockType]
  BY BlocksAre
<1>2. [i \in InodeNum |-> FreeInode] \in [InodeNum -> InodeType]
  BY FreeInodeTyped
<1>3. Info(0, 0, 0) \in [alloc : Int, free : Int, inodes : Int]
  BY GeometryAssumption DEF Info
<1> QED BY <1>1, <1>2, <1>3 DEF BlankDisk, DiskType

\* Its parts.
FirstBlock == GetFreeBlockNum(BlankDisk, 1)
\* The inode of the root, as Mount takes it.
FirstInode == GetFreeInodeNum(BlankDisk)

\* The first block and the first inode, which are the root's.
LEMMA FirstAre == FirstBlock \in Block /\ FirstInode = 0 /\ 0 \in InodeNum
<1>1. FreeBlocks(BlankDisk) = Block /\ InodeNum \ BlankDisk.inodeMap = InodeNum
  BY DEF FreeBlocks, BlankDisk
<1>2. DataRegion \in Block
  BY GeometryAssumption DEF Block
<1>3. Cardinality(Block) \in Nat /\ Cardinality(Block) # 0
  BY <1>2, BlocksArePositive, FS_CardinalityType, FS_EmptySet
<1>4. 1 \in 1 .. Cardinality(FreeBlocks(BlankDisk))
  BY <1>1, <1>3
<1>5. FirstBlock \in Block
  BY <1>1, <1>4, BlankTyped, FreeBlockIsFree DEF FirstBlock
<1>6. 0 \in InodeNum /\ InodeNum \subseteq Nat
  BY GeometryAssumption DEF InodeNum
<1>7. Least(InodeNum) \in InodeNum /\ \A m \in InodeNum : Least(InodeNum) <= m
  BY <1>6, LeastIs
<1>8. Least(InodeNum) = 0
  <2> DEFINE x == Least(InodeNum)
  <2> HIDE DEF x
  <2>1. x \in Nat /\ x <= 0
    BY <1>6, <1>7 DEF x
  <2>2. x = 0
    BY <2>1
  <2> QED BY <2>2 DEF x
<1>9. FirstInode = 0
  BY <1>1, <1>8 DEF FirstInode, GetFreeInodeNum
<1> QED BY <1>5, <1>6, <1>9

Dot == [NoEntries EXCEPT ![1] = [name |-> ".", ino |-> 0]]
Root == [type |-> "dir", direct |-> <<FirstBlock, 0>>, indir |-> 0]

\* They are a directory block and an inode.
LEMMA RootTyped == Dot \in [Entry -> EntryType] /\ Root \in InodeType
<1>1. Dot \in [Entry -> EntryType]
  <2>1. [name |-> ".", ino |-> 0] \in EntryType
    BY FirstAre DEF EntryType, Name
  <2> QED BY <2>1, NoEntryTyped, EntryIsBig DEF Dot
<1>2. Root \in InodeType
  BY FirstAre DEF Root, InodeType, Pointer
<1> QED BY <1>1, <1>2

\* The numbers that a format writes.
FirstInfo == Info(1, NumBlocks - (DataRegion + 1), 1)

\* What a format writes, in order.
LEMMA FormatWritesAre ==
  /\ Len(FormatWrites) = 5
  /\ FormatWrites[1] = WriteBlock(FirstBlock, DirBlock(Dot))
  /\ FormatWrites[2] = Write("info", 0, FirstInfo)
  /\ FormatWrites[3] = SetBlockBitmap(FirstBlock)
  /\ FormatWrites[4] = SetInodeBitmap(0)
  /\ FormatWrites[5] = PutInode(0, Root)
<1> DEFINE u == WriteBlock(FirstBlock, DirBlock(Dot))
           v == Write("info", 0, FirstInfo)
           w == SetBlockBitmap(FirstBlock)
           x == SetInodeBitmap(0)
           y == PutInode(0, Root)
<1>1. FormatWrites = <<u, v, w, x, y>>
  BY FirstAre DEF FormatWrites, FirstBlock, FirstInode, Dot, Root, FirstInfo
<1> HIDE DEF u, v, w, x, y
<1>2. /\ Len(<<u, v, w, x, y>>) = 5 /\ <<u, v, w, x, y>>[1] = u /\ <<u, v, w, x, y>>[2] = v
      /\ <<u, v, w, x, y>>[3] = w /\ <<u, v, w, x, y>>[4] = x /\ <<u, v, w, x, y>>[5] = y
  OBVIOUS
<1> QED BY <1>1, <1>2 DEF u, v, w, x, y

\* The numbers are written over zeros.
LEMMA FirstInfoWritten ==
  ASSUME NEW d \in DiskType, d.info = BlankDisk.info
  PROVE  LET e == Written(d, Write("info", 0, FirstInfo))
         IN  e \in DiskType /\ SameBut(e, d, "info") /\ e.info.inodes = 1
<1> DEFINE f == Info(d.info.alloc + FirstInfo.alloc, d.info.free + FirstInfo.free,
                     d.info.inodes + FirstInfo.inodes)
           e == [d EXCEPT !.info = f]
<1>1. Written(d, Write("info", 0, FirstInfo)) = e
  BY DEF Written, Write
<1>2. FirstInfo \in InfoType /\ FirstInfo.inodes = 1
  BY GeometryAssumption DEF FirstInfo, Info, InfoType
<1>3. d.info.inodes = 0 /\ d.info.alloc \in Int /\ d.info.free \in Int
  BY GeometryAssumption DEF BlankDisk, Info, DiskType
<1>4. f \in InfoType /\ f.inodes = 1
  <2>1. FirstInfo.alloc \in Int /\ FirstInfo.free \in Int
    BY <1>2 DEF InfoType
  <2> QED BY <1>2, <1>3, <2>1, GeometryAssumption DEF Info, InfoType
<1> HIDE DEF f
<1>5. /\ e.blk = d.blk /\ e.inode = d.inode /\ e.blockMap = d.blockMap
      /\ e.inodeMap = d.inodeMap /\ e.info = f
  BY DEF DiskType
<1>6. e \in DiskType
  BY <1>4 DEF DiskType, InfoType
<1> QED BY <1>1, <1>4, <1>5, <1>6 DEF SameBut

\* A format that dies leaves no inode in use, ...
LEMMA UnfinishedFormat ==
  /\ \A k \in 0 .. 4 : Formatting(k) \in DiskType /\ Formatting(k).inode = BlankDisk.inode
  /\ \A b \in Block : Formatting(4).blk[b] = IF b = FirstBlock THEN DirBlock(Dot) ELSE Zero
  /\ Formatting(4).blockMap = {FirstBlock} /\ Formatting(4).inodeMap = {0}
  /\ Formatting(4).info.inodes = 1
<1> DEFINE d(k) == Formatting(k)
<1>1. d(0) = BlankDisk
  BY AfterNone DEF Formatting
<1>2. ASSUME NEW k \in 1 .. 5 PROVE d(k) = Written(d(k - 1), FormatWrites[k])
  <2>1. k \in Nat \ {0}
    OBVIOUS
  <2> QED BY <2>1, AfterNext DEF Formatting
<1>3. /\ d(1) = Written(d(0), FormatWrites[1]) /\ d(2) = Written(d(1), FormatWrites[2])
      /\ d(3) = Written(d(2), FormatWrites[3]) /\ d(4) = Written(d(3), FormatWrites[4])
  <2>1. 1 \in 1 .. 5 /\ 2 \in 1 .. 5 /\ 3 \in 1 .. 5 /\ 4 \in 1 .. 5
    OBVIOUS
  <2>2. 1 - 1 = 0 /\ 2 - 1 = 1 /\ 3 - 1 = 2 /\ 4 - 1 = 3
    OBVIOUS
  <2> HIDE DEF d
  <2> QED BY <1>2, <2>1, <2>2
<1> HIDE DEF d
<1>4. d(0) \in DiskType /\ \A b \in Block : d(0).blk[b] = Zero
  BY <1>1, BlankTyped DEF BlankDisk
<1>5. FirstBlock \in Pointer /\ DirBlock(Dot) \in BlockType
  BY FirstAre, RootTyped, BlocksAre DEF Pointer
<1>6. /\ d(1) \in DiskType /\ SameBut(d(1), d(0), "blk")
      /\ \A b \in Block : d(1).blk[b] = IF b = FirstBlock THEN DirBlock(Dot) ELSE Zero
  BY <1>3, <1>4, <1>5, BlockWritten, FormatWritesAre
<1>7. d(2) \in DiskType /\ SameBut(d(2), d(1), "info") /\ d(2).info.inodes = 1
  <2>1. d(1).info = BlankDisk.info
    BY <1>1, <1>6 DEF SameBut
  <2> QED BY <1>3, <1>6, <2>1, FirstInfoWritten, FormatWritesAre
<1>8. /\ d(3) \in DiskType /\ SameBut(d(3), d(2), "blockMap")
      /\ d(3).blockMap = d(2).blockMap \cup {FirstBlock}
  BY <1>3, <1>7, FirstAre, BlockBitSet, FormatWritesAre
<1>9. /\ d(4) \in DiskType /\ SameBut(d(4), d(3), "inodeMap")
      /\ d(4).inodeMap = d(3).inodeMap \cup {0}
  BY <1>3, <1>8, FirstAre, InodeBitSet, FormatWritesAre
<1>10. /\ d(0).inode = BlankDisk.inode /\ d(1).inode = BlankDisk.inode /\ d(2).inode = BlankDisk.inode
       /\ d(3).inode = BlankDisk.inode /\ d(4).inode = BlankDisk.inode
  BY <1>1, <1>6, <1>7, <1>8, <1>9 DEF SameBut
<1>11. d(4).blk = d(1).blk /\ d(4).info = d(2).info
  BY <1>7, <1>8, <1>9 DEF SameBut
<1>12. d(4).blockMap = {FirstBlock} /\ d(4).inodeMap = {0}
  <2>1. BlankDisk.blockMap = {} /\ BlankDisk.inodeMap = {}
    BY DEF BlankDisk
  <2>2. d(2).blockMap = {} /\ d(3).inodeMap = {}
    BY <1>1, <1>6, <1>7, <1>8, <2>1 DEF SameBut
  <2>3. d(4).blockMap = d(3).blockMap
    BY <1>9 DEF SameBut
  <2> QED BY <1>8, <1>9, <2>2, <2>3
<1>13. \A k \in 0 .. 4 : d(k) \in DiskType /\ d(k).inode = BlankDisk.inode
  <2>1. \A k \in 0 .. 4 : k = 0 \/ k = 1 \/ k = 2 \/ k = 3 \/ k = 4
    OBVIOUS
  <2> QED BY <1>4, <1>6, <1>7, <1>8, <1>9, <1>10, <2>1
<1> QED BY <1>6, <1>7, <1>11, <1>12, <1>13 DEF d

\* ... and what a whole one leaves on the disk.
LEMMA FormattedIs ==
  /\ Dot \in [Entry -> EntryType] /\ Root \in InodeType
  /\ FormattedDisk \in DiskType
  /\ FormattedDisk.inode = [i \in InodeNum |-> IF i = 0 THEN Root ELSE FreeInode]
  /\ FormattedDisk.blk = [b \in Block |-> IF b = FirstBlock THEN DirBlock(Dot) ELSE Zero]
  /\ FormattedDisk.blockMap = {FirstBlock} /\ FormattedDisk.inodeMap = {0}
  /\ FormattedDisk.info.inodes = 1
<1> DEFINE d == Formatting(4)
           e == FormattedDisk
<1>1. e = Written(d, PutInode(0, Root))
  <2>1. 5 \in Nat \ {0} /\ 5 - 1 = 4
    OBVIOUS
  <2>2. After(BlankDisk, FormatWrites, 5) = Written(After(BlankDisk, FormatWrites, 5 - 1), FormatWrites[5])
    BY <2>1, AfterNext
  <2> QED BY <2>1, <2>2, FormatWritesAre DEF FormattedDisk, Formatting
<1>2. 4 \in 0 .. 4
  OBVIOUS
<1>3. /\ d \in DiskType /\ d.inode = BlankDisk.inode /\ d.blockMap = {FirstBlock} /\ d.inodeMap = {0}
      /\ d.info.inodes = 1
      /\ \A b \in Block : d.blk[b] = IF b = FirstBlock THEN DirBlock(Dot) ELSE Zero
  BY <1>2, UnfinishedFormat
<1> HIDE DEF d, e
<1>4. /\ e \in DiskType /\ SameBut(e, d, "inode")
      /\ \A i \in InodeNum : e.inode[i] = IF i = 0 THEN Root ELSE d.inode[i]
  BY <1>1, <1>3, FirstAre, RootTyped, InodeWritten
<1>5. \A i \in InodeNum : e.inode[i] = IF i = 0 THEN Root ELSE FreeInode
  <2>1. \A i \in InodeNum : BlankDisk.inode[i] = FreeInode
    BY DEF BlankDisk
  <2> QED BY <1>3, <1>4, <2>1
<1>6. /\ e.blockMap = {FirstBlock} /\ e.inodeMap = {0} /\ e.info.inodes = 1
      /\ \A b \in Block : e.blk[b] = IF b = FirstBlock THEN DirBlock(Dot) ELSE Zero
  BY <1>3, <1>4 DEF SameBut
<1>7. e.inode \in [InodeNum -> InodeType] /\ e.blk \in [Block -> BlockType]
  BY <1>4, DiskParts
<1>8. e.inode = [i \in InodeNum |-> IF i = 0 THEN Root ELSE FreeInode]
  BY <1>5, <1>7
<1>9. e.blk = [b \in Block |-> IF b = FirstBlock THEN DirBlock(Dot) ELSE Zero]
  <2> DEFINE dot == DirBlock(Dot)
  <2> HIDE DEF dot
  <2>1. \A b \in Block : e.blk[b] = IF b = FirstBlock THEN dot ELSE Zero
    BY <1>6 DEF dot
  <2>2. e.blk = [b \in Block |-> IF b = FirstBlock THEN dot ELSE Zero]
    BY <1>7, <2>1
  <2> QED BY <2>2 DEF dot
<1> QED BY <1>4, <1>6, <1>8, <1>9, RootTyped DEF e

---------------------------------------------------------------------------
(* Pointers and who owns blocks *)

\* Disks on which no block has two owners: what every prefix of a call leaves.
Owned == {d \in DiskType : OwnedOnce(d)}

SamePtrs(f, e) == \A j \in InodeNum, l \in Pos : PtrOf(f, j, l) = PtrOf(e, j, l)
OnlyPtr(f, e, i, k, b) ==
  \A j \in InodeNum, l \in Pos : PtrOf(f, j, l) = IF j = i /\ l = k THEN b ELSE PtrOf(e, j, l)
Unlinked(e, b) == \A j \in InodeNum, l \in Pos : PtrOf(e, j, l) # b
SameTypes(f, e) == \A j \in InodeNum : f.inode[j].type = e.inode[j].type

\* With the same pointers blocks stay owned once.
LEMMA SameOwned ==
  ASSUME NEW e, NEW f, OwnedOnce(e), SamePtrs(f, e)
  PROVE  OwnedOnce(f)
BY DEF OwnedOnce, SamePtrs

\* Dropping a pointer keeps them owned once.
LEMMA DroppedOwned ==
  ASSUME NEW e, NEW f, NEW i, NEW k, OwnedOnce(e), OnlyPtr(f, e, i, k, 0)
  PROVE  OwnedOnce(f)
<1> SUFFICES ASSUME NEW j \in InodeNum, NEW m \in InodeNum, NEW l \in Pos, NEW x \in Pos
             PROVE  PtrOf(f, j, l) = PtrOf(f, m, x) /\ PtrOf(f, j, l) # 0 => j = m /\ l = x
  BY DEF OwnedOnce
<1>1. PtrOf(f, j, l) = (IF j = i /\ l = k THEN 0 ELSE PtrOf(e, j, l))
  BY DEF OnlyPtr
<1>2. PtrOf(f, m, x) = (IF m = i /\ x = k THEN 0 ELSE PtrOf(e, m, x))
  BY DEF OnlyPtr
<1>3. PtrOf(e, j, l) = PtrOf(e, m, x) /\ PtrOf(e, j, l) # 0 => j = m /\ l = x
  BY DEF OwnedOnce
<1> QED BY <1>1, <1>2, <1>3

\* So does a pointer to a block that nothing leads to.
LEMMA AddedOwned ==
  ASSUME NEW e, NEW f, NEW i, NEW k, NEW b, OwnedOnce(e), Unlinked(e, b), OnlyPtr(f, e, i, k, b)
  PROVE  OwnedOnce(f)
<1> SUFFICES ASSUME NEW j \in InodeNum, NEW m \in InodeNum, NEW l \in Pos, NEW x \in Pos
             PROVE  PtrOf(f, j, l) = PtrOf(f, m, x) /\ PtrOf(f, j, l) # 0 => j = m /\ l = x
  BY DEF OwnedOnce
<1>1. PtrOf(f, j, l) = (IF j = i /\ l = k THEN b ELSE PtrOf(e, j, l))
  BY DEF OnlyPtr
<1>2. PtrOf(f, m, x) = (IF m = i /\ x = k THEN b ELSE PtrOf(e, m, x))
  BY DEF OnlyPtr
<1>3. PtrOf(e, j, l) = PtrOf(e, m, x) /\ PtrOf(e, j, l) # 0 => j = m /\ l = x
  BY DEF OwnedOnce
<1>4. PtrOf(e, j, l) # b /\ PtrOf(e, m, x) # b
  BY DEF Unlinked
<1> QED BY <1>1, <1>2, <1>3, <1>4

\* Nothing leads to a block that is not marked.
LEMMA FreeIsUnlinked ==
  ASSUME NEW e, Marked(e), NEW b \in Block \ e.blockMap
  PROVE  Unlinked(e, b)
BY BlocksArePositive DEF Marked, Unlinked

\* What pointers are read from.
LEMMA PtrsReadFrom ==
  ASSUME NEW e, NEW f, NEW i, f.inode[i] = e.inode[i],
         PtrOf(e, i, 0) # 0 => Ptrs(f.blk[PtrOf(e, i, 0)]) = Ptrs(e.blk[PtrOf(e, i, 0)])
  PROVE  \A k \in Pos : PtrOf(f, i, k) = PtrOf(e, i, k)
<1>1. IndirectPtrs(f, f.inode[i]) = IndirectPtrs(e, e.inode[i])
  BY PtrByPos DEF IndirectPtrs
<1> QED BY <1>1 DEF PtrOf

\* A write that leaves inodes and indirect blocks alone.
LEMMA OtherWrite ==
  ASSUME NEW e, NEW f, f.inode = e.inode, f.blk = e.blk
  PROVE  SamePtrs(f, e) /\ SameTypes(f, e)
<1>1. \A j \in InodeNum : \A k \in Pos : PtrOf(f, j, k) = PtrOf(e, j, k)
  BY PtrsReadFrom
<1> QED BY <1>1 DEF SamePtrs, SameTypes

\* Writing a block that is no indirect block changes no pointer.
LEMMA DataWrite ==
  ASSUME NEW e \in DiskType, NEW b \in Block, NEW c \in BlockType,
         \A j \in InodeNum : PtrOf(e, j, 0) # b
  PROVE  LET f == Written(e, WriteBlock(b, c))
         IN  SamePtrs(f, e) /\ SameTypes(f, e)
<1> DEFINE f == Written(e, WriteBlock(b, c))
<1>1. /\ SameBut(f, e, "blk") /\ b \in Pointer
      /\ \A x \in Block : f.blk[x] = IF x = b THEN c ELSE e.blk[x]
  BY BlockWritten DEF Pointer
<1> HIDE DEF f
<1>2. f.inode = e.inode
  BY <1>1 DEF SameBut
<1>3. \A j \in InodeNum : \A k \in Pos : PtrOf(f, j, k) = PtrOf(e, j, k)
  <2> TAKE j \in InodeNum
  <2>1. PtrOf(e, j, 0) \in Pointer
    BY PtrTyped, PosIs
  <2>2. PtrOf(e, j, 0) # 0 => f.blk[PtrOf(e, j, 0)] = e.blk[PtrOf(e, j, 0)]
    BY <1>1, <2>1 DEF Pointer
  <2> QED BY <1>2, <2>2, PtrsReadFrom
<1> QED BY <1>2, <1>3 DEF SamePtrs, SameTypes, f

\* A direct pointer written.
LEMMA DirectLinked ==
  ASSUME NEW e \in DiskType, NEW i \in InodeNum, NEW k \in 1 .. 2, NEW b \in Pointer, NEW n,
         n = [e.inode[i] EXCEPT !.direct[k] = b]
  PROVE  LET f == Written(e, PutInode(i, n))
         IN  /\ n \in InodeType /\ f \in DiskType /\ SameBut(f, e, "inode")
             /\ OnlyPtr(f, e, i, k, b) /\ SameTypes(f, e)
<1> DEFINE f == Written(e, PutInode(i, n))
<1>1. e.inode[i] \in InodeType
  BY PointersOf
<1>2. /\ n \in InodeType /\ n.type = e.inode[i].type /\ n.indir = e.inode[i].indir
      /\ \A x \in 1 .. 2 : n.direct[x] = IF x = k THEN b ELSE e.inode[i].direct[x]
  BY <1>1 DEF InodeType
<1>3. /\ f \in DiskType /\ SameBut(f, e, "inode")
      /\ \A x \in InodeNum : f.inode[x] = IF x = i THEN n ELSE e.inode[x]
  BY <1>2, InodeWritten
<1> HIDE DEF f
<1>4. f.blk = e.blk
  BY <1>3 DEF SameBut
<1>5. ASSUME NEW j \in InodeNum, NEW l \in Pos, j # i PROVE PtrOf(f, j, l) = PtrOf(e, j, l)
  BY <1>3, <1>4, <1>5, PtrsReadFrom
<1>6. ASSUME NEW l \in Pos PROVE PtrOf(f, i, l) = IF l = k THEN b ELSE PtrOf(e, i, l)
  <2>1. IndirectPtrs(f, f.inode[i]) = IndirectPtrs(e, e.inode[i])
    BY <1>2, <1>3, <1>4 DEF IndirectPtrs
  <2>2. l \in Nat /\ (l = 0 \/ l \in 1 .. 2 \/ ~(l <= 2)) /\ k # 0 /\ k <= 2
    BY PosIs
  <2>3. f.inode[i] = n
    BY <1>3
  <2>4. CASE l = 0
    BY <1>2, <2>2, <2>3, <2>4 DEF PtrOf
  <2>5. CASE l \in 1 .. 2
    BY <1>2, <2>3, <2>5 DEF PtrOf
  <2>6. CASE ~(l <= 2) /\ l # 0
    BY <2>1, <2>2, <2>6 DEF PtrOf
  <2> QED BY <2>2, <2>4, <2>5, <2>6
<1>7. SameTypes(f, e)
  BY <1>2, <1>3 DEF SameTypes
<1> QED BY <1>2, <1>3, <1>5, <1>6, <1>7 DEF f, OnlyPtr

\* An indirect block linked that has no pointers yet, or is not linked any more.
LEMMA IndirectLinked ==
  ASSUME NEW e \in DiskType, NEW i \in InodeNum, NEW b \in Pointer, NEW n,
         n = [e.inode[i] EXCEPT !.indir = b],
         IndirectPtrs(e, e.inode[i]) = NoPtrs, b # 0 => Ptrs(e.blk[b]) = NoPtrs
  PROVE  LET f == Written(e, PutInode(i, n))
         IN  /\ n \in InodeType /\ f \in DiskType /\ SameBut(f, e, "inode")
             /\ OnlyPtr(f, e, i, 0, b) /\ SameTypes(f, e)
<1> DEFINE f == Written(e, PutInode(i, n))
<1>1. e.inode[i] \in InodeType
  BY PointersOf
<1>2. /\ n \in InodeType /\ n.type = e.inode[i].type /\ n.indir = b /\ n.direct = e.inode[i].direct
  BY <1>1 DEF InodeType
<1>3. /\ f \in DiskType /\ SameBut(f, e, "inode")
      /\ \A x \in InodeNum : f.inode[x] = IF x = i THEN n ELSE e.inode[x]
  BY <1>2, InodeWritten
<1> HIDE DEF f
<1>4. f.blk = e.blk
  BY <1>3 DEF SameBut
<1>5. ASSUME NEW j \in InodeNum, NEW l \in Pos, j # i PROVE PtrOf(f, j, l) = PtrOf(e, j, l)
  BY <1>3, <1>4, <1>5, PtrsReadFrom
<1>6. ASSUME NEW l \in Pos PROVE PtrOf(f, i, l) = IF l = 0 THEN b ELSE PtrOf(e, i, l)
  <2>1. IndirectPtrs(f, f.inode[i]) = NoPtrs
    BY <1>2, <1>3, <1>4 DEF IndirectPtrs
  <2> QED BY <1>2, <1>3, <2>1 DEF PtrOf
<1>7. SameTypes(f, e)
  BY <1>2, <1>3 DEF SameTypes
<1> QED BY <1>2, <1>3, <1>5, <1>6, <1>7 DEF f, OnlyPtr

\* A pointer of an indirect block written.
LEMMA SlotLinked ==
  ASSUME NEW e \in DiskType, OwnedOnce(e), NEW i \in InodeNum, NEW s \in Slot, NEW b \in Pointer,
         PtrOf(e, i, 0) # 0, NEW ptrs, ptrs = [IndirectPtrs(e, e.inode[i]) EXCEPT ![s] = b]
  PROVE  LET f == Written(e, WriteBlock(PtrOf(e, i, 0), PtrBlock(ptrs)))
         IN  /\ ptrs \in [Slot -> Pointer] /\ f \in DiskType /\ SameBut(f, e, "blk")
             /\ \A x \in Block : f.blk[x] = IF x = PtrOf(e, i, 0) THEN PtrBlock(ptrs) ELSE e.blk[x]
             /\ OnlyPtr(f, e, i, s + 2, b) /\ SameTypes(f, e)
<1> DEFINE at0 == PtrOf(e, i, 0)
           f == Written(e, WriteBlock(at0, PtrBlock(ptrs)))
<1>1. ptrs \in [Slot -> Pointer] /\ PtrBlock(ptrs) \in BlockType
  BY PointersOf, BlocksAre DEF Slot
<1>2. at0 \in Block /\ at0 \in Pointer
  BY PtrTyped, PosIs DEF Pointer
<1>3. /\ f \in DiskType /\ SameBut(f, e, "blk")
      /\ \A x \in Block : f.blk[x] = IF x = at0 THEN PtrBlock(ptrs) ELSE e.blk[x]
  BY <1>1, <1>2, BlockWritten
<1> HIDE DEF f
<1>4. f.inode = e.inode
  BY <1>3 DEF SameBut
<1>5. ASSUME NEW j \in InodeNum, NEW l \in Pos, j # i PROVE PtrOf(f, j, l) = PtrOf(e, j, l)
  <2>1. PtrOf(e, j, 0) \in Pointer
    BY PtrTyped, PosIs
  <2>2. PtrOf(e, j, 0) # 0 => PtrOf(e, j, 0) # at0
    BY <1>5, PosIs DEF OwnedOnce
  <2>3. PtrOf(e, j, 0) # 0 => f.blk[PtrOf(e, j, 0)] = e.blk[PtrOf(e, j, 0)]
    BY <1>3, <2>1, <2>2 DEF Pointer
  <2> QED BY <1>4, <2>3, PtrsReadFrom
<1>6. ASSUME NEW l \in Pos PROVE PtrOf(f, i, l) = IF l = s + 2 THEN b ELSE PtrOf(e, i, l)
  <2>1. f.inode[i].indir = at0 /\ at0 # 0
    BY <1>4, PtrByPos
  <2>2. IndirectPtrs(f, f.inode[i]) = ptrs
    <3>1. f.blk[f.inode[i].indir] = PtrBlock(ptrs)
      BY <1>2, <1>3, <2>1
    <3>2. Ptrs(PtrBlock(ptrs)) = ptrs
      BY DEF Ptrs, PtrBlock
    <3>3. f.inode[i].indir # 0
      BY <2>1
    <3> QED BY <3>1, <3>2, <3>3 DEF IndirectPtrs
  <2>3. l \in Nat /\ s \in Nat /\ ~(s + 2 <= 2) /\ (s + 2) - 2 = s /\ s + 2 # 0 /\ (~(l <= 2) => l - 2 \in Slot)
    <3>1. l \in Nat /\ (l = 0 \/ l \in DataPos)
      BY PosIs DEF DataPos
    <3>2. s \in Nat /\ s # 0
      BY PosIs
    <3>3. ~(l <= 2) => l - 2 \in Slot
      BY <3>1, PosIs
    <3> QED BY <3>1, <3>2, <3>3
  <2>4. \A x \in Slot : ptrs[x] = IF x = s THEN b ELSE IndirectPtrs(e, e.inode[i])[x]
    BY PointersOf DEF Slot
  <2>5. CASE ~(l <= 2)
    <3> DEFINE x == l - 2
    <3>1. x \in Slot /\ (x = s <=> l = s + 2) /\ l # 0
      BY <2>3, <2>5
    <3>2. PtrOf(f, i, l) = ptrs[x] /\ PtrOf(e, i, l) = IndirectPtrs(e, e.inode[i])[x]
      BY <2>2, <2>5, <3>1 DEF PtrOf
    <3> HIDE DEF x
    <3> QED BY <2>4, <3>1, <3>2
  <2>6. CASE l <= 2
    BY <1>4, <2>3, <2>6 DEF PtrOf
  <2> QED BY <2>5, <2>6
<1>7. SameTypes(f, e)
  BY <1>4 DEF SameTypes
<1> QED BY <1>1, <1>3, <1>5, <1>6, <1>7 DEF f, OnlyPtr

---------------------------------------------------------------------------
(* Blocks taken, filled and given back *)

\* What a call that goes well keeps about blocks.
BlocksSound(d) ==
  /\ OwnedOnce(d) /\ Marked(d) /\ KindsRight(d)
  /\ \A b \in Block \ d.blockMap : d.blk[b] = Zero

\* f and e have the same inodes in use.
SameInodeMap(f, e) == f.inodeMap = e.inodeMap /\ f.info.inodes = e.info.inodes

\* f is e but that an indirect block of inode i was written.
OnlyIndirect(f, e, i) ==
  \A x \in Block : f.blk[x] = e.blk[x] \/ (x = PtrOf(e, i, 0) /\ f.blk[x].kind = "ptr")

\* Writing the pointers of one inode leaves the kinds of blocks.
LEMMA KindsKept ==
  ASSUME NEW e, NEW f, NEW i \in InodeNum, OwnedOnce(e), KindsRight(e), SameTypes(f, e),
         OnlyIndirect(f, e, i), NEW j \in InodeNum, NEW l \in Pos,
         PtrOf(e, j, l) # 0, PtrOf(e, j, l) \in Block
  PROVE  f.blk[PtrOf(e, j, l)].kind \in {"zero", KindOf(f.inode[j], l)}
<1> DEFINE x == PtrOf(e, j, l)
<1>1. e.blk[x].kind \in {"zero", KindOf(e.inode[j], l)}
  BY DEF KindsRight
<1>2. KindOf(f.inode[j], l) = KindOf(e.inode[j], l)
  BY DEF KindOf, SameTypes
<1>3. x = PtrOf(e, i, 0) => l = 0
  BY PosIs DEF OwnedOnce
<1>4. l = 0 => KindOf(f.inode[j], l) = "ptr"
  BY DEF KindOf
<1>5. f.blk[x] = e.blk[x] \/ (x = PtrOf(e, i, 0) /\ f.blk[x].kind = "ptr")
  BY DEF OnlyIndirect
<1> HIDE DEF x
<1> QED BY <1>1, <1>2, <1>3, <1>4, <1>5 DEF x

\* g is f with b marked.
Allocated(f, b) ==
  {g \in DiskType : /\ BlocksSound(g) /\ g.inode = f.inode /\ g.blk = f.blk
                    /\ g.blockMap = f.blockMap \cup {b} /\ SameInodeMap(g, f)}

\* A free block linked by the write link, marked and counted.
LEMMA AllocStep ==
  ASSUME NEW e \in DiskType, BlocksSound(e), NEW i \in InodeNum, NEW k \in Pos,
         NEW b \in Block \ e.blockMap, NEW link, NEW f, f = Written(e, link), f \in DiskType,
         OnlyPtr(f, e, i, k, b), SameTypes(f, e), f.blockMap = e.blockMap, SameInodeMap(f, e),
         OnlyIndirect(f, e, i)
  PROVE  Leads(e, Allocate(link, b), Allocated(f, b), Owned)
<1> DEFINE A == {f}
           B == {g \in DiskType : /\ g.inode = f.inode /\ g.blk = f.blk
                                  /\ g.blockMap = f.blockMap \cup {b} /\ SameInodeMap(g, f)}
<1>1. Unlinked(e, b)
  BY FreeIsUnlinked DEF BlocksSound
<1>2. OwnedOnce(f)
  BY <1>1, AddedOwned DEF BlocksSound
<1>3. \A j \in InodeNum, l \in Pos : PtrOf(f, j, l) = IF j = i /\ l = k THEN b ELSE PtrOf(e, j, l)
  BY DEF OnlyPtr
<1>4. ASSUME NEW g \in B PROVE g \in Owned /\ g \in Allocated(f, b)
  <2>1. /\ g \in DiskType /\ g.inode = f.inode /\ g.blk = f.blk
        /\ g.blockMap = f.blockMap \cup {b} /\ SameInodeMap(g, f)
    BY <1>4
  <2>2. SamePtrs(g, f) /\ SameTypes(g, f)
    BY <2>1, OtherWrite
  <2>3. OwnedOnce(g)
    BY <1>2, <2>2, SameOwned
  <2>4. Marked(g)
    <3> SUFFICES ASSUME NEW j \in InodeNum, NEW l \in Pos, PtrOf(g, j, l) # 0
                 PROVE  PtrOf(g, j, l) \in g.blockMap
      BY DEF Marked
    <3>1. PtrOf(g, j, l) = PtrOf(f, j, l)
      BY <2>2 DEF SamePtrs
    <3>2. PtrOf(e, j, l) # 0 => PtrOf(e, j, l) \in e.blockMap
      BY DEF BlocksSound, Marked
    <3> QED BY <1>3, <2>1, <3>1, <3>2
  <2>5. KindsRight(g)
    <3> SUFFICES ASSUME NEW j \in InodeNum, NEW l \in Pos, PtrOf(g, j, l) # 0
                 PROVE  g.blk[PtrOf(g, j, l)].kind \in {"zero", KindOf(g.inode[j], l)}
      BY DEF KindsRight
    <3>1. PtrOf(g, j, l) = PtrOf(f, j, l)
      BY <2>2 DEF SamePtrs
    <3>2. CASE j = i /\ l = k
      <4>1. PtrOf(g, j, l) = b /\ b # PtrOf(e, i, 0)
        BY <1>1, <1>3, <3>1, <3>2, PosIs DEF Unlinked
      <4>2. g.blk[b] = Zero
        BY <2>1, <4>1 DEF BlocksSound, OnlyIndirect
      <4> QED BY <4>1, <4>2 DEF Zero
    <3>3. CASE ~(j = i /\ l = k)
      <4>1. PtrOf(g, j, l) = PtrOf(e, j, l) /\ PtrOf(e, j, l) # 0
        BY <1>3, <3>1, <3>3
      <4>2. PtrOf(e, j, l) \in Block
        BY <4>1, PtrTyped DEF Pointer
      <4>3. f.blk[PtrOf(e, j, l)].kind \in {"zero", KindOf(f.inode[j], l)}
        BY <4>1, <4>2, KindsKept DEF BlocksSound
      <4> QED BY <2>1, <4>1, <4>3
    <3> QED BY <3>2, <3>3
  <2>6. ASSUME NEW x \in Block \ g.blockMap PROVE g.blk[x] = Zero
    <3>1. x \in Block \ e.blockMap
      BY <2>1, <2>6
    <3>2. x # PtrOf(e, i, 0)
      BY <3>1, FreeIsUnlinked, PosIs DEF BlocksSound, Unlinked
    <3> QED BY <2>1, <3>1, <3>2 DEF BlocksSound, OnlyIndirect
  <2>7. BlocksSound(g)
    BY <2>3, <2>4, <2>5, <2>6 DEF BlocksSound
  <2> QED BY <2>1, <2>3, <2>7 DEF Owned, Allocated
<1>5. Written(e, link) \in A \cap Owned /\ e \in Owned
  BY <1>2 DEF Owned, BlocksSound
<1>6. \A g \in A : Written(g, SetBlockBitmap(b)) \in B \cap Owned
  <2>1. Written(f, SetBlockBitmap(b)) \in B
    BY BlockBitSet DEF SameBut, SameInodeMap
  <2> HIDE DEF B
  <2> QED BY <1>4, <2>1
<1>7. \A g \in B : Written(g, Count(1, 0)) \in Allocated(f, b) \cap Owned
  <2> TAKE g \in B
  <2>1. g.info.inodes \in Int
    BY DiskParts DEF InfoType
  <2> DEFINE h == Written(g, Count(1, 0))
  <2>2. h \in DiskType /\ SameBut(h, g, "info") /\ h.info.inodes = g.info.inodes + 0
    BY Counted
  <2> HIDE DEF h
  <2>3. h.info.inodes = g.info.inodes
    BY <2>1, <2>2
  <2>4. h \in B
    BY <2>2, <2>3 DEF SameBut, SameInodeMap
  <2> HIDE DEF B
  <2> QED BY <1>4, <2>4 DEF h
<1> HIDE DEF A, B
<1> QED BY <1>5, <1>6, <1>7, LeadsThree DEF Allocate

\* g is e with b blank and not marked.
FreedOf(e, b) ==
  {g \in DiskType : /\ g.inode = e.inode /\ g.blockMap = e.blockMap \ {b} /\ SameInodeMap(g, e)
                    /\ \A x \in Block : g.blk[x] = IF x = b THEN Zero ELSE e.blk[x]
                    /\ SamePtrs(g, e)}

\* No pointer is read from b.
NotRead(e, b) == \A j \in InodeNum : PtrOf(e, j, 0) = b => Ptrs(e.blk[b]) = NoPtrs

\* Blanking a block that nobody reads pointers from changes no pointer.
LEMMA BlankedSame ==
  ASSUME NEW e \in DiskType, NEW b \in Block, NotRead(e, b), NEW f, f.inode = e.inode,
         \A x \in Block : f.blk[x] = IF x = b THEN Zero ELSE e.blk[x]
  PROVE  SamePtrs(f, e)
<1>1. \A j \in InodeNum : \A k \in Pos : PtrOf(f, j, k) = PtrOf(e, j, k)
  <2> TAKE j \in InodeNum
  <2>1. PtrOf(e, j, 0) \in Pointer
    BY PtrTyped, PosIs
  <2>2. Ptrs(Zero) = NoPtrs
    BY DEF Ptrs, Zero
  <2>3. PtrOf(e, j, 0) # 0 => Ptrs(f.blk[PtrOf(e, j, 0)]) = Ptrs(e.blk[PtrOf(e, j, 0)])
    BY <2>1, <2>2 DEF Pointer, NotRead
  <2> QED BY <2>3, PtrsReadFrom
<1> QED BY <1>1 DEF SamePtrs

\* Giving back such a block leads to the disk without it; blocks are owned once
\* all the way.
LEMMA FreeLeads ==
  ASSUME NEW e \in DiskType, OwnedOnce(e), NEW b \in Block, NotRead(e, b)
  PROVE  Leads(e, Free(b), FreedOf(e, b), Owned)
<1> DEFINE blank(g) == \A x \in Block : g.blk[x] = IF x = b THEN Zero ELSE e.blk[x]
           A == {g \in DiskType : g.inode = e.inode /\ SameInodeMap(g, e) /\ blank(g) /\ g.blockMap = e.blockMap}
           B == {g \in DiskType : g.inode = e.inode /\ SameInodeMap(g, e) /\ blank(g) /\ g.blockMap = e.blockMap \ {b}}
<1>1. \A g \in DiskType : g.inode = e.inode /\ blank(g) => SamePtrs(g, e) /\ g \in Owned
  <2> TAKE g \in DiskType
  <2>1. g.inode = e.inode /\ blank(g) => SamePtrs(g, e)
    BY BlankedSame
  <2> HIDE DEF blank
  <2> QED BY <2>1, SameOwned DEF Owned
<1>2. Written(e, WriteBlock(b, Zero)) \in A
  <2>1. b \in Pointer /\ Zero \in BlockType
    BY BlocksAre DEF Pointer
  <2> QED BY <2>1, BlockWritten DEF SameBut, SameInodeMap
<1>3. \A g \in A : Written(g, ResetBlockBitmap(b)) \in B
  <2>1. b \in Pointer
    BY DEF Pointer
  <2> QED BY <2>1, BlockBitReset DEF SameBut, SameInodeMap
<1>4. \A g \in B : Written(g, Count(-1, 0)) \in B
  <2> TAKE g \in B
  <2>1. g.info.inodes \in Int
    BY DiskParts DEF InfoType
  <2> DEFINE h == Written(g, Count(-1, 0))
  <2>2. h \in DiskType /\ SameBut(h, g, "info") /\ h.info.inodes = g.info.inodes + 0
    BY Counted
  <2> HIDE DEF h
  <2>3. h.info.inodes = g.info.inodes
    BY <2>1, <2>2
  <2>4. h \in B
    BY <2>2, <2>3 DEF SameBut, SameInodeMap
  <2> QED BY <2>4 DEF h
<1>5. A \subseteq Owned /\ B \subseteq Owned
  <2> HIDE DEF blank
  <2> QED BY <1>1
<1>6. B = FreedOf(e, b)
  <2>1. \A g \in B : SamePtrs(g, e)
    <3> HIDE DEF blank
    <3> QED BY <1>1
  <2> QED BY <2>1 DEF FreedOf
<1>7. e \in Owned
  BY DEF Owned
<1> HIDE DEF A, B
<1>8. Leads(e, <<WriteBlock(b, Zero), ResetBlockBitmap(b), Count(-1, 0)>>, B, Owned)
  BY <1>2, <1>3, <1>4, <1>5, <1>7, LeadsThree
<1> QED BY <1>6, <1>8 DEF Free

\* The pointer to a block given back is cleared.
LEMMA FreedSound ==
  ASSUME NEW e \in DiskType, BlocksSound(e), NEW i \in InodeNum, NEW k \in Pos,
         NEW b \in Block, PtrOf(e, i, k) = b, NEW g \in FreedOf(e, b),
         NEW f \in DiskType, OnlyPtr(f, g, i, k, 0), SameTypes(f, g), f.blockMap = g.blockMap,
         \A x \in Block : f.blk[x] = g.blk[x] \/ (x = PtrOf(e, i, 0) /\ x # b /\ f.blk[x].kind = "ptr")
  PROVE  BlocksSound(f)
<1>1. /\ g \in DiskType /\ g.inode = e.inode /\ g.blockMap = e.blockMap \ {b}
      /\ \A x \in Block : g.blk[x] = IF x = b THEN Zero ELSE e.blk[x]
      /\ SamePtrs(g, e)
  BY DEF FreedOf
<1>2. OwnedOnce(f)
  <2>1. OwnedOnce(g)
    BY <1>1, SameOwned DEF BlocksSound
  <2> QED BY <2>1, DroppedOwned
<1>3. \A j \in InodeNum, l \in Pos : PtrOf(f, j, l) = IF j = i /\ l = k THEN 0 ELSE PtrOf(e, j, l)
  BY <1>1 DEF OnlyPtr, SamePtrs
<1>4. \A j \in InodeNum, l \in Pos : PtrOf(e, j, l) = b => j = i /\ l = k
  BY BlocksArePositive DEF BlocksSound, OwnedOnce
<1>5. ASSUME NEW j \in InodeNum, NEW l \in Pos, PtrOf(f, j, l) # 0
      PROVE  /\ PtrOf(f, j, l) \in f.blockMap
             /\ f.blk[PtrOf(f, j, l)].kind \in {"zero", KindOf(f.inode[j], l)}
  <2>1. PtrOf(f, j, l) = PtrOf(e, j, l) /\ PtrOf(e, j, l) # 0 /\ PtrOf(e, j, l) # b
    BY <1>3, <1>4, <1>5
  <2>2. PtrOf(e, j, l) \in e.blockMap
    BY <2>1 DEF BlocksSound, Marked
  <2>3. PtrOf(e, j, l) \in Block
    BY <2>1, PtrTyped DEF Pointer
  <2> DEFINE x == PtrOf(e, j, l)
  <2>4. e.blk[x].kind \in {"zero", KindOf(e.inode[j], l)}
    BY <2>1 DEF BlocksSound, KindsRight
  <2>5. KindOf(f.inode[j], l) = KindOf(e.inode[j], l)
    BY <1>1 DEF KindOf, SameTypes
  <2>6. x = PtrOf(e, i, 0) => l = 0
    BY <2>1, PosIs DEF BlocksSound, OwnedOnce
  <2>7. l = 0 => KindOf(f.inode[j], l) = "ptr"
    BY DEF KindOf
  <2>8. g.blk[x] = e.blk[x]
    BY <1>1, <2>1, <2>3
  <2>9. f.blk[x] = g.blk[x] \/ (x = PtrOf(e, i, 0) /\ f.blk[x].kind = "ptr")
    BY <2>3
  <2> HIDE DEF x
  <2>10. f.blk[x].kind \in {"zero", KindOf(f.inode[j], l)}
    BY <2>4, <2>5, <2>6, <2>7, <2>8, <2>9
  <2> QED BY <1>1, <2>1, <2>2, <2>10 DEF x
<1>6. ASSUME NEW x \in Block \ f.blockMap PROVE f.blk[x] = Zero
  <2>1. x = b \/ x \in Block \ e.blockMap
    BY <1>1, <1>6
  <2>2. x \in Block \ e.blockMap => x # PtrOf(e, i, 0) /\ e.blk[x] = Zero
    BY FreeIsUnlinked, PosIs DEF BlocksSound, Unlinked
  <2> QED BY <1>1, <2>1, <2>2
<1> QED BY <1>2, <1>5, <1>6 DEF BlocksSound, Marked, KindsRight

\* A block of a file or directory filled.
LEMMA ContentWritten ==
  ASSUME NEW e \in DiskType, BlocksSound(e), NEW i \in InodeNum, NEW k \in DataPos, PtrOf(e, i, k) # 0,
         NEW c \in BlockType, c.kind \in {"zero", KindOf(e.inode[i], k)}
  PROVE  LET f == Written(e, WriteBlock(PtrOf(e, i, k), c))
         IN  /\ f \in DiskType /\ SameBut(f, e, "blk") /\ BlocksSound(f)
             /\ \A x \in Block : f.blk[x] = IF x = PtrOf(e, i, k) THEN c ELSE e.blk[x]
             /\ SamePtrs(f, e) /\ SameTypes(f, e)
<1> DEFINE b == PtrOf(e, i, k)
           f == Written(e, WriteBlock(b, c))
<1>1. b \in Block /\ b \in Pointer /\ k \in Pos
  BY PtrTyped, PosIs DEF Pointer
<1>2. /\ f \in DiskType /\ SameBut(f, e, "blk")
      /\ \A x \in Block : f.blk[x] = IF x = b THEN c ELSE e.blk[x]
  BY <1>1, BlockWritten
<1>3. \A j \in InodeNum : PtrOf(e, j, 0) # b
  <2> TAKE j \in InodeNum
  <2>1. 0 \in Pos /\ k # 0
    BY PosIs DEF DataPos
  <2> QED BY <1>1, <2>1 DEF BlocksSound, OwnedOnce
<1>4. SamePtrs(f, e) /\ SameTypes(f, e)
  <2> HIDE DEF b
  <2> QED BY <1>1, <1>3, DataWrite
<1> HIDE DEF f
<1>5. OwnedOnce(f)
  BY <1>4, SameOwned DEF BlocksSound
<1>6. f.blockMap = e.blockMap /\ f.inode = e.inode
  BY <1>2 DEF SameBut
<1>7. Marked(f)
  BY <1>4, <1>6 DEF BlocksSound, Marked, SamePtrs
<1>8. KindsRight(f)
  <2> SUFFICES ASSUME NEW j \in InodeNum, NEW l \in Pos, PtrOf(f, j, l) # 0
               PROVE  f.blk[PtrOf(f, j, l)].kind \in {"zero", KindOf(f.inode[j], l)}
    BY DEF KindsRight
  <2>1. PtrOf(f, j, l) = PtrOf(e, j, l) /\ f.inode[j] = e.inode[j]
    BY <1>4, <1>6 DEF SamePtrs
  <2>2. PtrOf(e, j, l) \in Block
    BY <2>1, PtrTyped DEF Pointer
  <2>3. e.blk[PtrOf(e, j, l)].kind \in {"zero", KindOf(e.inode[j], l)}
    BY <2>1 DEF BlocksSound, KindsRight
  <2>4. PtrOf(e, j, l) = b => j = i /\ l = k
    BY <1>1, <2>1 DEF BlocksSound, OwnedOnce
  <2> HIDE DEF b
  <2> QED BY <1>2, <2>1, <2>2, <2>3, <2>4
<1>9. \A x \in Block \ f.blockMap : f.blk[x] = Zero
  <2>1. b \in e.blockMap
    BY <1>1 DEF BlocksSound, Marked
  <2> HIDE DEF b
  <2> QED BY <1>2, <1>6, <2>1 DEF BlocksSound
<1> QED BY <1>2, <1>4, <1>5, <1>7, <1>8, <1>9 DEF BlocksSound, f

---------------------------------------------------------------------------
(* A directory grows *)

\* The slots that are left in the indirect block of directory p, the block each
\* gets, and the pointers when those up to x have theirs.
LeftIn(d, p) == {i \in Slot : IndirectPtrs(d, d.inode[p])[i] = 0}
NewIn(d, p, i) == GetFreeBlockNum(d, Cardinality(UpTo(LeftIn(d, p), i)))
FilledTo(d, p, x) ==
  [j \in Slot |-> IF j \in LeftIn(d, p) /\ j <= x THEN NewIn(d, p, j) ELSE IndirectPtrs(d, d.inode[p])[j]]

\* The blocks of a directory's data are as they were, or new.
GrownDisks(d, p, place) ==
  {e \in DiskType :
    /\ BlocksSound(e) /\ SameInodeMap(e, d) /\ SameTypes(e, d) /\ NoHoles(e, p)
    /\ \A j \in InodeNum : j # p => e.inode[j] = d.inode[j] /\ \A l \in Pos : PtrOf(e, j, l) = PtrOf(d, j, l)
    /\ \A l \in Pos : PtrOf(e, p, l) = PtrOf(d, p, l) \/ (PtrOf(d, p, l) = 0 /\ PtrOf(e, p, l) \notin d.blockMap)
    /\ \A x \in Block : e.blk[x] = d.blk[x] \/ x = PtrOf(e, p, 0)
    /\ \A b \in e.blockMap : b \in d.blockMap \/ \E m \in 1 .. Growth(d, p, place) : b = GetFreeBlockNum(d, m)
    /\ Growth(d, p, place) # 0 =>
         \E k \in DataPos : PtrOf(d, p, k) = 0 /\ PtrOf(e, p, k) = GetFreeBlockNum(d, Growth(d, p, place))}

\* The blocks GetFreeBlockNum gives are free and differ.
LEMMA GivenIsFree ==
  ASSUME NEW d \in DiskType, NEW n \in Nat, Enough(d, n), NEW m \in 1 .. n
  PROVE  /\ GetFreeBlockNum(d, m) \in Block \ d.blockMap
         /\ \A x \in 1 .. n : GetFreeBlockNum(d, x) = GetFreeBlockNum(d, m) => x = m
<1>1. Cardinality(FreeBlocks(d)) \in Nat
  BY BlocksArePositive, FS_Subset, FS_CardinalityType DEF FreeBlocks
<1>2. \A x \in 1 .. n : x \in 1 .. Cardinality(FreeBlocks(d))
  BY <1>1 DEF Enough
<1>3. m \in 1 .. Cardinality(FreeBlocks(d))
  BY <1>2
<1> QED BY <1>2, <1>3, FreeBlockIsFree, FreeBlocksDiffer DEF FreeBlocks

\* The indirect block is filled slot by slot.
FilledDisks(d, p, x) ==
  {e \in DiskType :
    /\ BlocksSound(e) /\ SameInodeMap(e, d) /\ e.inode = d.inode
    /\ \A j \in InodeNum \ {p}, l \in Pos : PtrOf(e, j, l) = PtrOf(d, j, l)
    /\ IndirectPtrs(e, e.inode[p]) = FilledTo(d, p, x)
    /\ OnlyIndirect(e, d, p)
    /\ e.blockMap = d.blockMap \cup {NewIn(d, p, i) : i \in {j \in LeftIn(d, p) : j <= x}}}

\* The slots a directory fills when it grows get blocks of their own.
LEMMA LeftIs ==
  ASSUME NEW d \in DiskType, NEW p \in InodeNum, Enough(d, Cardinality(LeftIn(d, p)))
  PROVE  /\ LeftIn(d, p) \subseteq Nat /\ IsFiniteSet(LeftIn(d, p)) /\ Cardinality(LeftIn(d, p)) \in Nat
         /\ \A i \in LeftIn(d, p) : /\ NewIn(d, p, i) \in Block \ d.blockMap
                                    /\ \E m \in 1 .. Cardinality(LeftIn(d, p)) : NewIn(d, p, i) = GetFreeBlockNum(d, m)
         /\ \A i, j \in LeftIn(d, p) : NewIn(d, p, i) = NewIn(d, p, j) => i = j
<1> DEFINE left == LeftIn(d, p)
<1>1. left \subseteq Slot
  BY DEF LeftIn
<1>2. left \subseteq Nat /\ IsFiniteSet(left) /\ Cardinality(left) \in Nat
  BY <1>1, SlotsAre, FS_Subset, FS_CardinalityType
<1> HIDE DEF left
<1>3. ASSUME NEW i \in left, NEW j \in left
      PROVE  /\ NewIn(d, p, i) \in Block \ d.blockMap
             /\ \E m \in 1 .. Cardinality(left) : NewIn(d, p, i) = GetFreeBlockNum(d, m)
             /\ NewIn(d, p, i) = NewIn(d, p, j) => i = j
  <2> DEFINE ri == Cardinality(UpTo(left, i))
             rj == Cardinality(UpTo(left, j))
             n == Cardinality(left)
  <2>1. ri \in 1 .. n /\ rj \in 1 .. n /\ (ri = rj => i = j)
    BY <1>2, RankIs
  <2>2. n \in Nat /\ Enough(d, n)
    BY <1>2 DEF left
  <2>3. NewIn(d, p, i) = GetFreeBlockNum(d, ri) /\ NewIn(d, p, j) = GetFreeBlockNum(d, rj)
    BY DEF NewIn, left
  <2> HIDE DEF ri, rj, n
  <2>4. /\ GetFreeBlockNum(d, ri) \in Block \ d.blockMap
        /\ GetFreeBlockNum(d, rj) = GetFreeBlockNum(d, ri) => rj = ri
    BY <2>1, <2>2, GivenIsFree
  <2> QED BY <2>1, <2>3, <2>4 DEF n
<1> QED BY <1>2, <1>3 DEF left

\* One slot filled: from a disk filled so far to one filled further.
LEMMA FillStep ==
  ASSUME NEW d \in DiskType, BlocksSound(d), NEW p \in InodeNum, d.inode[p].indir # 0,
         Enough(d, Cardinality(LeftIn(d, p))), NEW x \in LeftIn(d, p), NEW e \in FilledDisks(d, p, x - 1)
  PROVE  Leads(e, Allocate(WriteBlock(d.inode[p].indir, PtrBlock(FilledTo(d, p, x))), NewIn(d, p, x)),
               FilledDisks(d, p, x), Owned)
<1> DEFINE b == NewIn(d, p, x)
           ptrs == FilledTo(d, p, x)
           link == WriteBlock(d.inode[p].indir, PtrBlock(ptrs))
           f == Written(e, link)
<1>1. /\ e \in DiskType /\ BlocksSound(e) /\ SameInodeMap(e, d) /\ e.inode = d.inode
      /\ \A j \in InodeNum \ {p}, l \in Pos : PtrOf(e, j, l) = PtrOf(d, j, l)
      /\ IndirectPtrs(e, e.inode[p]) = FilledTo(d, p, x - 1)
      /\ OnlyIndirect(e, d, p)
      /\ e.blockMap = d.blockMap \cup {NewIn(d, p, i) : i \in {j \in LeftIn(d, p) : j <= x - 1}}
  BY DEF FilledDisks
<1>2. x \in Slot /\ x \in Nat /\ LeftIn(d, p) \subseteq Nat /\ LeftIn(d, p) \subseteq Slot
  BY LeftIs DEF LeftIn
<1>3. \A i \in LeftIn(d, p) : (i <= x <=> i <= x - 1 \/ i = x) /\ (i = x => ~(i <= x - 1))
  BY <1>2
<1>4. b \in Block \ e.blockMap /\ b \in Pointer
  BY <1>1, <1>3, LeftIs DEF Pointer
<1>5. ptrs = [IndirectPtrs(e, e.inode[p]) EXCEPT ![x] = b]
  BY <1>1, <1>2, <1>3 DEF FilledTo
<1>6. PtrOf(e, p, 0) = d.inode[p].indir /\ PtrOf(d, p, 0) = d.inode[p].indir
  BY <1>1, PtrByPos
<1> HIDE DEF b, ptrs
<1>7. /\ ptrs \in [Slot -> Pointer] /\ f \in DiskType /\ SameBut(f, e, "blk")
      /\ \A y \in Block : f.blk[y] = IF y = PtrOf(e, p, 0) THEN PtrBlock(ptrs) ELSE e.blk[y]
      /\ OnlyPtr(f, e, p, x + 2, b) /\ SameTypes(f, e)
  <2>1. PtrOf(e, p, 0) # 0 /\ OwnedOnce(e)
    BY <1>1, <1>6 DEF BlocksSound
  <2>2. /\ ptrs \in [Slot -> Pointer]
        /\ Written(e, WriteBlock(PtrOf(e, p, 0), PtrBlock(ptrs))) = f
    BY <1>6, <1>5, <2>1, <1>1, <1>2, <1>4, SlotLinked
  <2> HIDE DEF f
  <2> QED BY <1>1, <1>2, <1>4, <1>5, <2>1, <2>2, SlotLinked
<1>8. x + 2 \in Pos
  BY <1>2, PosIs
<1>9. f.blockMap = e.blockMap /\ SameInodeMap(f, e) /\ f.inode = e.inode
  BY <1>7 DEF SameBut, SameInodeMap
<1>10. OnlyIndirect(f, e, p)
  BY <1>7 DEF OnlyIndirect, PtrBlock
<1> HIDE DEF f
<1> DEFINE k == x + 2
<1> HIDE DEF k
<1>11. Leads(e, Allocate(link, b), Allocated(f, b), Owned)
  <2>1. f = Written(e, link)
    BY DEF f
  <2>2. k \in Pos /\ OnlyPtr(f, e, p, k, b)
    BY <1>7, <1>8 DEF k
  <2> HIDE DEF link
  <2> QED BY <1>1, <1>4, <1>7, <1>9, <1>10, <2>1, <2>2, AllocStep
<1>12. Allocated(f, b) \subseteq FilledDisks(d, p, x)
  <2> SUFFICES ASSUME NEW g \in Allocated(f, b) PROVE g \in FilledDisks(d, p, x)
    OBVIOUS
  <2>1. /\ g \in DiskType /\ BlocksSound(g) /\ g.inode = f.inode /\ g.blk = f.blk
        /\ g.blockMap = f.blockMap \cup {b} /\ SameInodeMap(g, f)
    BY DEF Allocated
  <2>2. SameInodeMap(g, d) /\ g.inode = d.inode
    BY <1>1, <1>9, <2>1 DEF SameInodeMap
  <2>3. SamePtrs(g, f)
    BY <2>1, OtherWrite
  <2>4. \A j \in InodeNum \ {p}, l \in Pos : PtrOf(g, j, l) = PtrOf(d, j, l)
    BY <1>1, <1>7, <2>3 DEF OnlyPtr, SamePtrs
  <2>5. IndirectPtrs(g, g.inode[p]) = ptrs
    <3>1. PtrOf(e, p, 0) \in Block
      BY <1>1, <1>6, PtrTyped, PosIs DEF Pointer
    <3>2. g.blk[d.inode[p].indir] = PtrBlock(ptrs)
      BY <1>6, <1>7, <2>1, <3>1
    <3>3. Ptrs(PtrBlock(ptrs)) = ptrs
      BY DEF Ptrs, PtrBlock
    <3> QED BY <2>2, <3>2, <3>3 DEF IndirectPtrs
  <2>6. OnlyIndirect(g, d, p)
    BY <1>1, <1>6, <1>7, <2>1 DEF OnlyIndirect, PtrBlock
  <2>7. g.blockMap = d.blockMap \cup {NewIn(d, p, i) : i \in {j \in LeftIn(d, p) : j <= x}}
    BY <1>1, <1>3, <1>9, <2>1 DEF b
  <2> QED BY <2>1, <2>2, <2>4, <2>5, <2>6, <2>7 DEF FilledDisks, ptrs
<1> QED BY <1>11, <1>12, LeadsWeaker DEF link, ptrs, b

\* A slot that has a block is not filled.
LEMMA FilledSame ==
  ASSUME NEW d \in DiskType, NEW p \in InodeNum, NEW x \in Nat, x + 1 \notin LeftIn(d, p)
  PROVE  FilledDisks(d, p, x) = FilledDisks(d, p, x + 1)
<1>1. \A i \in LeftIn(d, p) : i <= x <=> i <= x + 1
  <2>1. \A i \in LeftIn(d, p) : i \in Nat /\ i # x + 1
    BY SlotsAre DEF LeftIn
  <2> QED BY <2>1
<1>2. FilledTo(d, p, x) = FilledTo(d, p, x + 1)
  BY <1>1 DEF FilledTo
<1>3. {j \in LeftIn(d, p) : j <= x} = {j \in LeftIn(d, p) : j <= x + 1}
  BY <1>1
<1> QED BY <1>2, <1>3 DEF FilledDisks

\* Filling all slots that are left leads to the grown directory.
LEMMA FillLeads ==
  ASSUME NEW d \in DiskType, BlocksSound(d), NEW p \in InodeNum,
         d.inode[p].direct[2] # 0, d.inode[p].indir # 0, Enough(d, Cardinality(LeftIn(d, p)))
  PROVE  /\ GrowDir(d, p) \in Seq(Writes)
         /\ Leads(d, GrowDir(d, p), FilledDisks(d, p, PtrsPerBlock), Owned)
<1> DEFINE n == d.inode[p]
           fill(i) == Allocate(WriteBlock(n.indir, PtrBlock(FilledTo(d, p, i))), NewIn(d, p, i))
           parts == [i \in Slot |-> IF i \in LeftIn(d, p) THEN fill(i) ELSE <<>>]
           B == [x \in 0 .. PtrsPerBlock |-> FilledDisks(d, p, x)]
<1>1. GrowDir(d, p) = Seqs!FlattenSeq(parts)
  BY DEF GrowDir, LeftIn, FilledTo, NewIn, UpTo
<1>2. PtrsPerBlock \in Nat \ {0}
  BY GeometryAssumption
<1>3. \A i \in LeftIn(d, p) : fill(i) \in Seq(Writes)
  <2> TAKE i \in LeftIn(d, p)
  <2>1. IndirectPtrs(d, n) \in [Slot -> Pointer] /\ n.indir \in Pointer
    BY PointersOf DEF Slot, InodeType
  <2>2. \A j \in LeftIn(d, p) : NewIn(d, p, j) \in Block
    BY LeftIs
  <2>3. FilledTo(d, p, i) \in [Slot -> Pointer]
    BY <2>1, <2>2 DEF FilledTo, Pointer
  <2>4. WriteBlock(n.indir, PtrBlock(FilledTo(d, p, i))) \in Writes
    BY <2>1, <2>3, WritesAre, BlocksAre
  <2> QED BY <2>2, <2>4, AllocateTyped
<1>4. d \in FilledDisks(d, p, 0)
  <2>1. \A j \in LeftIn(d, p) : ~(j <= 0)
    BY SlotsAre, PosIs DEF LeftIn
  <2>2. FilledTo(d, p, 0) = IndirectPtrs(d, n)
    <3>1. IndirectPtrs(d, n) \in [Slot -> Pointer]
      BY PointersOf DEF Slot
    <3> QED BY <2>1, <3>1 DEF FilledTo
  <2>3. {j \in LeftIn(d, p) : j <= 0} = {}
    BY <2>1
  <2> QED BY <2>2, <2>3 DEF FilledDisks, SameInodeMap, OnlyIndirect
<1>5. ASSUME NEW x \in 1 .. PtrsPerBlock, NEW e \in FilledDisks(d, p, x - 1)
      PROVE  Leads(e, parts[x], FilledDisks(d, p, x), Owned)
  <2>1. x \in Slot /\ parts[x] = IF x \in LeftIn(d, p) THEN fill(x) ELSE <<>>
    BY DEF Slot
  <2>2. CASE x \in LeftIn(d, p)
    BY <1>5, <2>1, <2>2, FillStep
  <2>3. CASE x \notin LeftIn(d, p)
    <3> DEFINE y == x - 1
    <3>1. y \in Nat /\ y + 1 = x
      OBVIOUS
    <3> HIDE DEF y
    <3>2. FilledDisks(d, p, y) = FilledDisks(d, p, y + 1)
      BY <2>3, <3>1, FilledSame
    <3>3. e \in FilledDisks(d, p, x)
      BY <1>5, <3>1, <3>2 DEF y
    <3>4. e \in Owned
      BY <3>3 DEF FilledDisks, Owned, BlocksSound
    <3> QED BY <2>1, <2>3, <3>3, <3>4, LeadsNone
  <2> QED BY <2>2, <2>3
<1>6. parts \in Seq(Seq(Writes)) /\ Len(parts) = PtrsPerBlock
  <2>1. \A i \in Slot : (IF i \in LeftIn(d, p) THEN fill(i) ELSE <<>>) \in Seq(Writes)
    BY <1>3
  <2>2. PtrsPerBlock \in Nat
    BY <1>2
  <2> DEFINE part(i) == IF i \in LeftIn(d, p) THEN fill(i) ELSE <<>>
  <2>3. \A i \in Slot : part(i) \in Seq(Writes)
    BY <2>1
  <2>4. parts = [i \in 1 .. PtrsPerBlock |-> part(i)]
    BY DEF Slot
  <2> HIDE DEF part, parts, fill
  <2> QED BY <2>2, <2>3, <2>4 DEF Slot
<1> HIDE DEF parts
<1>7. \A x \in 1 .. PtrsPerBlock : \A e \in B[x - 1] : Leads(e, parts[x], B[x], Owned)
  <2> TAKE x \in 1 .. PtrsPerBlock
  <2>1. B[x - 1] = FilledDisks(d, p, x - 1) /\ B[x] = FilledDisks(d, p, x)
    BY <1>2
  <2> HIDE DEF B
  <2> QED BY <1>5, <2>1
<1>8. B[0] = FilledDisks(d, p, 0) /\ B[PtrsPerBlock] = FilledDisks(d, p, PtrsPerBlock)
  BY <1>2
<1> HIDE DEF B
<1> QED BY <1>1, <1>2, <1>4, <1>6, <1>7, <1>8, LeadsFlatten

\* A directory with all slots filled is a grown one.
LEMMA FilledIsGrown ==
  ASSUME NEW d \in DiskType, BlocksSound(d), NEW p \in InodeNum, NEW place, place.full,
         d.inode[p].direct[2] # 0, d.inode[p].indir # 0, PtrOf(d, p, 1) # 0,
         Enough(d, Cardinality(LeftIn(d, p))), NEW e \in FilledDisks(d, p, PtrsPerBlock)
  PROVE  e \in GrownDisks(d, p, place)
<1>1. /\ e \in DiskType /\ BlocksSound(e) /\ SameInodeMap(e, d) /\ e.inode = d.inode
      /\ \A j \in InodeNum \ {p}, l \in Pos : PtrOf(e, j, l) = PtrOf(d, j, l)
      /\ IndirectPtrs(e, e.inode[p]) = FilledTo(d, p, PtrsPerBlock)
      /\ OnlyIndirect(e, d, p)
      /\ e.blockMap = d.blockMap \cup {NewIn(d, p, i) : i \in {j \in LeftIn(d, p) : j <= PtrsPerBlock}}
  BY DEF FilledDisks
<1>2. Growth(d, p, place) = Cardinality(LeftIn(d, p))
  BY DEF Growth, LeftIn
<1>3. PtrOf(e, p, 0) = PtrOf(d, p, 0) /\ PtrOf(e, p, 1) = PtrOf(d, p, 1) /\ PtrOf(e, p, 2) = PtrOf(d, p, 2)
  BY <1>1, PtrByPos
<1>4. \A s \in Slot : /\ s <= PtrsPerBlock
                      /\ s \in LeftIn(d, p) <=> PtrOf(d, p, s + 2) = 0
                      /\ PtrOf(e, p, s + 2) = IF s \in LeftIn(d, p) THEN NewIn(d, p, s) ELSE PtrOf(d, p, s + 2)
  <2> TAKE s \in Slot
  <2>1. s <= PtrsPerBlock
    BY GeometryAssumption DEF Slot
  <2>2. PtrOf(e, p, s + 2) = FilledTo(d, p, PtrsPerBlock)[s] /\ PtrOf(d, p, s + 2) = IndirectPtrs(d, d.inode[p])[s]
    BY <1>1, PtrByPos
  <2> QED BY <2>1, <2>2 DEF FilledTo, LeftIn
<1>5. \A i \in LeftIn(d, p) : NewIn(d, p, i) \in Block \ d.blockMap /\ NewIn(d, p, i) # 0
  BY LeftIs, BlocksArePositive
<1>6. ASSUME NEW l \in Pos
      PROVE  /\ PtrOf(e, p, l) # 0 \/ l = 0
             /\ PtrOf(e, p, l) = PtrOf(d, p, l) \/ (PtrOf(d, p, l) = 0 /\ PtrOf(e, p, l) \notin d.blockMap)
  <2>1. l = 0 \/ l = 1 \/ l = 2 \/ \E s \in Slot : l = s + 2
    <3>1. l = 0 \/ l \in DataPos
      BY DEF DataPos
    <3>2. CASE l \in DataPos /\ l # 1 /\ l # 2
      <4>1. l - 2 \in Slot /\ l \in Nat
        BY <3>2, PosIs
      <4>2. l = (l - 2) + 2
        BY <4>1
      <4> QED BY <4>1, <4>2
    <3> QED BY <3>1, <3>2
  <2>2. PtrOf(d, p, 2) # 0
    BY PtrByPos
  <2>3. CASE l = 0 \/ l = 1 \/ l = 2
    BY <1>3, <2>2, <2>3
  <2>4. CASE \E s \in Slot : l = s + 2
    <3>1. PICK s \in Slot : l = s + 2
      BY <2>4
    <3> QED BY <1>4, <1>5, <3>1
  <2> QED BY <2>1, <2>3, <2>4
<1>7. NoHoles(e, p)
  <2>1. \A k \in DataPos : k \in Pos /\ k # 0
    BY DEF DataPos
  <2> QED BY <1>6, <2>1 DEF NoHoles
<1>8. ASSUME NEW b \in e.blockMap
      PROVE  b \in d.blockMap \/ \E m \in 1 .. Growth(d, p, place) : b = GetFreeBlockNum(d, m)
  BY <1>1, <1>2, LeftIs
<1>9. ASSUME Growth(d, p, place) # 0
      PROVE  \E k \in DataPos : PtrOf(d, p, k) = 0 /\ PtrOf(e, p, k) = GetFreeBlockNum(d, Growth(d, p, place))
  <2> DEFINE left == LeftIn(d, p)
  <2>1. left # {} /\ left \subseteq 1 .. PtrsPerBlock /\ PtrsPerBlock \in Nat
    <3>1. left # {}
      BY <1>2, <1>9, FS_EmptySet
    <3> QED BY <3>1, GeometryAssumption DEF LeftIn, Slot
  <2> HIDE DEF left
  <2>2. PICK x \in left : \A y \in left : y <= x
    BY <2>1, GreatestIs
  <2>3. UpTo(left, x) = left
    BY <2>2 DEF UpTo
  <2>4. NewIn(d, p, x) = GetFreeBlockNum(d, Growth(d, p, place))
    BY <1>2, <2>3 DEF NewIn, left
  <2>5. x \in Slot
    BY <2>1 DEF Slot
  <2>6. x + 2 \in DataPos /\ PtrOf(d, p, x + 2) = 0 /\ PtrOf(e, p, x + 2) = NewIn(d, p, x)
    BY <1>4, <2>2, <2>5, PosIs DEF left
  <2> QED BY <2>4, <2>6
<1>10. SameTypes(e, d)
  BY <1>1 DEF SameTypes
<1>11. \A x \in Block : e.blk[x] = d.blk[x] \/ x = PtrOf(e, p, 0)
  BY <1>1, <1>3 DEF OnlyIndirect
<1> QED BY <1>1, <1>6, <1>7, <1>8, <1>9, <1>10, <1>11 DEF GrownDisks

\* The second direct block.
LEMMA GrowDirect ==
  ASSUME NEW d \in DiskType, BlocksSound(d), NEW p \in InodeNum, NEW place, place.full,
         PtrOf(d, p, 1) # 0, NoHoles(d, p), d.inode[p].direct[2] = 0,
         Enough(d, Growth(d, p, place))
  PROVE  Leads(d, GrowDir(d, p), GrownDisks(d, p, place), Owned)
<1> DEFINE b == GetFreeBlockNum(d, 1)
           n == [d.inode[p] EXCEPT !.direct[2] = b]
           link == PutInode(p, n)
           f == Written(d, link)
<1>1. Growth(d, p, place) = 1
  BY DEF Growth
<1>2. b \in Block \ d.blockMap /\ b \in Pointer
  <2>1. Enough(d, 1) /\ 1 \in 1 .. 1
    BY <1>1
  <2> QED BY <2>1, GivenIsFree DEF Pointer
<1>3. GrowDir(d, p) = Allocate(link, b)
  BY DEF GrowDir
<1> HIDE DEF b
<1>4. /\ f \in DiskType /\ SameBut(f, d, "inode") /\ OnlyPtr(f, d, p, 2, b) /\ SameTypes(f, d)
      /\ \A x \in InodeNum : x # p => f.inode[x] = d.inode[x]
  <2>1. 2 \in 1 .. 2
    OBVIOUS
  <2>2. n \in InodeType /\ f \in DiskType /\ SameBut(f, d, "inode") /\ OnlyPtr(f, d, p, 2, b) /\ SameTypes(f, d)
    <3>1. n = [d.inode[p] EXCEPT !.direct[2] = b]
      OBVIOUS
    <3> HIDE DEF n
    <3> QED BY <1>2, <2>1, <3>1, DirectLinked
  <2> HIDE DEF n
  <2> QED BY <2>2, InodeWritten
<1>5. f.blockMap = d.blockMap /\ SameInodeMap(f, d) /\ f.blk = d.blk
  BY <1>4 DEF SameBut, SameInodeMap
<1>6. 2 \in Pos /\ 2 \in DataPos /\ 1 \in DataPos
  BY PosIs
<1>7. OnlyIndirect(f, d, p)
  BY <1>5 DEF OnlyIndirect
<1>8. f = Written(d, link)
  OBVIOUS
<1> HIDE DEF f, link
<1>9. Leads(d, Allocate(link, b), Allocated(f, b), Owned)
  BY <1>2, <1>4, <1>5, <1>6, <1>7, <1>8, AllocStep
<1>10. ASSUME NEW g \in Allocated(f, b) PROVE g \in GrownDisks(d, p, place)
  <2>1. /\ g \in DiskType /\ BlocksSound(g) /\ g.inode = f.inode /\ g.blk = f.blk
        /\ g.blockMap = f.blockMap \cup {b} /\ SameInodeMap(g, f)
    BY <1>10 DEF Allocated
  <2>2. SamePtrs(g, f)
    BY <2>1, OtherWrite
  <2>3. \A j \in InodeNum, l \in Pos : PtrOf(g, j, l) = IF j = p /\ l = 2 THEN b ELSE PtrOf(d, j, l)
    BY <1>4, <2>2 DEF OnlyPtr, SamePtrs
  <2>4. PtrOf(d, p, 2) = 0 /\ b # 0
    BY <1>2, PtrByPos, BlocksArePositive
  <2>5. \A l \in DataPos : 2 < l => PtrOf(d, p, l) = 0
    BY <1>6, <2>4 DEF NoHoles
  <2>6. NoHoles(g, p)
    <3> SUFFICES ASSUME NEW k \in DataPos, NEW l \in DataPos, k < l, PtrOf(g, p, k) = 0
                 PROVE  PtrOf(g, p, l) = 0
      BY DEF NoHoles
    <3>1. k # 2 /\ PtrOf(d, p, k) = 0
      <4>1. k \in Pos
        BY PosIs
      <4> QED BY <2>3, <2>4, <4>1
    <3>2. k # 1 /\ k \in Nat /\ l \in Nat /\ k # 0
      BY <3>1, PosIs DEF DataPos
    <3>3. 2 < l /\ l # 2
      BY <3>1, <3>2
    <3> QED BY <2>3, <2>5, <3>3, PosIs
  <2>7. SameTypes(g, d) /\ SameInodeMap(g, d) /\ \A x \in Block : g.blk[x] = d.blk[x] \/ x = PtrOf(g, p, 0)
    BY <1>4, <1>5, <2>1 DEF SameTypes, SameInodeMap
  <2>8. /\ \A j \in InodeNum : j # p => g.inode[j] = d.inode[j] /\ \A l \in Pos : PtrOf(g, j, l) = PtrOf(d, j, l)
        /\ \A l \in Pos : PtrOf(g, p, l) = PtrOf(d, p, l) \/ (PtrOf(d, p, l) = 0 /\ PtrOf(g, p, l) \notin d.blockMap)
    BY <1>2, <1>4, <2>1, <2>3, <2>4
  <2>9. \A x \in g.blockMap : x \in d.blockMap \/ \E m \in 1 .. Growth(d, p, place) : x = GetFreeBlockNum(d, m)
    BY <1>1, <1>5, <2>1 DEF b
  <2>10. \E k \in DataPos : PtrOf(d, p, k) = 0 /\ PtrOf(g, p, k) = GetFreeBlockNum(d, Growth(d, p, place))
    BY <1>1, <1>6, <2>3, <2>4 DEF b
  <2> QED BY <2>1, <2>6, <2>7, <2>8, <2>9, <2>10 DEF GrownDisks
<1>11. Allocated(f, b) \subseteq GrownDisks(d, p, place)
  BY <1>10
<1> QED BY <1>3, <1>9, <1>11, LeadsWeaker

\* The indirect block and the first block behind it.
LEMMA GrowIndirect ==
  ASSUME NEW d \in DiskType, BlocksSound(d), NEW p \in InodeNum, NEW place, place.full,
         PtrOf(d, p, 1) # 0, d.inode[p].direct[2] # 0, d.inode[p].indir = 0,
         Enough(d, Growth(d, p, place))
  PROVE  Leads(d, GrowDir(d, p), GrownDisks(d, p, place), Owned)
<1> DEFINE b == GetFreeBlockNum(d, 1)
           c == GetFreeBlockNum(d, 2)
           n == [d.inode[p] EXCEPT !.indir = b]
           first == [i \in Slot |-> IF i = 1 THEN c ELSE 0]
           link == PutInode(p, n)
           link2 == WriteBlock(b, PtrBlock(first))
           f == Written(d, link)
<1>1. Growth(d, p, place) = 2
  BY DEF Growth
<1>2. b \in Block \ d.blockMap /\ b \in Pointer /\ c \in Block \ d.blockMap /\ c \in Pointer /\ b # c /\ b # 0 /\ c # 0
  <2>1. Enough(d, 2) /\ 1 \in 1 .. 2 /\ 2 \in 1 .. 2 /\ 1 # 2
    BY <1>1
  <2> QED BY <2>1, GivenIsFree, BlocksArePositive DEF Pointer
<1>3. GrowDir(d, p) = Allocate(link, b) \o Allocate(link2, c)
  BY DEF GrowDir
<1> HIDE DEF b, c
<1>4. IndirectPtrs(d, d.inode[p]) = NoPtrs
  BY DEF IndirectPtrs
<1>5. d.blk[b] = Zero /\ Ptrs(Zero) = NoPtrs
  BY <1>2 DEF BlocksSound, Ptrs, Zero
<1>6. /\ n \in InodeType
      /\ f \in DiskType /\ SameBut(f, d, "inode") /\ OnlyPtr(f, d, p, 0, b) /\ SameTypes(f, d)
      /\ \A x \in InodeNum : f.inode[x] = IF x = p THEN n ELSE d.inode[x]
  <2>1. n \in InodeType /\ f \in DiskType /\ SameBut(f, d, "inode") /\ OnlyPtr(f, d, p, 0, b) /\ SameTypes(f, d)
    <3>1. n = [d.inode[p] EXCEPT !.indir = b]
      OBVIOUS
    <3> HIDE DEF n
    <3> QED BY <1>2, <1>4, <1>5, <3>1, IndirectLinked
  <2> HIDE DEF n
  <2> QED BY <2>1, InodeWritten
<1>7. n.indir = b
  BY PointersOf DEF InodeType
<1>8. f.blockMap = d.blockMap /\ SameInodeMap(f, d) /\ f.blk = d.blk
  BY <1>6 DEF SameBut, SameInodeMap
<1>9. 0 \in Pos /\ 2 \in Pos /\ 2 \in DataPos /\ 1 \in DataPos /\ 1 \in Slot /\ 1 + 2 = 3 /\ 3 \in DataPos /\ 3 \in Pos
  BY PosIs, SlotsAre
<1>10. OnlyIndirect(f, d, p)
  BY <1>8 DEF OnlyIndirect
<1>11. f = Written(d, link)
  OBVIOUS
<1> HIDE DEF f
<1>12. Leads(d, Allocate(link, b), Allocated(f, b), Owned)
  <2> HIDE DEF link
  <2> QED BY <1>2, <1>6, <1>8, <1>9, <1>10, <1>11, AllocStep
<1>13. ASSUME NEW g \in Allocated(f, b)
       PROVE  Leads(g, Allocate(link2, c), GrownDisks(d, p, place), Owned)
  <2> DEFINE h == Written(g, link2)
  <2>1. /\ g \in DiskType /\ BlocksSound(g) /\ g.inode = f.inode /\ g.blk = f.blk
        /\ g.blockMap = f.blockMap \cup {b} /\ SameInodeMap(g, f)
    BY <1>13 DEF Allocated
  <2>2. SamePtrs(g, f)
    BY <2>1, OtherWrite
  <2>3. \A j \in InodeNum, l \in Pos : PtrOf(g, j, l) = IF j = p /\ l = 0 THEN b ELSE PtrOf(d, j, l)
    BY <1>6, <2>2 DEF OnlyPtr, SamePtrs
  <2>4. PtrOf(g, p, 0) = b
    BY <1>9, <2>3
  <2>5. g.inode[p].indir = b
    BY <1>6, <1>7, <2>1
  <2>6. IndirectPtrs(g, g.inode[p]) = NoPtrs
    BY <1>2, <1>5, <1>8, <2>1, <2>5 DEF IndirectPtrs
  <2>7. first = [IndirectPtrs(g, g.inode[p]) EXCEPT ![1] = c]
    BY <2>6 DEF NoPtrs
  <2> HIDE DEF first
  <2>8. /\ h \in DiskType /\ SameBut(h, g, "blk")
        /\ \A x \in Block : h.blk[x] = IF x = b THEN PtrBlock(first) ELSE g.blk[x]
        /\ OnlyPtr(h, g, p, 3, c) /\ SameTypes(h, g)
    <3>1. OwnedOnce(g) /\ PtrOf(g, p, 0) # 0
      BY <1>2, <2>1, <2>4 DEF BlocksSound
    <3> DEFINE s == 1
    <3>2. s \in Slot /\ s + 2 = 3 /\ first = [IndirectPtrs(g, g.inode[p]) EXCEPT ![s] = c]
      BY <1>9, <2>7
    <3> HIDE DEF s
    <3>3. LET f0 == Written(g, WriteBlock(PtrOf(g, p, 0), PtrBlock(first)))
          IN  /\ f0 \in DiskType /\ SameBut(f0, g, "blk")
              /\ \A x \in Block : f0.blk[x] = IF x = PtrOf(g, p, 0) THEN PtrBlock(first) ELSE g.blk[x]
              /\ OnlyPtr(f0, g, p, s + 2, c) /\ SameTypes(f0, g)
      BY <1>2, <2>1, <3>1, <3>2, SlotLinked
    <3> QED BY <2>4, <3>2, <3>3
  <2>9. h.blockMap = g.blockMap /\ SameInodeMap(h, g) /\ h.inode = g.inode
    BY <2>8 DEF SameBut, SameInodeMap
  <2>10. OnlyIndirect(h, g, p)
    BY <2>4, <2>8 DEF OnlyIndirect, PtrBlock
  <2>11. c \in Block \ g.blockMap
    BY <1>2, <1>8, <2>1
  <2>12. h = Written(g, link2)
    OBVIOUS
  <2> HIDE DEF h
  <2>13. Leads(g, Allocate(link2, c), Allocated(h, c), Owned)
    <3> HIDE DEF link2
    <3> QED BY <1>9, <2>1, <2>8, <2>9, <2>10, <2>11, <2>12, AllocStep
  <2>14. ASSUME NEW e \in Allocated(h, c) PROVE e \in GrownDisks(d, p, place)
    <3>1. /\ e \in DiskType /\ BlocksSound(e) /\ e.inode = h.inode /\ e.blk = h.blk
          /\ e.blockMap = h.blockMap \cup {c} /\ SameInodeMap(e, h)
      BY <2>14 DEF Allocated
    <3>2. SamePtrs(e, h)
      BY <3>1, OtherWrite
    <3>3. \A j \in InodeNum, l \in Pos :
            PtrOf(e, j, l) = IF j = p /\ l = 0 THEN b ELSE IF j = p /\ l = 3 THEN c ELSE PtrOf(d, j, l)
      BY <2>3, <2>8, <3>2 DEF OnlyPtr, SamePtrs
    <3>4. PtrOf(d, p, 0) = 0 /\ PtrOf(d, p, 2) # 0
      BY PtrByPos
    <3>5. \A s \in Slot : PtrOf(d, p, s + 2) = 0
      BY <1>4, PtrByPos DEF NoPtrs
    <3>6. PtrOf(d, p, 3) = 0
      BY <1>9, <3>5
    <3>7. NoHoles(e, p)
      <4> SUFFICES ASSUME NEW k \in DataPos, NEW l \in DataPos, k < l, PtrOf(e, p, k) = 0
                   PROVE  PtrOf(e, p, l) = 0
        BY DEF NoHoles
      <4>1. k # 3 /\ k # 2 /\ k # 1
        <5>1. PtrOf(e, p, 1) = PtrOf(d, p, 1) /\ PtrOf(e, p, 2) = PtrOf(d, p, 2) /\ PtrOf(e, p, 3) = c
          BY <1>9, <3>3, PosIs
        <5> QED BY <1>2, <3>4, <5>1
      <4>2. k \in Nat /\ l \in Nat /\ k # 0 /\ l # 0 /\ l \in Pos
        BY PosIs DEF DataPos
      <4>3. l # 1 /\ l # 2 /\ l # 3
        BY <4>1, <4>2
      <4>4. l - 2 \in Slot /\ (l - 2) + 2 = l
        BY <4>2, <4>3, PosIs
      <4>5. PtrOf(d, p, l) = 0
        <5> DEFINE s == l - 2
        <5>1. s \in Slot /\ s + 2 = l
          BY <4>4
        <5> HIDE DEF s
        <5> QED BY <3>5, <5>1
      <4> QED BY <3>3, <4>2, <4>3, <4>5
    <3>8. SameTypes(e, d) /\ SameInodeMap(e, d)
      BY <1>6, <1>8, <2>1, <2>8, <2>9, <3>1 DEF SameTypes, SameInodeMap
    <3>9. PtrOf(e, p, 0) = b
      BY <1>9, <3>3
    <3>10. \A x \in Block : e.blk[x] = d.blk[x] \/ x = PtrOf(e, p, 0)
      BY <1>8, <2>1, <2>8, <3>1, <3>9
    <3>11. /\ \A j \in InodeNum : j # p => e.inode[j] = d.inode[j] /\ \A l \in Pos : PtrOf(e, j, l) = PtrOf(d, j, l)
           /\ \A l \in Pos : PtrOf(e, p, l) = PtrOf(d, p, l) \/ (PtrOf(d, p, l) = 0 /\ PtrOf(e, p, l) \notin d.blockMap)
      BY <1>2, <1>6, <2>1, <2>9, <3>1, <3>3, <3>4, <3>6
    <3>12. \A x \in e.blockMap : x \in d.blockMap \/ \E m \in 1 .. Growth(d, p, place) : x = GetFreeBlockNum(d, m)
      BY <1>1, <1>8, <2>1, <2>9, <3>1 DEF b, c
    <3>13. \E k \in DataPos : PtrOf(d, p, k) = 0 /\ PtrOf(e, p, k) = GetFreeBlockNum(d, Growth(d, p, place))
      BY <1>1, <1>9, <3>3, <3>6 DEF c
    <3> QED BY <3>1, <3>7, <3>8, <3>10, <3>11, <3>12, <3>13 DEF GrownDisks
  <2>15. Allocated(h, c) \subseteq GrownDisks(d, p, place)
    BY <2>14
  <2> QED BY <2>13, <2>15, LeadsWeaker
<1>14. Allocate(link, b) \in Seq(Writes) /\ Allocate(link2, c) \in Seq(Writes)
  <2>1. link \in Writes
    BY <1>6, WritesAre
  <2>2. first \in [Slot -> Pointer]
    BY <1>2 DEF Pointer
  <2>3. link2 \in Writes
    BY <1>2, <2>2, WritesAre, BlocksAre
  <2> QED BY <1>2, <2>1, <2>3, AllocateTyped
<1> HIDE DEF link, link2
<1> QED BY <1>3, <1>12, <1>13, <1>14, LeadsConcat

\* A directory that has grown is as it was, but for new, empty blocks.
LEMMA GrownLeads ==
  ASSUME NEW d \in DiskType, BlocksSound(d), NEW p \in InodeNum, NEW place \in PlaceType,
         PtrOf(d, p, 1) # 0, NoHoles(d, p), Enough(d, Growth(d, p, place))
  PROVE  /\ Grown(d, p, place) \in Seq(Writes)
         /\ Leads(d, Grown(d, p, place), GrownDisks(d, p, place), Owned)
<1>1. Grown(d, p, place) \in Seq(Writes)
  BY GrownTyped
<1>2. CASE ~place.full
  <2>1. Growth(d, p, place) = 0 /\ Grown(d, p, place) = <<>>
    BY <1>2 DEF Growth, Grown
  <2>2. d \in GrownDisks(d, p, place)
    BY <2>1 DEF GrownDisks, SameInodeMap, SameTypes
  <2>3. d \in Owned
    BY DEF Owned, BlocksSound
  <2> QED BY <1>1, <2>1, <2>2, <2>3, LeadsNone
<1>3. CASE place.full /\ d.inode[p].direct[2] = 0
  BY <1>1, <1>3, GrowDirect DEF Grown
<1>4. CASE place.full /\ d.inode[p].direct[2] # 0 /\ d.inode[p].indir = 0
  BY <1>1, <1>4, GrowIndirect DEF Grown
<1>5. CASE place.full /\ d.inode[p].direct[2] # 0 /\ d.inode[p].indir # 0
  <2>1. Growth(d, p, place) = Cardinality(LeftIn(d, p))
    BY <1>5 DEF Growth, LeftIn
  <2>2. Leads(d, GrowDir(d, p), FilledDisks(d, p, PtrsPerBlock), Owned)
    BY <1>5, <2>1, FillLeads
  <2>3. FilledDisks(d, p, PtrsPerBlock) \subseteq GrownDisks(d, p, place)
    BY <1>5, <2>1, FilledIsGrown
  <2>4. Leads(d, GrowDir(d, p), GrownDisks(d, p, place), Owned)
    BY <2>2, <2>3, LeadsWeaker
  <2> QED BY <1>1, <1>5, <2>4 DEF Grown
<1> QED BY <1>2, <1>3, <1>4, <1>5

---------------------------------------------------------------------------
(* Directories as relations *)

\* Directory i has name x for inode c.
Has(d, i, x, c) ==
  \E y \in Cells(d, i) : EntryAt(d, i, y[1], y[2]).name = x /\ EntryAt(d, i, y[1], y[2]).ino = c

\* What is behind a directory's pointers are entries.
LEMMA EntryTyped ==
  ASSUME NEW d \in DiskType, NEW i \in InodeNum, NEW k \in DataPos, PtrOf(d, i, k) # 0, NEW j \in Entry
  PROVE  PtrOf(d, i, k) \in Block /\ EntryAt(d, i, k, j) \in EntryType
<1>1. PtrOf(d, i, k) \in Block
  BY PtrTyped, PosIs DEF Pointer
<1>2. d.blk[PtrOf(d, i, k)] \in BlockType
  BY <1>1, DiskParts
<1>3. Ents(d.blk[PtrOf(d, i, k)]) \in [Entry -> EntryType]
  BY <1>2, EntsTyped
<1> QED BY <1>1, <1>3 DEF EntryAt

\* A directory has a name where one of its entries is that name.
LEMMA HasAt ==
  ASSUME NEW d, NEW i, NEW x, x # "", NEW c
  PROVE  Has(d, i, x, c) <=> \E k, j : IsAt(d, i, k, j, x) /\ EntryAt(d, i, k, j).ino = c
<1>1. ASSUME NEW k, NEW j, IsAt(d, i, k, j, x), EntryAt(d, i, k, j).ino = c PROVE Has(d, i, x, c)
  <2>1. <<k, j>> \in Cells(d, i)
    BY <1>1 DEF Cells, IsAt
  <2> QED BY <1>1, <2>1 DEF Has, IsAt
<1>2. ASSUME NEW y \in Cells(d, i), EntryAt(d, i, y[1], y[2]).name = x
      PROVE  IsAt(d, i, y[1], y[2], x)
  BY <1>2 DEF Cells, IsAt
<1> QED BY <1>1, <1>2 DEF Has

\* In a directory without a name twice a name has one inode.
LEMMA HasOnce ==
  ASSUME NEW d, NEW i, NamesOnce(d, i), NEW x, NEW b, NEW c, Has(d, i, x, b), Has(d, i, x, c)
  PROVE  b = c
BY DEF Has, NamesOnce

\* Nothing is found in a file.
LEMMA FileHasNothing ==
  ASSUME NEW d \in DiskType, KindsRight(d), NEW i \in InodeNum, ~IsDirIn(d, i), NEW x, Plain(x), NEW c
  PROVE  ~Has(d, i, x, c)
<1> SUFFICES ASSUME NEW y \in Cells(d, i), EntryAt(d, i, y[1], y[2]).name = x PROVE FALSE
  BY DEF Has
<1>1. y[1] \in DataPos /\ y[2] \in Entry /\ PtrOf(d, i, y[1]) # 0 /\ y[1] \in Pos /\ y[1] # 0
  BY PosIs DEF Cells, DataPos
<1> DEFINE b == d.blk[PtrOf(d, i, y[1])]
<1>2. b.kind \in {"zero", "data"}
  BY <1>1 DEF KindsRight, KindOf, IsDirIn
<1>3. Ents(b)[y[2]].name \in {"", "?"}
  <2> HIDE DEF b
  <2> QED BY <1>1, <1>2 DEF Ents, NoEntries, NoEntry
<1>4. x = Ents(b)[y[2]].name
  BY DEF EntryAt
<1> QED BY <1>3, <1>4 DEF Plain

\* The inode a path leads to, as far as it does.
Ino(d, p) == Walk(d, p).ino

\* What is found at a path is an entry of the directory it leads through.
LEMMA ReachedHas ==
  ASSUME NEW d \in DiskType, NEW p \in Path, Reached(d, p)
  PROVE  /\ Reached(d, Up(p)) /\ Has(d, Ino(d, Up(p)), p[Len(p)], Ino(d, p))
         /\ Ino(d, p) \in InodeNum
<1>1. p \in Seq(Name) /\ p # <<>> /\ Len(p) \in Nat \ {0} /\ Plain(p[Len(p)])
  BY PathIs
<1> DEFINE w == Walk(d, p)
           x == p[Len(p)]
<1>2. WalkRight(d, p, w)
  BY <1>1, WalkIsRight
<1>3. w.n = Len(p) /\ w.n # 0
  BY <1>1 DEF Reached
<1>4. Reached(d, Up(p)) /\ w.dir = Walk(d, Up(p)).ino
  BY <1>1, ReachedUp
<1> HIDE DEF w
<1>5. PICK k, j : IsAt(d, w.dir, k, j, x) /\ w.ino = EntryAt(d, w.dir, k, j).ino
  BY <1>2, <1>3 DEF WalkRight
<1>6. Has(d, w.dir, x, w.ino)
  <2>1. x # ""
    BY <1>1 DEF Plain
  <2> HIDE DEF x
  <2> QED BY <1>5, <2>1, HasAt
<1>7. w.ino \in InodeNum
  BY <1>2 DEF WalkRight
<1> QED BY <1>4, <1>6, <1>7 DEF Ino, w

\* A disk where directories are read to their end.
Tidy(d) ==
  /\ d \in DiskType /\ KindsRight(d)
  /\ \A i \in DirInodes(d) : NoHoles(d, i) /\ NamesOnce(d, i)

\* Where the directory a path leads through is reached and has the name, the
\* path is reached.
LEMMA HasReached ==
  ASSUME NEW d, Tidy(d), NEW p \in Path, Reached(d, Up(p)), NEW c,
         Has(d, Ino(d, Up(p)), p[Len(p)], c)
  PROVE  Reached(d, p) /\ Ino(d, p) = c
<1>1. p \in Seq(Name) /\ p # <<>> /\ Len(p) \in Nat \ {0} /\ Plain(p[Len(p)]) /\ d \in DiskType
  BY PathIs DEF Tidy
<1> DEFINE v == Walk(d, Up(p))
           x == p[Len(p)]
<1>2. v.ino \in InodeNum /\ v.place \in PlaceType
  <2>1. Up(p) \in Seq(Name)
    BY <1>1, UpIs
  <2>2. WalkRight(d, Up(p), v)
    BY <1>1, <2>1, WalkIsRight
  <2> HIDE DEF v
  <2> QED BY <2>2 DEF WalkRight
<1>3. Has(d, v.ino, x, c) /\ x # "" /\ Plain(x)
  BY <1>1 DEF Ino, Plain
<1>4. Reached(d, p) <=> Reached(d, Up(p)) /\ findName(d, v.ino, x, v.place).found
  BY <1>1, ReachedUp
<1> HIDE DEF v, x
<1>5. IsDirIn(d, v.ino)
  BY <1>1, <1>2, <1>3, FileHasNothing DEF Tidy
<1>6. v.ino \in DirInodes(d)
  BY <1>2, <1>5 DEF DirInodes
<1>7. PICK k, j : IsAt(d, v.ino, k, j, x)
  BY <1>3, HasAt
<1>8. findName(d, v.ino, x, v.place).found
  BY <1>1, <1>2, <1>6, <1>7, FindNameMisses DEF Tidy
<1>9. Reached(d, p)
  BY <1>4, <1>8
<1>10. Has(d, v.ino, x, Ino(d, p))
  BY <1>1, <1>9, ReachedHas DEF v, x, Ino
<1>11. Ino(d, p) = c
  BY <1>3, <1>6, <1>10, HasOnce DEF Tidy
<1> QED BY <1>9, <1>11

---------------------------------------------------------------------------
(* The inodes of paths *)

LEMMA InodesAtIs ==
  ASSUME NEW d
  PROVE  /\ DOMAIN InodesAt(d) = {p \in Path : Reached(d, p)}
         /\ \A p \in Path : Reached(d, p) => InodesAt(d)[p] = Ino(d, p)
BY DEF InodesAt, Reached, Ino

\* What holds for the root, and for a path when for the one it leads through.
LEMMA PathInduction ==
  ASSUME NEW Bad, Bad \subseteq Path, Bad # {}
  PROVE  \E p \in Bad : Up(p) \notin Bad
<1> DEFINE Lens == {n \in Nat : \E p \in Bad : n = Len(p)}
<1>1. \A p \in Bad : Len(p) \in Nat \ {0} /\ p \in Seq(Name) /\ p # <<>>
  BY PathIs
<1>2. Lens \subseteq Nat /\ Lens # {}
  BY <1>1
<1>3. PICK n \in Lens : \A m \in Lens : n <= m
  <2> HIDE DEF Lens
  <2> QED BY <1>2, LeastNatural
<1>4. PICK p \in Bad : n = Len(p)
  OBVIOUS
<1>5. Up(p) \notin Bad
  <2> SUFFICES ASSUME Up(p) \in Bad PROVE FALSE
    OBVIOUS
  <2>1. Len(Up(p)) = Len(p) - 1
    BY <1>1, <1>4, UpIs
  <2>2. Len(Up(p)) \in Lens
    BY <1>1
  <2>3. n <= Len(p) - 1
    BY <1>3, <2>1, <2>2
  <2> QED BY <1>1, <1>4, <2>3
<1> QED BY <1>5

\* A path leads through the root or another path.
LEMMA UpOfPath ==
  ASSUME NEW p \in Path
  PROVE  Up(p) = <<>> \/ Up(p) \in Path
<1>1. p \in Seq(Name) /\ p # <<>> /\ Len(p) \in Nat \ {0}
  BY PathIs
<1> DEFINE k == Len(p) - 1
<1>2. k \in 0 .. Len(p) /\ Up(p) = SubSeq(p, 1, k)
  BY <1>1 DEF Up
<1>3. CASE k = 0
  <2>1. Len(Up(p)) = 0 /\ Up(p) \in Seq(Name)
    BY <1>1, <1>3, UpIs
  <2>2. \A s \in Seq(Name) : Len(s) = 0 => s = <<>>
    OBVIOUS
  <2> QED BY <2>1, <2>2
<1>4. CASE k # 0
  <2>1. \A n \in Nat \ {0} : n - 1 # 0 => n - 1 \in 1 .. n
    OBVIOUS
  <2>2. k \in 1 .. Len(p)
    BY <1>1, <1>4, <2>1
  <2> HIDE DEF k
  <2> QED BY <1>2, <2>2, PathIs
<1> QED BY <1>3, <1>4

\* The root is always there.
LEMMA RootReached ==
  ASSUME NEW d
  PROVE  Reached(d, <<>>) /\ Ino(d, <<>>) = 0
BY WalkNone DEF Reached, Ino, WalkStart

\* Two paths with the same last name through the same path are the same.
LEMMA SamePath ==
  ASSUME NEW p \in Path, NEW q \in Path, Up(p) = Up(q), p[Len(p)] = q[Len(q)]
  PROVE  p = q
<1>1. /\ p \in Seq(Name) /\ p # <<>> /\ Len(p) \in Nat \ {0}
      /\ q \in Seq(Name) /\ q # <<>> /\ Len(q) \in Nat \ {0}
  BY PathIs
<1>2. /\ Len(Up(p)) = Len(p) - 1 /\ \A x \in 1 .. Len(p) - 1 : Up(p)[x] = p[x]
      /\ Len(Up(q)) = Len(q) - 1 /\ \A x \in 1 .. Len(q) - 1 : Up(q)[x] = q[x]
  BY <1>1, UpIs
<1>3. Len(p) = Len(q)
  BY <1>1, <1>2
<1>4. \A x \in 1 .. Len(p) : p[x] = q[x]
  <2> TAKE x \in 1 .. Len(p)
  <2>1. x = Len(p) \/ x \in 1 .. Len(p) - 1
    BY <1>1
  <2> QED BY <1>2, <1>3, <2>1
<1> QED BY <1>1, <1>3, <1>4, SameSequence

---------------------------------------------------------------------------
(* The tree *)

\* Where the tree is sound and pointers have no holes, directories are read to
\* their end.
LEMMA SoundIsTidy ==
  ASSUME NEW d \in DiskType, TreeSound(d), \A i \in DirInodes(d) : NoHoles(d, i)
  PROVE  Tidy(d)
BY DEF Tidy, TreeSound, DirsRight

\* The directory a path leads through is one, and the entry is a plain one.
LEMMA ReachedIs ==
  ASSUME NEW d \in DiskType, TreeSound(d), NEW p \in Path, Reached(d, p)
  PROVE  LET i == Ino(d, Up(p))
         IN  /\ Reached(d, Up(p)) /\ i \in DirInodes(d) /\ Ino(d, p) \in d.inodeMap \ {0}
             /\ \E x \in PlainCells(d, i) : /\ EntryAt(d, i, x[1], x[2]).name = p[Len(p)]
                                            /\ EntryAt(d, i, x[1], x[2]).ino = Ino(d, p)
<1> DEFINE i == Ino(d, Up(p))
           name == p[Len(p)]
<1>1. Reached(d, Up(p)) /\ Has(d, i, name, Ino(d, p))
  BY ReachedHas
<1>2. i \in InodeNum
  BY <1>1, UpOfPath, RootReached, ReachedHas, FirstAre
<1>3. Plain(name)
  BY PathIs
<1> HIDE DEF i, name
<1>4. i \in DirInodes(d)
  BY <1>1, <1>2, <1>3, FileHasNothing DEF TreeSound, DirInodes
<1>5. PICK x \in Cells(d, i) : /\ EntryAt(d, i, x[1], x[2]).name = name
                               /\ EntryAt(d, i, x[1], x[2]).ino = Ino(d, p)
  BY <1>1 DEF Has
<1>6. x \in PlainCells(d, i)
  BY <1>3, <1>5 DEF PlainCells
<1>7. EntryAt(d, i, x[1], x[2]).ino \in d.inodeMap \ {0}
  BY <1>4, <1>6 DEF TreeSound, EntriesMarked
<1> QED BY <1>1, <1>4, <1>5, <1>6, <1>7 DEF i, name

\* An inode has one path.
LEMMA OnePathEach ==
  ASSUME NEW d \in DiskType, TreeSound(d), NEW p \in Path, NEW q \in Path,
         Reached(d, p), Reached(d, q), Ino(d, p) = Ino(d, q)
  PROVE  p = q
<1> DEFINE Bad == {u \in Path : Reached(d, u) /\ \E v \in Path : Reached(d, v) /\ Ino(d, u) = Ino(d, v) /\ u # v}
<1>1. SUFFICES ASSUME Bad # {} PROVE FALSE
  OBVIOUS
<1>2. Bad \subseteq Path
  OBVIOUS
<1> HIDE DEF Bad
<1>3. PICK u \in Bad : Up(u) \notin Bad
  BY <1>1, <1>2, PathInduction
<1>4. u \in Path /\ Reached(d, u)
  BY <1>3 DEF Bad
<1>5. PICK v \in Path : Reached(d, v) /\ Ino(d, u) = Ino(d, v) /\ u # v
  BY <1>3 DEF Bad
<1> DEFINE i == Ino(d, Up(u))
           j == Ino(d, Up(v))
<1>6. /\ Reached(d, Up(u)) /\ i \in DirInodes(d) /\ Ino(d, u) \in d.inodeMap \ {0}
      /\ \E x \in PlainCells(d, i) : /\ EntryAt(d, i, x[1], x[2]).name = u[Len(u)]
                                     /\ EntryAt(d, i, x[1], x[2]).ino = Ino(d, u)
  BY <1>4, ReachedIs
<1>7. /\ Reached(d, Up(v)) /\ j \in DirInodes(d) /\ Ino(d, v) \in d.inodeMap \ {0}
      /\ \E x \in PlainCells(d, j) : /\ EntryAt(d, j, x[1], x[2]).name = v[Len(v)]
                                     /\ EntryAt(d, j, x[1], x[2]).ino = Ino(d, v)
  BY <1>5, ReachedIs
<1> HIDE DEF i, j
<1>8. i = j /\ u[Len(u)] = v[Len(v)]
  BY <1>5, <1>6, <1>7 DEF TreeSound, EntriesOnce
<1>9. Up(u) # Up(v)
  BY <1>4, <1>5, <1>8, SamePath
<1>10. ASSUME NEW w \in Path, Reached(d, w) PROVE Ino(d, w) # 0
  BY <1>10, ReachedIs
<1>11. Up(u) \in Path /\ Up(v) \in Path
  BY <1>4, <1>5, <1>6, <1>7, <1>8, <1>9, <1>10, UpOfPath, RootReached DEF i, j
<1>12. Up(u) \in Bad
  BY <1>6, <1>7, <1>8, <1>9, <1>11 DEF Bad, i, j
<1> QED BY <1>3, <1>12

\* A directory's ".." is the inode of the path that leads to it.
LEMMA ReachedUpRight ==
  ASSUME NEW d \in DiskType, TreeSound(d), NEW p \in Path, Reached(d, p), IsDirIn(d, Ino(d, p))
  PROVE  UpRight(d, Ino(d, p), InodeOf(InodesAt(d), Up(p)))
<1>1. UpRight(d, Ino(d, p), Ino(d, Up(p)))
  BY ReachedIs DEF TreeSound, UpsRight
<1>2. Reached(d, Up(p))
  BY ReachedIs
<1>3. Ino(d, Up(p)) = InodeOf(InodesAt(d), Up(p))
  BY <1>2, UpOfPath, RootReached, InodesAtIs, PathIs DEF InodeOf
<1> QED BY <1>1, <1>3

\* A path that is there is still there when no entry for it or on the way to it
\* is gone.
LEMMA StillReached ==
  ASSUME NEW d \in DiskType, TreeSound(d), NEW e, Tidy(e), NEW gone,
         \A i \in DirInodes(d), x \in Name, c \in InodeNum :
           Plain(x) /\ Has(d, i, x, c) /\ c \notin gone => Has(e, i, x, c),
         \A i \in gone, x \in Name, c \in InodeNum : Plain(x) => ~Has(d, i, x, c),
         NEW p \in Path, Reached(d, p), Ino(d, p) \notin gone
  PROVE  Reached(e, p) /\ Ino(e, p) = Ino(d, p)
<1> DEFINE Right(u) == Reached(e, u) /\ Ino(e, u) = Ino(d, u)
           Bad == {u \in Path : Reached(d, u) /\ Ino(d, u) \notin gone /\ ~Right(u)}
<1>1. SUFFICES ASSUME Bad # {} PROVE FALSE
  OBVIOUS
<1>2. Bad \subseteq Path
  OBVIOUS
<1> HIDE DEF Bad
<1>3. PICK u \in Bad : Up(u) \notin Bad
  BY <1>1, <1>2, PathInduction
<1>4. u \in Path /\ Reached(d, u) /\ Ino(d, u) \notin gone /\ ~Right(u)
  BY <1>3 DEF Bad
<1> DEFINE i == Ino(d, Up(u))
           name == u[Len(u)]
           c == Ino(d, u)
<1>5. Reached(d, Up(u)) /\ i \in DirInodes(d) /\ Has(d, i, name, c) /\ c \in InodeNum
  BY <1>4, ReachedIs, ReachedHas
<1>6. name \in Name /\ Plain(name)
  BY <1>4, PathIs
<1>7. i \notin gone
  BY <1>5, <1>6
<1>8. Has(e, i, name, c)
  BY <1>4, <1>5, <1>6
<1>9. Right(Up(u))
  BY <1>3, <1>4, <1>5, <1>7, UpOfPath, RootReached DEF Bad
<1>10. Right(u)
  BY <1>4, <1>8, <1>9, HasReached
<1> QED BY <1>4, <1>10

---------------------------------------------------------------------------
(* Entries that come and go *)

\* Directory i has the same entries on e and d.
SameCells(e, d, i) ==
  /\ Cells(e, i) = Cells(d, i)
  /\ \A x \in Cells(d, i) : EntryAt(e, i, x[1], x[2]) = EntryAt(d, i, x[1], x[2])

\* On e it also has the entry y, for inode c.
OneMore(e, d, i, y, name, c) ==
  /\ y \notin Cells(d, i) /\ Cells(e, i) = Cells(d, i) \cup {y}
  /\ \A x \in Cells(d, i) : EntryAt(e, i, x[1], x[2]) = EntryAt(d, i, x[1], x[2])
  /\ EntryAt(e, i, y[1], y[2]) = [name |-> name, ino |-> c]

\* On e each entry x is the entry f[x] of d; all but that for inode c are there.
OneLess(e, d, i, f, c) ==
  /\ f \in [Cells(e, i) -> Cells(d, i)]
  /\ \A x \in Cells(e, i) : EntryAt(e, i, x[1], x[2]) = EntryAt(d, i, f[x][1], f[x][2])
  /\ \A x, z \in Cells(e, i) : f[x] = f[z] => x = z
  /\ \A x \in PlainCells(e, i) : EntryAt(e, i, x[1], x[2]).ino # c
  /\ \A z \in PlainCells(d, i) : EntryAt(d, i, z[1], z[2]).ino # c => \E x \in Cells(e, i) : f[x] = z
  /\ PtrOf(e, i, 1) # 0
  /\ \A j \in 1 .. 2 : EntryAt(d, i, 1, j).name \in {".", ".."} => EntryAt(e, i, 1, j) = EntryAt(d, i, 1, j)

\* The entries of a directory for itself and its parent are entries.
LEMMA DotsAreCells ==
  ASSUME NEW d, NEW i, DotRight(d, i)
  PROVE  /\ <<1, 1>> \in Cells(d, i)
         /\ \A up : UpRight(d, i, up) => <<1, 2>> \in Cells(d, i)
<1>1. /\ <<1, 1>> \in DataPos \X Entry /\ <<1, 2>> \in DataPos \X Entry
      /\ <<1, 1>>[1] = 1 /\ <<1, 1>>[2] = 1 /\ <<1, 2>>[1] = 1 /\ <<1, 2>>[2] = 2
  BY EntryIsBig, PosIs
<1>2. PtrOf(d, i, 1) # 0 /\ EntryAt(d, i, 1, 1).name = "."
  BY DEF DotRight
<1>3. ASSUME NEW up, UpRight(d, i, up) PROVE EntryAt(d, i, 1, 2).name = ".."
  BY <1>3 DEF UpRight
<1> QED BY <1>1, <1>2, <1>3 DEF Cells

\* A directory with the same entries is as right.
LEMMA SameCellsRight ==
  ASSUME NEW d, NEW e, NEW i, SameCells(e, d, i), NamesOnce(d, i), DotRight(d, i)
  PROVE  /\ NamesOnce(e, i) /\ DotRight(e, i)
         /\ \A up : UpRight(d, i, up) => UpRight(e, i, up)
         /\ PlainCells(e, i) = PlainCells(d, i)
         /\ \A x, c : Has(d, i, x, c) <=> Has(e, i, x, c)
<1>1. <<1, 1>> \in Cells(d, i) /\ \A up : UpRight(d, i, up) => <<1, 2>> \in Cells(d, i)
  BY DotsAreCells
<1>2. NamesOnce(e, i)
  BY DEF SameCells, NamesOnce
<1>3. PtrOf(e, i, 1) # 0 /\ EntryAt(e, i, 1, 1) = [name |-> ".", ino |-> i]
  <2>1. EntryAt(e, i, 1, 1) = EntryAt(d, i, 1, 1)
    BY <1>1 DEF SameCells
  <2>2. PtrOf(e, i, 1) # 0
    BY <1>1 DEF SameCells, Cells
  <2> QED BY <2>1, <2>2 DEF DotRight
<1>4. ASSUME NEW up, UpRight(d, i, up) PROVE UpRight(e, i, up)
  <2>1. EntryAt(e, i, 1, 2) = EntryAt(d, i, 1, 2)
    BY <1>1, <1>4 DEF SameCells
  <2> QED BY <2>1, <1>4 DEF UpRight
<1>5. PlainCells(e, i) = PlainCells(d, i)
  BY DEF SameCells, PlainCells
<1>6. \A x, c : Has(d, i, x, c) <=> Has(e, i, x, c)
  BY DEF SameCells, Has
<1> QED BY <1>2, <1>3, <1>4, <1>5, <1>6 DEF DotRight

\* A directory with one entry more is right when the name is new.
LEMMA OneMoreRight ==
  ASSUME NEW d, NEW e, NEW i, NEW y, NEW name, Plain(name), NEW c, OneMore(e, d, i, y, name, c),
         NamesOnce(d, i), DotRight(d, i),
         \A x \in Cells(d, i) : EntryAt(d, i, x[1], x[2]).name # name
  PROVE  /\ NamesOnce(e, i) /\ DotRight(e, i)
         /\ \A up : UpRight(d, i, up) => UpRight(e, i, up)
         /\ PlainCells(e, i) = PlainCells(d, i) \cup {y}
         /\ \A x, b : Has(d, i, x, b) => Has(e, i, x, b)
         /\ Has(e, i, name, c)
<1>1. <<1, 1>> \in Cells(d, i) /\ \A up : UpRight(d, i, up) => <<1, 2>> \in Cells(d, i)
  BY DotsAreCells
<1>0. EntryAt(e, i, y[1], y[2]).name = name /\ EntryAt(e, i, y[1], y[2]).ino = c
  BY DEF OneMore
<1>2. NamesOnce(e, i)
  BY <1>0 DEF OneMore, NamesOnce
<1>3. PtrOf(e, i, 1) # 0 /\ EntryAt(e, i, 1, 1) = [name |-> ".", ino |-> i]
  <2>1. EntryAt(e, i, 1, 1) = EntryAt(d, i, 1, 1)
    BY <1>1 DEF OneMore
  <2>2. <<1, 1>> \in Cells(e, i)
    BY <1>1 DEF OneMore
  <2>3. PtrOf(e, i, 1) # 0
    BY <2>2 DEF Cells
  <2> QED BY <2>1, <2>3 DEF DotRight
<1>4. ASSUME NEW up, UpRight(d, i, up) PROVE UpRight(e, i, up)
  <2>1. EntryAt(e, i, 1, 2) = EntryAt(d, i, 1, 2)
    BY <1>1, <1>4 DEF OneMore
  <2> QED BY <2>1, <1>4 DEF UpRight
<1>5. PlainCells(e, i) = PlainCells(d, i) \cup {y}
  BY <1>0 DEF OneMore, PlainCells
<1>6. \A x, b : Has(d, i, x, b) => Has(e, i, x, b)
  BY DEF OneMore, Has
<1>7. Has(e, i, name, c)
  BY <1>0 DEF OneMore, Has
<1> QED BY <1>2, <1>3, <1>4, <1>5, <1>6, <1>7 DEF DotRight

\* A directory with one entry less is right.
LEMMA OneLessRight ==
  ASSUME NEW d, NEW e, NEW i, NEW f, NEW c, OneLess(e, d, i, f, c), NamesOnce(d, i), DotRight(d, i)
  PROVE  /\ NamesOnce(e, i) /\ DotRight(e, i)
         /\ \A up : UpRight(d, i, up) => UpRight(e, i, up)
         /\ \A x \in PlainCells(e, i) : f[x] \in PlainCells(d, i)
         /\ \A x, b : Plain(x) /\ b # c /\ Has(d, i, x, b) => Has(e, i, x, b)
<1>1. ASSUME NEW x \in Cells(e, i), NEW z \in Cells(e, i),
             EntryAt(e, i, x[1], x[2]).name = EntryAt(e, i, z[1], z[2]).name
      PROVE  x = z
  <2>1. f[x] \in Cells(d, i) /\ f[z] \in Cells(d, i)
    BY DEF OneLess
  <2>2. EntryAt(d, i, f[x][1], f[x][2]).name = EntryAt(d, i, f[z][1], f[z][2]).name
    BY <1>1 DEF OneLess
  <2>3. f[x] = f[z]
    BY <2>1, <2>2 DEF NamesOnce
  <2> QED BY <2>3 DEF OneLess
<1>0. 1 \in 1 .. 2 /\ 2 \in 1 .. 2
  OBVIOUS
<1>2. DotRight(e, i)
  <2>1. EntryAt(d, i, 1, 1) = [name |-> ".", ino |-> i]
    BY DEF DotRight
  <2>2. EntryAt(d, i, 1, 1).name \in {".", ".."}
    BY <2>1
  <2> QED BY <1>0, <2>1, <2>2 DEF OneLess, DotRight
<1>3. ASSUME NEW up, UpRight(d, i, up) PROVE UpRight(e, i, up)
  <2>1. EntryAt(d, i, 1, 2) = [name |-> "..", ino |-> up]
    BY <1>3 DEF UpRight
  <2>2. EntryAt(d, i, 1, 2).name \in {".", ".."}
    BY <2>1
  <2> QED BY <1>0, <2>1, <2>2 DEF OneLess, UpRight
<1>4. \A x \in PlainCells(e, i) : f[x] \in PlainCells(d, i)
  BY DEF OneLess, PlainCells
<1>5. ASSUME NEW x, NEW b, Plain(x), b # c, Has(d, i, x, b) PROVE Has(e, i, x, b)
  <2>1. PICK z \in Cells(d, i) : EntryAt(d, i, z[1], z[2]).name = x /\ EntryAt(d, i, z[1], z[2]).ino = b
    BY <1>5 DEF Has
  <2>2. z \in PlainCells(d, i)
    BY <1>5, <2>1 DEF PlainCells
  <2>3. PICK y \in Cells(e, i) : f[y] = z
    BY <1>5, <2>1, <2>2 DEF OneLess
  <2>4. EntryAt(e, i, y[1], y[2]) = EntryAt(d, i, z[1], z[2])
    BY <2>3 DEF OneLess
  <2> QED BY <2>1, <2>4 DEF Has
<1> QED BY <1>1, <1>2, <1>3, <1>4, <1>5 DEF NamesOnce

\* The entries of sound directories.
LEMMA SoundDir ==
  ASSUME NEW d, TreeSound(d), NEW i \in DirInodes(d)
  PROVE  /\ NamesOnce(d, i) /\ DotRight(d, i) /\ i \in InodeNum
         /\ \A x \in PlainCells(d, i) :
              /\ x \in Cells(d, i) /\ Plain(EntryAt(d, i, x[1], x[2]).name)
              /\ EntryAt(d, i, x[1], x[2]).ino \in d.inodeMap \ {0}
              /\ IsDirIn(d, EntryAt(d, i, x[1], x[2]).ino) => UpRight(d, EntryAt(d, i, x[1], x[2]).ino, i)
BY DEF TreeSound, DirsRight, DirInodes, EntriesMarked, UpsRight, PlainCells

\* The tree stays sound where a name is made in directory p for an inode c that
\* was not marked; c may be a new directory.
LEMMA MoreSound ==
  ASSUME NEW d \in DiskType, TreeSound(d), NEW e \in DiskType, KindsRight(e),
         NEW p \in DirInodes(d), NEW c \in InodeNum \ d.inodeMap, NEW y, NEW name, Plain(name),
         OneMore(e, d, p, y, name, c), \A x \in Cells(d, p) : EntryAt(d, p, x[1], x[2]).name # name,
         \A i \in DirInodes(d) \ {p} : SameCells(e, d, i),
         c \notin DirInodes(d), DirInodes(d) \subseteq DirInodes(e), DirInodes(e) \subseteq DirInodes(d) \cup {c},
         c \in DirInodes(e) => NamesOnce(e, c) /\ DotRight(e, c) /\ UpRight(e, c, p) /\ PlainCells(e, c) = {},
         e.inodeMap = d.inodeMap \cup {c}, 0 \in d.inodeMap
  PROVE  /\ TreeSound(e)
         /\ \A i \in DirInodes(d) : \A x, b : Has(d, i, x, b) => Has(e, i, x, b)
         /\ Has(e, p, name, c)
<1>1. \A i \in DirInodes(d) :
        /\ NamesOnce(d, i) /\ DotRight(d, i) /\ i \in InodeNum
        /\ \A x \in PlainCells(d, i) :
             /\ x \in Cells(d, i) /\ Plain(EntryAt(d, i, x[1], x[2]).name)
             /\ EntryAt(d, i, x[1], x[2]).ino \in d.inodeMap \ {0}
             /\ IsDirIn(d, EntryAt(d, i, x[1], x[2]).ino) => UpRight(d, EntryAt(d, i, x[1], x[2]).ino, i)
  BY SoundDir
<1>2. \A i \in DirInodes(d) \ {p} :
        /\ NamesOnce(e, i) /\ DotRight(e, i)
        /\ \A up : UpRight(d, i, up) => UpRight(e, i, up)
        /\ PlainCells(e, i) = PlainCells(d, i)
        /\ \A x, b : Has(d, i, x, b) <=> Has(e, i, x, b)
  BY <1>1, SameCellsRight
<1>3. /\ NamesOnce(e, p) /\ DotRight(e, p)
      /\ \A up : UpRight(d, p, up) => UpRight(e, p, up)
      /\ PlainCells(e, p) = PlainCells(d, p) \cup {y}
      /\ \A x, b : Has(d, p, x, b) => Has(e, p, x, b)
      /\ Has(e, p, name, c)
  BY <1>1, OneMoreRight
<1>4. \A i \in DirInodes(d) : \A up : UpRight(d, i, up) => UpRight(e, i, up)
  BY <1>2, <1>3
\* An entry of e is one of d, or the new one.
<1>5. ASSUME NEW i \in DirInodes(e), NEW x \in PlainCells(e, i)
      PROVE  /\ i \in DirInodes(d)
             /\ \/ x \in PlainCells(d, i) /\ EntryAt(e, i, x[1], x[2]) = EntryAt(d, i, x[1], x[2])
                \/ i = p /\ x = y /\ EntryAt(e, i, x[1], x[2]).ino = c
  <2>1. i \in DirInodes(d)
    BY <1>5
  <2>2. CASE i = p
    <3>1. \A z \in PlainCells(d, p) : EntryAt(e, p, z[1], z[2]) = EntryAt(d, p, z[1], z[2])
      BY <1>1 DEF OneMore
    <3>2. EntryAt(e, p, y[1], y[2]).ino = c
      BY DEF OneMore
    <3> QED BY <1>3, <2>1, <2>2, <3>1, <3>2
  <2>3. CASE i # p
    BY <1>1, <1>2, <2>1, <2>3 DEF SameCells
  <2> QED BY <2>1, <2>2, <2>3
<1>6. IsDirIn(e, 0)
  BY FirstAre DEF TreeSound, DirInodes
<1>7. DirsRight(e)
  BY <1>2, <1>3 DEF DirsRight
<1>8. EntriesOnce(e)
  <2> SUFFICES ASSUME NEW i \in DirInodes(e), NEW j \in DirInodes(e),
                      NEW x \in PlainCells(e, i), NEW z \in PlainCells(e, j),
                      EntryAt(e, i, x[1], x[2]).ino = EntryAt(e, j, z[1], z[2]).ino
               PROVE  i = j /\ x = z
    BY DEF EntriesOnce
  <2>1. i \in DirInodes(d) /\ j \in DirInodes(d)
    BY <1>5
  <2>2. CASE x \in PlainCells(d, i) /\ EntryAt(e, i, x[1], x[2]) = EntryAt(d, i, x[1], x[2])
    <3>1. EntryAt(e, i, x[1], x[2]).ino # c
      BY <1>1, <2>1, <2>2
    <3>2. z \in PlainCells(d, j) /\ EntryAt(e, j, z[1], z[2]) = EntryAt(d, j, z[1], z[2])
      BY <1>5, <3>1
    <3> QED BY <2>1, <2>2, <3>2 DEF TreeSound, EntriesOnce
  <2>3. CASE i = p /\ x = y /\ EntryAt(e, i, x[1], x[2]).ino = c
    <3>1. ~(z \in PlainCells(d, j) /\ EntryAt(e, j, z[1], z[2]) = EntryAt(d, j, z[1], z[2]))
      BY <1>1, <2>1, <2>3
    <3> QED BY <1>5, <2>3, <3>1
  <2> QED BY <1>5, <2>2, <2>3
<1>9. EntriesMarked(e)
  BY <1>1, <1>5 DEF EntriesMarked
<1>10. UpsRight(e)
  <2> SUFFICES ASSUME NEW i \in DirInodes(e), NEW x \in PlainCells(e, i),
                      IsDirIn(e, EntryAt(e, i, x[1], x[2]).ino)
               PROVE  UpRight(e, EntryAt(e, i, x[1], x[2]).ino, i)
    BY DEF UpsRight
  <2> DEFINE b == EntryAt(e, i, x[1], x[2]).ino
  <2>1. b \in DirInodes(e)
    BY <1>9 DEF EntriesMarked, DirInodes, DiskType
  <2>2. CASE x \in PlainCells(d, i) /\ EntryAt(e, i, x[1], x[2]) = EntryAt(d, i, x[1], x[2])
    <3>1. i \in DirInodes(d) /\ b \in d.inodeMap
      BY <1>1, <1>5, <2>2
    <3>2. b \in DirInodes(d)
      BY <2>1, <3>1
    <3>3. UpRight(d, b, i)
      BY <1>1, <2>2, <3>1, <3>2 DEF DirInodes
    <3> QED BY <1>4, <3>2, <3>3
  <2>3. CASE i = p /\ b = c
    BY <2>1, <2>3
  <2> QED BY <1>5, <2>2, <2>3
<1> QED BY <1>2, <1>3, <1>6, <1>7, <1>8, <1>9, <1>10 DEF TreeSound

\* The tree stays sound where the entry for inode c, which has no entries of its
\* own, is taken out of directory p.
LEMMA LessSound ==
  ASSUME NEW d \in DiskType, TreeSound(d), NEW e \in DiskType, KindsRight(e),
         NEW p \in DirInodes(d), NEW c \in InodeNum, c # 0, c # p, NEW f, OneLess(e, d, p, f, c),
         \A i \in DirInodes(e) \ {p} : SameCells(e, d, i),
         \A i \in DirInodes(e) \ {p} : \A x \in PlainCells(d, i) : EntryAt(d, i, x[1], x[2]).ino # c,
         DirInodes(e) = DirInodes(d) \ {c}, e.inodeMap = d.inodeMap \ {c}
  PROVE  /\ TreeSound(e)
         /\ \A i \in DirInodes(d) \ {c} : \A x, b : Plain(x) /\ b # c /\ Has(d, i, x, b) => Has(e, i, x, b)
<1>1. \A i \in DirInodes(d) :
        /\ NamesOnce(d, i) /\ DotRight(d, i) /\ i \in InodeNum
        /\ \A x \in PlainCells(d, i) :
             /\ x \in Cells(d, i) /\ Plain(EntryAt(d, i, x[1], x[2]).name)
             /\ EntryAt(d, i, x[1], x[2]).ino \in d.inodeMap \ {0}
             /\ IsDirIn(d, EntryAt(d, i, x[1], x[2]).ino) => UpRight(d, EntryAt(d, i, x[1], x[2]).ino, i)
  BY SoundDir
<1>2. \A i \in DirInodes(e) \ {p} :
        /\ NamesOnce(e, i) /\ DotRight(e, i)
        /\ \A up : UpRight(d, i, up) => UpRight(e, i, up)
        /\ PlainCells(e, i) = PlainCells(d, i)
        /\ \A x, b : Has(d, i, x, b) <=> Has(e, i, x, b)
  BY <1>1, SameCellsRight
<1>3. /\ NamesOnce(e, p) /\ DotRight(e, p)
      /\ \A up : UpRight(d, p, up) => UpRight(e, p, up)
      /\ \A x \in PlainCells(e, p) : f[x] \in PlainCells(d, p)
      /\ \A x, b : Plain(x) /\ b # c /\ Has(d, p, x, b) => Has(e, p, x, b)
  BY <1>1, OneLessRight
<1>4. \A i \in DirInodes(e) : \A up : UpRight(d, i, up) => UpRight(e, i, up)
  BY <1>2, <1>3
<1> DEFINE of(i, x) == IF i = p THEN f[x] ELSE x
\* Each entry of e is one of d, not that for c.
<1>5. ASSUME NEW i \in DirInodes(e), NEW x \in PlainCells(e, i)
      PROVE  /\ i \in DirInodes(d) /\ of(i, x) \in PlainCells(d, i)
             /\ EntryAt(e, i, x[1], x[2]) = EntryAt(d, i, of(i, x)[1], of(i, x)[2])
             /\ EntryAt(e, i, x[1], x[2]).ino # c
  <2>1. i \in DirInodes(d)
    BY <1>5
  <2>2. CASE i = p
    BY <1>3, <2>1, <2>2 DEF OneLess, PlainCells
  <2>3. CASE i # p
    <3>1. x \in PlainCells(d, i)
      BY <1>2, <2>3
    <3>2. EntryAt(e, i, x[1], x[2]) = EntryAt(d, i, x[1], x[2])
      BY <1>1, <2>1, <2>3, <3>1 DEF SameCells
    <3> QED BY <2>1, <2>3, <3>1, <3>2
  <2> QED BY <2>2, <2>3
<1> HIDE DEF of
<1>6. IsDirIn(e, 0)
  BY FirstAre DEF TreeSound, DirInodes
<1>7. DirsRight(e)
  BY <1>2, <1>3 DEF DirsRight
<1>8. EntriesOnce(e)
  <2> SUFFICES ASSUME NEW i \in DirInodes(e), NEW j \in DirInodes(e),
                      NEW x \in PlainCells(e, i), NEW z \in PlainCells(e, j),
                      EntryAt(e, i, x[1], x[2]).ino = EntryAt(e, j, z[1], z[2]).ino
               PROVE  i = j /\ x = z
    BY DEF EntriesOnce
  <2>1. i = j /\ of(i, x) = of(j, z)
    BY <1>5 DEF TreeSound, EntriesOnce
  <2>2. x \in Cells(e, i) /\ z \in Cells(e, j)
    BY DEF PlainCells
  <2> QED BY <2>1, <2>2 DEF of, OneLess
<1>9. EntriesMarked(e)
  <2> SUFFICES ASSUME NEW i \in DirInodes(e), NEW x \in PlainCells(e, i)
               PROVE  EntryAt(e, i, x[1], x[2]).ino \in e.inodeMap \ {0}
    BY DEF EntriesMarked
  <2> DEFINE z == of(i, x)
  <2>1. i \in DirInodes(d) /\ z \in PlainCells(d, i) /\ EntryAt(e, i, x[1], x[2]) = EntryAt(d, i, z[1], z[2])
    BY <1>5
  <2> HIDE DEF z
  <2>2. EntryAt(d, i, z[1], z[2]).ino \in d.inodeMap \ {0}
    BY <1>1, <2>1
  <2> QED BY <1>5, <2>1, <2>2
<1>10. UpsRight(e)
  <2> SUFFICES ASSUME NEW i \in DirInodes(e), NEW x \in PlainCells(e, i),
                      IsDirIn(e, EntryAt(e, i, x[1], x[2]).ino)
               PROVE  UpRight(e, EntryAt(e, i, x[1], x[2]).ino, i)
    BY DEF UpsRight
  <2> DEFINE b == EntryAt(e, i, x[1], x[2]).ino
             z == of(i, x)
  <2>1. b \in DirInodes(e)
    BY <1>9 DEF EntriesMarked, DirInodes, DiskType
  <2>2. i \in DirInodes(d) /\ z \in PlainCells(d, i) /\ EntryAt(d, i, z[1], z[2]).ino = b
    BY <1>5
  <2> HIDE DEF z, b
  <2>3. IsDirIn(d, b)
    BY <2>1 DEF DirInodes
  <2>4. UpRight(d, b, i)
    BY <1>1, <2>2, <2>3
  <2>5. UpRight(e, b, i)
    BY <1>4, <2>1, <2>4
  <2> QED BY <2>5 DEF b
<1> QED BY <1>2, <1>3, <1>6, <1>7, <1>8, <1>9, <1>10 DEF TreeSound

\* The tree stays sound where directories keep their entries.
LEMMA StaySound ==
  ASSUME NEW d \in DiskType, TreeSound(d), NEW e \in DiskType, KindsRight(e),
         SameTypes(e, d), \A i \in DirInodes(d) : SameCells(e, d, i), e.inodeMap = d.inodeMap
  PROVE  /\ TreeSound(e) /\ DirInodes(e) = DirInodes(d)
         /\ \A i \in DirInodes(d) : \A x, b : Has(d, i, x, b) => Has(e, i, x, b)
<1>0. DirInodes(e) = DirInodes(d)
  BY DEF SameTypes, DirInodes, IsDirIn
<1>1. \A i \in DirInodes(d) :
        /\ NamesOnce(d, i) /\ DotRight(d, i) /\ i \in InodeNum
        /\ \A x \in PlainCells(d, i) :
             /\ x \in Cells(d, i) /\ Plain(EntryAt(d, i, x[1], x[2]).name)
             /\ EntryAt(d, i, x[1], x[2]).ino \in d.inodeMap \ {0}
             /\ IsDirIn(d, EntryAt(d, i, x[1], x[2]).ino) => UpRight(d, EntryAt(d, i, x[1], x[2]).ino, i)
  BY SoundDir
<1>2. \A i \in DirInodes(d) :
        /\ NamesOnce(e, i) /\ DotRight(e, i)
        /\ \A up : UpRight(d, i, up) => UpRight(e, i, up)
        /\ PlainCells(e, i) = PlainCells(d, i)
        /\ \A x, b : Has(d, i, x, b) <=> Has(e, i, x, b)
  BY <1>1, SameCellsRight
<1>3. ASSUME NEW i \in DirInodes(d), NEW x \in PlainCells(d, i)
      PROVE  EntryAt(e, i, x[1], x[2]) = EntryAt(d, i, x[1], x[2])
  BY <1>1 DEF SameCells
<1>4. IsDirIn(e, 0)
  BY <1>0, FirstAre DEF TreeSound, DirInodes
<1>5. EntriesOnce(e)
  BY <1>0, <1>2, <1>3 DEF TreeSound, EntriesOnce
<1>6. EntriesMarked(e)
  BY <1>0, <1>1, <1>2, <1>3 DEF EntriesMarked
<1>7. UpsRight(e)
  <2> SUFFICES ASSUME NEW i \in DirInodes(d), NEW x \in PlainCells(d, i),
                      IsDirIn(e, EntryAt(d, i, x[1], x[2]).ino)
               PROVE  UpRight(e, EntryAt(d, i, x[1], x[2]).ino, i)
    BY <1>0, <1>2, <1>3 DEF UpsRight
  <2> DEFINE b == EntryAt(d, i, x[1], x[2]).ino
  <2>1. b \in InodeNum
    BY <1>1 DEF DiskType
  <2>2. b \in DirInodes(d)
    BY <1>0, <2>1 DEF DirInodes
  <2> QED BY <1>1, <1>2, <2>2 DEF DirInodes
<1> QED BY <1>0, <1>2, <1>4, <1>5, <1>6, <1>7 DEF TreeSound, DirsRight

\* Every marked inode has a path still, or again.
LEMMA NamedKept ==
  ASSUME NEW d \in DiskType, TreeSound(d), AllNamed(d, InodesAt(d)),
         NEW e \in DiskType, TreeSound(e), \A i \in DirInodes(e) : NoHoles(e, i), NEW gone,
         \A i \in DirInodes(d), x \in Name, c \in InodeNum :
           Plain(x) /\ Has(d, i, x, c) /\ c \notin gone => Has(e, i, x, c),
         \A i \in gone, x \in Name, c \in InodeNum : Plain(x) => ~Has(d, i, x, c),
         \A c \in e.inodeMap : \/ c \in d.inodeMap \ gone
                               \/ \E q \in Path : Reached(e, q) /\ Ino(e, q) = c,
         0 \in e.inodeMap
  PROVE  AllNamed(e, InodesAt(e))
<1>1. Tidy(e)
  BY SoundIsTidy
<1>2. ASSUME NEW q \in Path, Reached(d, q), Ino(d, q) \notin gone
      PROVE  Reached(e, q) /\ Ino(e, q) = Ino(d, q)
  BY <1>1, <1>2, StillReached
<1>3. ASSUME NEW c \in e.inodeMap PROVE c = 0 \/ \E q \in Path : Reached(e, q) /\ Ino(e, q) = c
  <2>1. CASE c \in d.inodeMap \ gone /\ c # 0
    <3>1. PICK q \in DOMAIN InodesAt(d) : InodesAt(d)[q] = c
      BY <2>1 DEF AllNamed
    <3>2. q \in Path /\ Reached(d, q) /\ Ino(d, q) = c
      BY <3>1, InodesAtIs
    <3> QED BY <1>2, <2>1, <3>2
  <2> QED BY <2>1
<1>4. ASSUME NEW q \in Path, Reached(e, q) PROVE Ino(e, q) \in e.inodeMap
  BY <1>4, ReachedIs
<1> DEFINE S == {InodesAt(e)[q] : q \in DOMAIN InodesAt(e)}
<1>5. \A c : c \in S <=> \E q \in Path : Reached(e, q) /\ Ino(e, q) = c
  <2>1. \A c : c \in S <=> \E q \in DOMAIN InodesAt(e) : InodesAt(e)[q] = c
    OBVIOUS
  <2>2. DOMAIN InodesAt(e) = {q \in Path : Reached(e, q)}
    BY InodesAtIs
  <2>3. \A q \in Path : Reached(e, q) => InodesAt(e)[q] = Ino(e, q)
    BY InodesAtIs
  <2> HIDE DEF S
  <2> QED BY <2>1, <2>2, <2>3
<1> HIDE DEF S
<1>6. e.inodeMap = {0} \cup S
  BY <1>3, <1>4, <1>5
<1> QED BY <1>6 DEF AllNamed, S

\* The path a name was made for is there.
LEMMA NewPath ==
  ASSUME NEW d \in DiskType, TreeSound(d), NEW e \in DiskType, TreeSound(e),
         \A i \in DirInodes(e) : NoHoles(e, i),
         \A i \in DirInodes(d) : \A x, c : Has(d, i, x, c) => Has(e, i, x, c),
         NEW q \in Path, Reached(d, Up(q)), NEW b, Has(e, Ino(d, Up(q)), q[Len(q)], b)
  PROVE  Reached(e, q) /\ Ino(e, q) = b
<1>1. Tidy(e)
  BY SoundIsTidy
<1>2. Reached(e, Up(q)) /\ Ino(e, Up(q)) = Ino(d, Up(q))
  <2>1. CASE Up(q) = <<>>
    BY <2>1, RootReached
  <2>2. CASE Up(q) \in Path
    <3> DEFINE gone == {}
    <3>1. \A i \in DirInodes(d), x \in Name, c \in InodeNum :
            Plain(x) /\ Has(d, i, x, c) /\ c \notin gone => Has(e, i, x, c)
      OBVIOUS
    <3>2. \A i \in gone, x \in Name, c \in InodeNum : Plain(x) => ~Has(d, i, x, c)
      OBVIOUS
    <3>3. Ino(d, Up(q)) \notin gone
      OBVIOUS
    <3> HIDE DEF gone
    <3> QED BY <1>1, <2>2, <3>1, <3>2, <3>3, StillReached
  <2> QED BY <2>1, <2>2, UpOfPath
<1> QED BY <1>1, <1>2, HasReached

\* The entries behind pointer k of directory i: none behind a zero.
EntsAt(d, i, k) == IF PtrOf(d, i, k) = 0 THEN NoEntries ELSE Ents(d.blk[PtrOf(d, i, k)])

\* The entries that are taken are those with a name.
LEMMA CellsAre ==
  ASSUME NEW d, NEW i
  PROVE  /\ \A x : x \in Cells(d, i) <=> x \in DataPos \X Entry /\ EntsAt(d, i, x[1])[x[2]].name # ""
         /\ \A x \in Cells(d, i) : /\ EntryAt(d, i, x[1], x[2]) = EntsAt(d, i, x[1])[x[2]]
                                   /\ x \in DataPos \X Entry /\ PtrOf(d, i, x[1]) # 0
<1>1. ASSUME NEW x \in DataPos \X Entry
      PROVE  x[2] \in Entry /\ NoEntries[x[2]].name = ""
  BY DEF NoEntries, NoEntry
<1>2. ASSUME NEW x \in DataPos \X Entry
      PROVE  x \in Cells(d, i) <=> EntsAt(d, i, x[1])[x[2]].name # ""
  BY <1>1 DEF Cells, EntsAt, EntryAt
<1>3. ASSUME NEW x \in Cells(d, i)
      PROVE  /\ EntryAt(d, i, x[1], x[2]) = EntsAt(d, i, x[1])[x[2]]
             /\ x \in DataPos \X Entry /\ PtrOf(d, i, x[1]) # 0
  BY DEF Cells, EntsAt, EntryAt
<1> QED BY <1>2, <1>3

\* The same entries behind each pointer.
LEMMA SameEnts ==
  ASSUME NEW d, NEW e, NEW i, \A k \in DataPos : EntsAt(e, i, k) = EntsAt(d, i, k)
  PROVE  SameCells(e, d, i)
<1>91. /\ \A x : x \in Cells(d, i) <=> x \in DataPos \X Entry /\ EntsAt(d, i, x[1])[x[2]].name # ""
       /\ \A x \in Cells(d, i) : /\ EntryAt(d, i, x[1], x[2]) = EntsAt(d, i, x[1])[x[2]]
                                 /\ x \in DataPos \X Entry /\ PtrOf(d, i, x[1]) # 0
  BY CellsAre
<1>92. /\ \A x : x \in Cells(e, i) <=> x \in DataPos \X Entry /\ EntsAt(e, i, x[1])[x[2]].name # ""
       /\ \A x \in Cells(e, i) : /\ EntryAt(e, i, x[1], x[2]) = EntsAt(e, i, x[1])[x[2]]
                                 /\ x \in DataPos \X Entry /\ PtrOf(e, i, x[1]) # 0
  BY CellsAre
<1>0. ASSUME NEW x \in DataPos \X Entry PROVE EntsAt(e, i, x[1])[x[2]] = EntsAt(d, i, x[1])[x[2]]
  OBVIOUS
<1>1. \A x : x \in Cells(e, i) <=> x \in Cells(d, i)
  BY <1>0, <1>91, <1>92
<1>2. ASSUME NEW x \in Cells(d, i) PROVE EntryAt(e, i, x[1], x[2]) = EntryAt(d, i, x[1], x[2])
  BY <1>0, <1>1, <1>91, <1>92
<1> QED BY <1>1, <1>2 DEF SameCells

\* The parts of a pair.
LEMMA PairIs ==
  ASSUME NEW S, NEW T, NEW x \in S \X T
  PROVE  x = <<x[1], x[2]>> /\ x[1] \in S /\ x[2] \in T
OBVIOUS

\* The parts of an entry.
LEMMA EntryParts ==
  ASSUME NEW r, NEW n, NEW c, r = [name |-> n, ino |-> c]
  PROVE  r.name = n /\ r.ino = c
OBVIOUS

\* An entry put where there was none.
LEMMA PutOne ==
  ASSUME NEW d, NEW e, NEW i, NEW k \in DataPos, NEW j \in Entry, NEW name, name # "", NEW c,
         EntsAt(d, i, k) = [n \in Entry |-> EntsAt(d, i, k)[n]], EntsAt(d, i, k)[j].name = "",
         EntsAt(e, i, k) = [EntsAt(d, i, k) EXCEPT ![j] = [name |-> name, ino |-> c]],
         \A l \in DataPos \ {k} : EntsAt(e, i, l) = EntsAt(d, i, l)
  PROVE  OneMore(e, d, i, <<k, j>>, name, c)
<1>91. /\ \A x : x \in Cells(d, i) <=> x \in DataPos \X Entry /\ EntsAt(d, i, x[1])[x[2]].name # ""
       /\ \A x \in Cells(d, i) : /\ EntryAt(d, i, x[1], x[2]) = EntsAt(d, i, x[1])[x[2]]
                                 /\ x \in DataPos \X Entry /\ PtrOf(d, i, x[1]) # 0
  BY CellsAre
<1>92. /\ \A x : x \in Cells(e, i) <=> x \in DataPos \X Entry /\ EntsAt(e, i, x[1])[x[2]].name # ""
       /\ \A x \in Cells(e, i) : /\ EntryAt(e, i, x[1], x[2]) = EntsAt(e, i, x[1])[x[2]]
                                 /\ x \in DataPos \X Entry /\ PtrOf(e, i, x[1]) # 0
  BY CellsAre
<1> DEFINE y == <<k, j>>
<1>1. y \in DataPos \X Entry /\ y[1] = k /\ y[2] = j
  OBVIOUS
<1>2. ASSUME NEW x \in DataPos \X Entry, x # y
      PROVE  EntsAt(e, i, x[1])[x[2]] = EntsAt(d, i, x[1])[x[2]]
  <2>1. x = <<x[1], x[2]>> /\ x[1] \in DataPos /\ x[2] \in Entry
    BY PairIs
  <2>2. x[1] = k => x[2] # j
    BY <1>2, <2>1
  <2>3. CASE x[1] = k
    BY <2>1, <2>2, <2>3
  <2>4. CASE x[1] # k
    BY <2>1, <2>4
  <2> QED BY <2>3, <2>4
<1>3. EntsAt(e, i, k)[j] = [name |-> name, ino |-> c]
  OBVIOUS
<1> HIDE DEF y
<1>4. y \notin Cells(d, i) /\ y \in Cells(e, i)
  <2>1. EntsAt(d, i, y[1])[y[2]].name = ""
    BY <1>1
  <2>3. EntsAt(e, i, y[1])[y[2]] = [name |-> name, ino |-> c]
    BY <1>1, <1>3
  <2>4. EntsAt(e, i, y[1])[y[2]].name = name
    BY <2>3, EntryParts
  <2>5. EntsAt(e, i, y[1])[y[2]].name # ""
    BY <2>4
  <2> QED BY <1>1, <2>1, <2>5, <1>91, <1>92
<1>5. ASSUME NEW x PROVE x \in Cells(e, i) <=> x \in Cells(d, i) \/ x = y
  <2>1. CASE x \in DataPos \X Entry /\ x # y
    <3>1. EntsAt(e, i, x[1])[x[2]] = EntsAt(d, i, x[1])[x[2]]
      BY <1>2, <2>1
    <3> QED BY <2>1, <3>1, <1>91, <1>92
  <2>2. CASE x = y
    BY <1>4, <2>2
  <2>3. CASE x \notin DataPos \X Entry
    BY <1>4, <2>3, <1>91, <1>92
  <2> QED BY <2>1, <2>2, <2>3
<1>6. ASSUME NEW x \in Cells(d, i) PROVE EntryAt(e, i, x[1], x[2]) = EntryAt(d, i, x[1], x[2])
  <2>1. x \in DataPos \X Entry /\ x # y /\ x \in Cells(e, i)
    BY <1>4, <1>5, <1>91
  <2>2. EntsAt(e, i, x[1])[x[2]] = EntsAt(d, i, x[1])[x[2]]
    BY <1>2, <2>1
  <2>3. EntryAt(d, i, x[1], x[2]) = EntsAt(d, i, x[1])[x[2]]
    BY <1>91
  <2>4. EntryAt(e, i, x[1], x[2]) = EntsAt(e, i, x[1])[x[2]]
    BY <2>1, <1>92
  <2> QED BY <2>2, <2>3, <2>4
<1>7. EntryAt(e, i, y[1], y[2]) = [name |-> name, ino |-> c]
  <2>1. EntryAt(e, i, y[1], y[2]) = EntsAt(e, i, y[1])[y[2]]
    BY <1>4, <1>92
  <2>2. EntsAt(e, i, y[1])[y[2]] = EntsAt(e, i, k)[j]
    BY <1>1
  <2> QED BY <1>3, <2>1, <2>2
<1>8. Cells(e, i) = Cells(d, i) \cup {y}
  BY <1>5
<1>9. OneMore(e, d, i, y, name, c)
  BY <1>4, <1>6, <1>7, <1>8 DEF OneMore
<1> QED BY <1>9 DEF y

\* A plain entry taken out; another one, z, may be in its place.
LEMMA TookOne ==
  ASSUME NEW d, NEW e, NEW i, NamesOnce(d, i), DotRight(d, i), PtrOf(e, i, 1) # 0,
         NEW y \in PlainCells(d, i), NEW c, EntryAt(d, i, y[1], y[2]).ino = c,
         \A x \in PlainCells(d, i) : EntryAt(d, i, x[1], x[2]).ino = c => x = y,
         NEW z \in Cells(d, i), z = y \/ z[1] # 1 \/ z[2] > 2,
         \A x : x \in Cells(e, i) <=> x \in Cells(d, i) /\ x # z,
         \A x \in Cells(e, i) : EntryAt(e, i, x[1], x[2]) =
                                  IF x = y THEN EntryAt(d, i, z[1], z[2]) ELSE EntryAt(d, i, x[1], x[2])
  PROVE  \E f : OneLess(e, d, i, f, c)
<1> DEFINE f == [x \in Cells(e, i) |-> IF x = y THEN z ELSE x]
<1>1. f \in [Cells(e, i) -> Cells(d, i)]
  OBVIOUS
<1>2. \A x \in Cells(e, i) : f[x] = IF x = y THEN z ELSE x
  OBVIOUS
<1> HIDE DEF f
<1>3. \A x \in Cells(e, i) : EntryAt(e, i, x[1], x[2]) = EntryAt(d, i, f[x][1], f[x][2])
  BY <1>2
<1>4. \A x, w \in Cells(e, i) : f[x] = f[w] => x = w
  BY <1>2
<1>5. ASSUME NEW x \in PlainCells(e, i) PROVE EntryAt(e, i, x[1], x[2]).ino # c
  <2>1. x \in Cells(e, i) /\ Plain(EntryAt(e, i, x[1], x[2]).name)
    BY DEF PlainCells
  <2>2. f[x] \in PlainCells(d, i)
    BY <1>1, <1>3, <2>1 DEF PlainCells
  <2>3. f[x] # y
    BY <1>2, <2>1
  <2> QED BY <1>3, <2>1, <2>2, <2>3
<1>6. ASSUME NEW w \in PlainCells(d, i), EntryAt(d, i, w[1], w[2]).ino # c
      PROVE  \E x \in Cells(e, i) : f[x] = w
  <2>1. w \in Cells(d, i) /\ w # y
    BY <1>6 DEF PlainCells
  <2>2. CASE w = z
    <3>1. y \in Cells(e, i) /\ f[y] = w
      BY <1>2, <2>1, <2>2 DEF PlainCells
    <3> QED BY <3>1
  <2>3. CASE w # z
    BY <1>2, <2>1, <2>3
  <2> QED BY <2>2, <2>3
<1>7. ASSUME NEW j \in 1 .. 2, EntryAt(d, i, 1, j).name \in {".", ".."}
      PROVE  EntryAt(e, i, 1, j) = EntryAt(d, i, 1, j)
  <2> DEFINE x == <<1, j>>
  <2>1. x[1] = 1 /\ x[2] = j /\ x \in DataPos \X Entry
    BY EntryIsBig, PosIs
  <2> HIDE DEF x
  <2>2. EntryAt(d, i, x[1], x[2]).name \in {".", ".."} /\ ~Plain(EntryAt(d, i, x[1], x[2]).name)
    BY <1>7, <2>1 DEF Plain
  <2>3. x # y
    BY <2>2 DEF PlainCells
  <2>6. x # z
    <3>1. ~(z[2] > 2) \/ z # x
      BY <2>1
    <3> QED BY <2>1, <2>3, <3>1
  <2>4. x \in Cells(d, i)
    BY <1>7, <2>1, <2>2 DEF Cells, DotRight
  <2>5. EntryAt(e, i, x[1], x[2]) = EntryAt(d, i, x[1], x[2])
    BY <2>3, <2>4, <2>6
  <2> QED BY <2>1, <2>5
<1> QED BY <1>1, <1>3, <1>4, <1>5, <1>6, <1>7 DEF OneLess

---------------------------------------------------------------------------
(* Room for a name *)

LEMMA ZeroHasNoEntries == Ents(Zero) = NoEntries
BY DEF Ents, Zero

\* A directory that has grown has the entries it had.
LEMMA GrownEnts ==
  ASSUME NEW d \in DiskType, BlocksSound(d), NEW p \in InodeNum, NEW place, NEW g \in GrownDisks(d, p, place),
         NEW i \in InodeNum, NEW k \in DataPos
  PROVE  EntsAt(g, i, k) = EntsAt(d, i, k)
<1>0. k \in Pos /\ k # 0 /\ 0 \in Pos
  BY PosIs DEF DataPos
<1>1. g \in DiskType /\ BlocksSound(g)
  BY DEF GrownDisks
<1>2. \A x \in Block : g.blk[x] = d.blk[x] \/ x = PtrOf(g, p, 0)
  BY DEF GrownDisks
<1>3. PtrOf(g, i, k) \in Pointer /\ PtrOf(d, i, k) \in Pointer
  BY <1>0, <1>1, PtrTyped
<1>4. PtrOf(g, i, k) # 0 => PtrOf(g, i, k) # PtrOf(g, p, 0)
  BY <1>0, <1>1 DEF BlocksSound, OwnedOnce
<1>5. PtrOf(g, i, k) # 0 => g.blk[PtrOf(g, i, k)] = d.blk[PtrOf(g, i, k)]
  BY <1>2, <1>3, <1>4 DEF Pointer
<1>6. CASE PtrOf(g, i, k) = PtrOf(d, i, k)
  BY <1>5, <1>6 DEF EntsAt
<1>7. CASE PtrOf(g, i, k) # PtrOf(d, i, k)
  <2>1. PtrOf(d, i, k) = 0 /\ PtrOf(g, i, k) \notin d.blockMap
    BY <1>0, <1>7 DEF GrownDisks
  <2>2. PtrOf(g, i, k) \in Block \ d.blockMap
    BY <1>3, <1>7, <2>1 DEF Pointer
  <2>3. g.blk[PtrOf(g, i, k)] = Zero
    BY <1>5, <1>7, <2>1, <2>2 DEF BlocksSound
  <2> QED BY <2>1, <2>3, ZeroHasNoEntries DEF EntsAt
<1> QED BY <1>6, <1>7

\* A full directory that is given no block links all it can.
LEMMA FullLinksAll ==
  ASSUME NEW d \in DiskType, NEW p \in InodeNum, PtrOf(d, p, 1) # 0, NEW place, place.full,
         Growth(d, p, place) = 0
  PROVE  \A k \in DataPos : PtrOf(d, p, k) # 0
<1> DEFINE S == {i \in Slot : IndirectPtrs(d, d.inode[p])[i] = 0}
<1>1. d.inode[p].direct[2] # 0 /\ d.inode[p].indir # 0 /\ Cardinality(S) = 0
  BY DEF Growth
<1>2. IsFiniteSet(S)
  BY SlotsAre, FS_Subset
<1>3. \A i \in Slot : IndirectPtrs(d, d.inode[p])[i] # 0
  <2>1. S = {}
    BY <1>1, <1>2, FS_EmptySet
  <2> QED BY <2>1
<1>4. PtrOf(d, p, 2) # 0
  BY <1>1, PtrByPos
<1>5. ASSUME NEW s \in Slot PROVE PtrOf(d, p, s + 2) # 0
  <2>1. PtrOf(d, p, s + 2) = IndirectPtrs(d, d.inode[p])[s]
    BY PtrByPos
  <2> QED BY <1>1, <1>3, <2>1
<1>6. \A k \in DataPos : k = 1 \/ k = 2 \/ \E s \in Slot : k = s + 2
  BY GeometryAssumption DEF DataPos, Pos, MaxBlocks, Slot
<1> QED BY <1>4, <1>5, <1>6

\* A sequence with a member is not empty.
LEMMA NotEmpty ==
  ASSUME NEW S, NEW s \in Seq(S), NEW x \in DOMAIN s
  PROVE  s # <<>>
OBVIOUS

\* place is where a look-up of "" in directory i ends: it looks for a free entry.
FreeIn(d, i, prev, place) == place = findName(d, i, "", prev)

\* Looking for a free entry gives one, or says that the directory is full.
LEMMA FindFree ==
  ASSUME NEW d \in DiskType, NEW i \in InodeNum, NEW prev \in PlaceType,
         NEW place, FreeIn(d, i, prev, place)
  PROVE  /\ place \in PlaceType
         /\ place.found => \E k, j : IsAt(d, i, k, j, "") /\ PlaceAt(place, d, i, k, j)
         /\ ~place.found => /\ place = [prev EXCEPT !.found = FALSE, !.full = (ScannedBlocks(d, i) # <<>>)]
                            /\ \A x \in DOMAIN ScannedBlocks(d, i), j \in Entry :
                                 Ents(d.blk[ScannedBlocks(d, i)[x]])[j].name # ""
<1> DEFINE name == ""
<1>1. place = findName(d, i, name, prev) /\ name = ""
  BY DEF FreeIn
<1> HIDE DEF name
<1>2. LET p == findName(d, i, name, prev)
      IN  /\ p \in PlaceType
          /\ p.found => \E k, j : IsAt(d, i, k, j, name) /\ PlaceAt(p, d, i, k, j)
          /\ ~p.found => /\ p = [prev EXCEPT !.found = FALSE,
                                   !.full = (name = "" /\ ScannedBlocks(d, i) # <<>>)]
                         /\ \A x \in DOMAIN ScannedBlocks(d, i), j \in Entry :
                              Ents(d.blk[ScannedBlocks(d, i)[x]])[j].name # name
  BY FindNameFinds
<1>3. (name = "" /\ ScannedBlocks(d, i) # <<>>) = (ScannedBlocks(d, i) # <<>>)
  BY <1>1
<1> QED BY <1>1, <1>2, <1>3

\* Where no free entry is found in a directory every entry of every block it
\* could have is taken, or it can grow.
LEMMA FullIsFull ==
  ASSUME NEW d \in DiskType, NEW p \in InodeNum, NoHoles(d, p), PtrOf(d, p, 1) # 0, NEW prev \in PlaceType,
         NEW place, FreeIn(d, p, prev, place), ~place.found
  PROVE  place.full /\ (Growth(d, p, place) = 0 => Cells(d, p) = DataPos \X Entry)
<1>1. /\ place = [prev EXCEPT !.found = FALSE, !.full = (ScannedBlocks(d, p) # <<>>)]
      /\ \A x \in DOMAIN ScannedBlocks(d, p), j \in Entry : Ents(d.blk[ScannedBlocks(d, p)[x]])[j].name # ""
  BY FindFree
<1>2. \A k \in DataPos : PtrOf(d, p, k) # 0 =>
        \E x \in DOMAIN ScannedBlocks(d, p) : ScannedBlocks(d, p)[x] = PtrOf(d, p, k)
  BY LinkedIsScanned
<1>3. ScannedBlocks(d, p) # <<>>
  <2>1. PICK x \in DOMAIN ScannedBlocks(d, p) : ScannedBlocks(d, p)[x] = PtrOf(d, p, 1)
    BY <1>2, PosIs
  <2>2. ScannedBlocks(d, p) \in Seq(Block)
    BY ScannedIsLinked
  <2> QED BY <2>1, <2>2, NotEmpty
<1>4. place.full
  <2>1. \A f : [prev EXCEPT !.found = FALSE, !.full = f].full = f
    BY DEF PlaceType
  <2> QED BY <1>1, <1>3, <2>1
<1>5. ASSUME Growth(d, p, place) = 0 PROVE DataPos \X Entry \subseteq Cells(d, p)
  <2>1. \A k \in DataPos : PtrOf(d, p, k) # 0
    BY <1>4, <1>5, FullLinksAll
  <2> SUFFICES ASSUME NEW x \in DataPos \X Entry PROVE EntryAt(d, p, x[1], x[2]).name # ""
    BY <2>1, PairIs DEF Cells
  <2>2. x[1] \in DataPos /\ x[2] \in Entry
    BY PairIs
  <2>3. PICK y \in DOMAIN ScannedBlocks(d, p) : ScannedBlocks(d, p)[y] = PtrOf(d, p, x[1])
    BY <1>2, <2>1, <2>2
  <2>4. Ents(d.blk[ScannedBlocks(d, p)[y]])[x[2]].name # ""
    BY <1>1, <2>2
  <2> QED BY <2>3, <2>4 DEF EntryAt
<1>6. Cells(d, p) \subseteq DataPos \X Entry
  BY DEF Cells
<1> QED BY <1>4, <1>5, <1>6

\* How many entries a directory has at most, and how many inodes are marked when
\* one is not.
LEMMA HowMany ==
  ASSUME NEW d \in DiskType, InodeNum \ d.inodeMap # {}, 0 \in d.inodeMap
  PROVE  /\ IsFiniteSet(d.inodeMap \ {0}) /\ Cardinality(d.inodeMap \ {0}) \in Nat
         /\ Cardinality(d.inodeMap \ {0}) <= NumInodes - 2
         /\ Cardinality(DataPos \X Entry) \in Nat /\ Cardinality(DataPos \X Entry) >= NumInodes + 2
<1>1. NumInodes \in Nat /\ EntsPerBlock \in Nat /\ PtrsPerBlock \in Nat /\ MaxBlocks = 2 + PtrsPerBlock
  BY GeometryAssumption DEF MaxBlocks
<1>2. IsFiniteSet(InodeNum) /\ Cardinality(InodeNum) = NumInodes
  <2>1. /\ IsFiniteSet(0 .. NumInodes - 1)
        /\ Cardinality(0 .. NumInodes - 1) = IF 0 > NumInodes - 1 THEN 0 ELSE (NumInodes - 1) - 0 + 1
    BY <1>1, FS_Interval
  <2>2. NumInodes # 0
    BY GeometryAssumption
  <2> QED BY <1>1, <2>1, <2>2 DEF InodeNum
<1>3. d.inodeMap \subseteq InodeNum /\ d.inodeMap # InodeNum
  BY DiskParts
<1>4. /\ IsFiniteSet(d.inodeMap) /\ Cardinality(d.inodeMap) <= NumInodes /\ Cardinality(d.inodeMap) # NumInodes
  BY <1>2, <1>3, FS_Subset
<1>5. Cardinality(d.inodeMap) \in Nat
  BY <1>4, FS_CardinalityType
<1>6. IsFiniteSet(d.inodeMap \ {0}) /\ Cardinality(d.inodeMap \ {0}) = Cardinality(d.inodeMap) - 1
  BY <1>4, FS_RemoveElement
<1>7. Cardinality(d.inodeMap \ {0}) \in Nat
  BY <1>6, FS_CardinalityType
<1>8. DataPos = 1 .. MaxBlocks
  BY <1>1 DEF DataPos, Pos
<1>9. IsFiniteSet(DataPos) /\ Cardinality(DataPos) = MaxBlocks
  BY <1>1, <1>8, FS_Interval
<1>10. IsFiniteSet(Entry) /\ Cardinality(Entry) = EntsPerBlock
  BY <1>1, FS_Interval, GeometryAssumption DEF Entry
<1>11. Cardinality(DataPos \X Entry) = MaxBlocks * EntsPerBlock
  BY <1>9, <1>10, FS_Product
<1>12. MaxBlocks * EntsPerBlock = EntsPerBlock * (2 + PtrsPerBlock) /\ MaxBlocks * EntsPerBlock \in Nat
  BY <1>1
<1>13. EntsPerBlock * (2 + PtrsPerBlock) >= NumInodes + 2
  BY <1>1, <1>12, DirectoryAssumption
<1> QED BY <1>1, <1>4, <1>5, <1>6, <1>7, <1>11, <1>12, <1>13

\* Not every entry a directory can have is taken: there is one inode at most for
\* each plain name.
LEMMA NotOverfull ==
  ASSUME NEW d \in DiskType, TreeSound(d), NEW p \in DirInodes(d), InodeNum \ d.inodeMap # {},
         0 \in d.inodeMap
  PROVE  Cells(d, p) # DataPos \X Entry
<1> DEFINE S == Cells(d, p)
           I == d.inodeMap \ {0}
           T == I \cup -3 .. -1
           nameAt(x) == EntryAt(d, p, x[1], x[2]).name
           inoAt(x) == EntryAt(d, p, x[1], x[2]).ino
           f == [x \in S |-> IF Plain(nameAt(x)) THEN inoAt(x)
                             ELSE IF nameAt(x) = "." THEN -1 ELSE IF nameAt(x) = ".." THEN -2 ELSE -3]
<1>1. /\ \A x \in S : Plain(nameAt(x)) => x \in PlainCells(d, p)
      /\ \A x \in S : nameAt(x) # ""
  BY DEF PlainCells, Cells
<1>2. \A x \in S : Plain(nameAt(x)) => inoAt(x) \in I /\ inoAt(x) \in Nat
  <2> SUFFICES ASSUME NEW x \in S, Plain(nameAt(x)) PROVE inoAt(x) \in I /\ inoAt(x) \in Nat
    OBVIOUS
  <2>1. inoAt(x) \in I
    BY <1>1 DEF TreeSound, EntriesMarked
  <2> QED BY <2>1, DiskParts DEF InodeNum
<1>3. \A x, z \in S : Plain(nameAt(x)) /\ Plain(nameAt(z)) /\ inoAt(x) = inoAt(z) => x = z
  BY <1>1 DEF TreeSound, EntriesOnce
<1>4. \A x, z \in S : nameAt(x) = nameAt(z) => x = z
  BY SoundDir DEF NamesOnce
<1>5. \A x \in S : Plain(nameAt(x)) \/ nameAt(x) = "." \/ nameAt(x) = ".." \/ nameAt(x) = "?"
  BY <1>1 DEF Plain
<1> HIDE DEF S, I, nameAt, inoAt
<1>6. \A x \in S : f[x] = IF Plain(nameAt(x)) THEN inoAt(x)
                          ELSE IF nameAt(x) = "." THEN -1 ELSE IF nameAt(x) = ".." THEN -2 ELSE -3
  OBVIOUS
<1>7. f \in [S -> T]
  BY <1>2
<1> HIDE DEF f, T
<1>8. ASSUME NEW x \in S, NEW z \in S, f[x] = f[z] PROVE x = z
  <2>1. CASE Plain(nameAt(x)) /\ Plain(nameAt(z))
    BY <1>3, <1>6, <1>8, <2>1
  <2>2. CASE Plain(nameAt(x)) /\ ~Plain(nameAt(z))
    <3>1. f[x] \in Nat
      BY <1>2, <1>6, <2>2
    <3>2. f[z] = -1 \/ f[z] = -2 \/ f[z] = -3
      BY <1>6, <2>2
    <3> QED BY <1>8, <3>1, <3>2
  <2>3. CASE ~Plain(nameAt(x)) /\ Plain(nameAt(z))
    <3>1. f[z] \in Nat
      BY <1>2, <1>6, <2>3
    <3>2. f[x] = -1 \/ f[x] = -2 \/ f[x] = -3
      BY <1>6, <2>3
    <3> QED BY <1>8, <3>1, <3>2
  <2>4. CASE ~Plain(nameAt(x)) /\ ~Plain(nameAt(z))
    <3>1. nameAt(x) = nameAt(z)
      BY <1>5, <1>6, <1>8, <2>4
    <3> QED BY <1>4, <3>1
  <2> QED BY <2>1, <2>2, <2>3, <2>4
<1>9. f \in Injection(S, T)
  BY <1>7, <1>8 DEF Injection, IsInjective
<1>10. IsFiniteSet(I) /\ Cardinality(I) \in Nat /\ Cardinality(I) <= NumInodes - 2
  BY HowMany DEF I
<1>11. IsFiniteSet(-3 .. -1) /\ Cardinality(-3 .. -1) = 3
  <2> DEFINE a == -3
             b == -1
  <2>1. a \in Int /\ b \in Int /\ ~(a > b) /\ b - a + 1 = 3
    OBVIOUS
  <2> HIDE DEF a, b
  <2>2. IsFiniteSet(a .. b) /\ Cardinality(a .. b) = IF a > b THEN 0 ELSE b - a + 1
    BY <2>1, FS_Interval
  <2> QED BY <2>1, <2>2 DEF a, b
<1>12. I \cap -3 .. -1 = {}
  BY DiskParts DEF I, InodeNum
<1>13. IsFiniteSet(T) /\ Cardinality(T) = Cardinality(I) + 3
  <2>1. Cardinality(I \cap -3 .. -1) = 0
    BY <1>12, FS_EmptySet
  <2>2. IsFiniteSet(T) /\ Cardinality(T) = Cardinality(I) + Cardinality(-3 .. -1) - Cardinality(I \cap -3 .. -1)
    BY <1>10, <1>11, FS_Union DEF T
  <2> QED BY <1>10, <1>11, <2>1, <2>2
<1>14. Cardinality(S) <= Cardinality(T) /\ IsFiniteSet(S)
  BY <1>9, <1>13, FS_Injection
<1>15. Cardinality(S) \in Nat
  BY <1>14, FS_CardinalityType
<1>16. Cardinality(DataPos \X Entry) \in Nat /\ Cardinality(DataPos \X Entry) >= NumInodes + 2
  BY HowMany
<1> QED BY <1>10, <1>13, <1>14, <1>15, <1>16, GeometryAssumption DEF S

---------------------------------------------------------------------------
(* A name is entered *)

\* The disk between calls that all went well.
Sound(d) == d \in DiskType /\ OwnedOnce(d) /\ Whole(d, InodesAt(d))

\* The parts of a sound disk, one by one.
LEMMA SoundParts ==
  ASSUME NEW d, Sound(d)
  PROVE  /\ d \in DiskType /\ OwnedOnce(d) /\ BlocksSound(d) /\ TreeSound(d) /\ Tidy(d) /\ d \in Owned
         /\ Marked(d) /\ KindsRight(d) /\ FreeBlank(d)
         /\ \A i \in DirInodes(d) : NoHoles(d, i) /\ NamesOnce(d, i) /\ DotRight(d, i) /\ PtrOf(d, i, 1) # 0
         /\ 0 \in d.inodeMap /\ 0 \in DirInodes(d) /\ DirInodes(d) \subseteq d.inodeMap
         /\ AllNamed(d, InodesAt(d)) /\ d.info.inodes = Cardinality(d.inodeMap)
<1>1. /\ d \in DiskType /\ OwnedOnce(d) /\ TreeSound(d) /\ Marked(d) /\ FreeBlank(d)
      /\ \A i \in DirInodes(d) : NoHoles(d, i)
      /\ AllNamed(d, InodesAt(d)) /\ d.info.inodes = Cardinality(d.inodeMap)
  BY DEF Sound, Whole
<1>2. KindsRight(d) /\ BlocksSound(d) /\ d \in Owned
  BY <1>1 DEF TreeSound, BlocksSound, FreeBlank, Owned
<1>3. Tidy(d)
  BY <1>1, SoundIsTidy
<1>4. \A i \in DirInodes(d) : NamesOnce(d, i) /\ DotRight(d, i) /\ PtrOf(d, i, 1) # 0
  BY <1>1, SoundDir DEF DotRight
<1>5. 0 \in d.inodeMap /\ 0 \in DirInodes(d)
  BY <1>1, FirstAre DEF AllNamed, TreeSound, DirInodes
<1>6. ASSUME NEW i \in DirInodes(d) PROVE i \in d.inodeMap
  <2>1. FreeInode.type # "dir"
    BY DEF FreeInode
  <2> QED BY <1>1, <1>6, <2>1 DEF FreeBlank, DirInodes, IsDirIn
<1> QED BY <1>1, <1>2, <1>3, <1>4, <1>5, <1>6

\* The first new block of a directory is empty.
LEMMA RoomParts ==
  ASSUME NEW d, NEW p, NEW place, Growth(d, p, place) # 0
  PROVE  LET r == RoomFor(d, p, place)
         IN  /\ r.ents = NoEntries /\ r.idx = 1 /\ r.blk = GetFreeBlockNum(d, Growth(d, p, place))
             /\ r.ents[r.idx].name = ""
<1> DEFINE r == RoomFor(d, p, place)
<1>1. r = Place(TRUE, NoEntries, 1, GetFreeBlockNum(d, Growth(d, p, place)), FALSE)
  BY DEF RoomFor
<1> HIDE DEF r
<1>2. r.ents = NoEntries /\ r.idx = 1 /\ r.blk = GetFreeBlockNum(d, Growth(d, p, place))
  BY <1>1 DEF Place
<1>3. NoEntries[1].name = ""
  BY EntryIsBig DEF NoEntries, NoEntry
<1> QED BY <1>2, <1>3 DEF r

\* Without growth the place is the one found.
LEMMA RoomThere ==
  ASSUME NEW d, NEW p, NEW place, Growth(d, p, place) = 0
  PROVE  RoomFor(d, p, place) = place
BY DEF RoomFor

\* What a place at an entry holds.
LEMMA PlaceAtParts ==
  ASSUME NEW place, NEW d, NEW i, NEW k, NEW j, PlaceAt(place, d, i, k, j)
  PROVE  /\ ~place.full /\ place.ents = Ents(d.blk[PtrOf(d, i, k)]) /\ place.idx = j
         /\ place.blk = PtrOf(d, i, k)
BY DEF PlaceAt, Place

\* A directory with a free entry does not grow.
LEMMA PlaceGrowsNot ==
  ASSUME NEW d, NEW p, NEW place, ~place.full
  PROVE  Growth(d, p, place) = 0
BY DEF Growth

\* Where the new name of a directory goes in the grown directory: an entry that
\* is not taken.
LEMMA RoomIsFree ==
  ASSUME NEW d, Sound(d), NEW p \in DirInodes(d), NEW prev \in PlaceType,
         NEW place, FreeIn(d, p, prev, place),
         Enough(d, Growth(d, p, place)), InodeNum \ d.inodeMap # {}, NEW g \in GrownDisks(d, p, place)
  PROVE  LET r == RoomFor(d, p, place)
         IN  /\ r \in PlaceType /\ r.ents[r.idx].name = ""
             /\ \E k \in DataPos : PtrOf(g, p, k) = r.blk /\ EntsAt(g, p, k) = r.ents /\ EntsAt(d, p, k) = r.ents
<1> DEFINE r == RoomFor(d, p, place)
<1>1. /\ d \in DiskType /\ BlocksSound(d) /\ TreeSound(d) /\ NoHoles(d, p) /\ PtrOf(d, p, 1) # 0
      /\ 0 \in d.inodeMap /\ p \in InodeNum
  BY SoundParts DEF DirInodes
<1>2. place \in PlaceType
  BY <1>1, FindFree
<1>3. r \in PlaceType
  BY <1>1, <1>2, GrownTyped
<1>4. \A k \in DataPos : EntsAt(g, p, k) = EntsAt(d, p, k)
  BY <1>1, GrownEnts
<1>5. CASE place.found
  <2>1. PICK k, j : IsAt(d, p, k, j, "") /\ PlaceAt(place, d, p, k, j)
    BY <1>1, <1>5, FindFree
  <2>0. PlaceAt(place, d, p, k, j)
    BY <2>1
  <2>2. /\ ~place.full /\ place.ents = Ents(d.blk[PtrOf(d, p, k)]) /\ place.idx = j
        /\ place.blk = PtrOf(d, p, k)
    BY <2>0, PlaceAtParts
  <2>3. k \in DataPos /\ j \in Entry /\ PtrOf(d, p, k) # 0 /\ EntryAt(d, p, k, j).name = ""
    BY <2>1 DEF IsAt
  <2>4. Growth(d, p, place) = 0
    BY <2>2, PlaceGrowsNot
  <2>5. r = place
    BY <2>4, RoomThere
  <2>6. PtrOf(g, p, k) = PtrOf(d, p, k)
    BY <2>3, PosIs DEF GrownDisks
  <2>7. EntsAt(d, p, k) = place.ents
    BY <2>2, <2>3 DEF EntsAt
  <2>8. place.ents[place.idx].name = ""
    BY <2>2, <2>3 DEF EntryAt
  <2> QED BY <1>3, <1>4, <2>2, <2>3, <2>5, <2>6, <2>7, <2>8
<1>6. CASE ~place.found
  <2>1. place.full /\ (Growth(d, p, place) = 0 => Cells(d, p) = DataPos \X Entry)
    BY <1>1, <1>6, FullIsFull
  <2>2. Growth(d, p, place) # 0
    BY <1>1, <2>1, NotOverfull
  <2>4. /\ r.ents = NoEntries /\ r.idx = 1 /\ r.blk = GetFreeBlockNum(d, Growth(d, p, place))
        /\ r.ents[r.idx].name = ""
    BY <2>2, RoomParts
  <2>5. PICK k \in DataPos : PtrOf(d, p, k) = 0 /\ PtrOf(g, p, k) = r.blk
    BY <2>2, <2>4 DEF GrownDisks
  <2>6. EntsAt(d, p, k) = NoEntries
    BY <2>5 DEF EntsAt
  <2> QED BY <1>3, <1>4, <2>4, <2>5, <2>6
<1> QED BY <1>5, <1>6

\* The disks on which directory p of d has one name more, for inode c.
Entered(d, p, place, name, c) ==
  {h \in DiskType :
    /\ BlocksSound(h) /\ SameInodeMap(h, d) /\ SameTypes(h, d) /\ NoHoles(h, p)
    /\ \A j \in InodeNum : j # p => h.inode[j] = d.inode[j] /\ \A l \in Pos : PtrOf(h, j, l) = PtrOf(d, j, l)
    /\ \A b \in h.blockMap : b \in d.blockMap \/ \E m \in 1 .. Growth(d, p, place) : b = GetFreeBlockNum(d, m)
    /\ \E y : OneMore(h, d, p, y, name, c)
    /\ \A i \in InodeNum \ {p} : SameCells(h, d, i)}

\* What one block more or less written does to the entries of directories.
LEMMA EntsWritten ==
  ASSUME NEW g \in DiskType, OwnedOnce(g), NEW p \in InodeNum, NEW k \in DataPos, PtrOf(g, p, k) # 0,
         NEW h, SamePtrs(h, g), NEW c, \A x \in Block : h.blk[x] = IF x = PtrOf(g, p, k) THEN c ELSE g.blk[x]
  PROVE  /\ EntsAt(h, p, k) = Ents(c)
         /\ \A i \in InodeNum, l \in DataPos : i # p \/ l # k => EntsAt(h, i, l) = EntsAt(g, i, l)
<1>0. DataPos \subseteq Pos
  BY PosIs
<1>1. \A i \in InodeNum, l \in DataPos : PtrOf(h, i, l) = PtrOf(g, i, l) /\ PtrOf(g, i, l) \in Pointer
  BY <1>0, PtrTyped DEF SamePtrs
<1>2. h.blk[PtrOf(g, p, k)] = c
  BY <1>1 DEF Pointer
<1>3. EntsAt(h, p, k) = Ents(c)
  BY <1>1, <1>2 DEF EntsAt
<1>4. ASSUME NEW i \in InodeNum, NEW l \in DataPos, i # p \/ l # k
      PROVE  EntsAt(h, i, l) = EntsAt(g, i, l)
  <2>1. PtrOf(g, i, l) # 0 => PtrOf(g, i, l) # PtrOf(g, p, k)
    BY <1>0, <1>4 DEF OwnedOnce
  <2>2. PtrOf(g, i, l) # 0 => h.blk[PtrOf(g, i, l)] = g.blk[PtrOf(g, i, l)]
    BY <1>1, <2>1 DEF Pointer
  <2> QED BY <1>1, <2>2 DEF EntsAt
<1> QED BY <1>3, <1>4

\* Writing an entry to its place enters the name.
LEMMA EntryWritten ==
  ASSUME NEW d, Sound(d), NEW p \in DirInodes(d), NEW prev \in PlaceType,
         NEW place, FreeIn(d, p, prev, place),
         Enough(d, Growth(d, p, place)), InodeNum \ d.inodeMap # {}, NEW g \in GrownDisks(d, p, place),
         NEW name \in Name, Plain(name), NEW c \in InodeNum
  PROVE  LET w == WriteEntry(RoomFor(d, p, place), name, c)
         IN  w \in Writes /\ Written(g, w) \in Entered(d, p, place, name, c)
<1> DEFINE r == RoomFor(d, p, place)
           w == WriteEntry(r, name, c)
           h == Written(g, w)
           entry == [name |-> name, ino |-> c]
           block == DirBlock([r.ents EXCEPT ![r.idx] = entry])
<1>1. /\ d \in DiskType /\ BlocksSound(d) /\ p \in InodeNum /\ IsDirIn(d, p)
  BY SoundParts DEF DirInodes
<1>2. /\ g \in DiskType /\ BlocksSound(g) /\ SameInodeMap(g, d) /\ SameTypes(g, d) /\ NoHoles(g, p)
      /\ \A j \in InodeNum : j # p => g.inode[j] = d.inode[j] /\ \A l \in Pos : PtrOf(g, j, l) = PtrOf(d, j, l)
      /\ \A b \in g.blockMap : b \in d.blockMap \/ \E m \in 1 .. Growth(d, p, place) : b = GetFreeBlockNum(d, m)
  BY DEF GrownDisks
<1>3. r \in PlaceType /\ r.ents[r.idx].name = ""
  BY RoomIsFree
<1>4. PICK k \in DataPos : PtrOf(g, p, k) = r.blk /\ EntsAt(g, p, k) = r.ents /\ EntsAt(d, p, k) = r.ents
  BY RoomIsFree
<1> HIDE DEF r
<1>5. r.ents \in [Entry -> EntryType] /\ r.idx \in Entry /\ r.blk \in Block
  BY <1>3, PlaceParts
<1>6. r.blk # 0
  BY <1>5, BlocksArePositive
<1>7. block \in BlockType /\ block.kind = "dir"
  <2>1. entry \in EntryType
    BY DEF EntryType
  <2>2. [r.ents EXCEPT ![r.idx] = entry] \in [Entry -> EntryType]
    BY <1>5, <2>1
  <2> QED BY <2>2, BlocksAre DEF DirBlock
<1>8. w = WriteBlock(PtrOf(g, p, k), block)
  BY <1>4 DEF WriteEntry
<1>9. Ents(block) = [r.ents EXCEPT ![r.idx] = entry]
  BY DEF Ents, DirBlock
<1>10. w \in Writes
  BY <1>3, WriteEntryTyped
<1> HIDE DEF w, block
<1>11. KindOf(g.inode[p], k) = "dir"
  BY <1>1, <1>2, PosIs DEF KindOf, SameTypes, IsDirIn, DataPos
<1>12. /\ h \in DiskType /\ SameBut(h, g, "blk") /\ BlocksSound(h)
       /\ \A x \in Block : h.blk[x] = IF x = PtrOf(g, p, k) THEN block ELSE g.blk[x]
       /\ SamePtrs(h, g) /\ SameTypes(h, g)
  BY <1>1, <1>2, <1>4, <1>6, <1>7, <1>8, <1>11, ContentWritten
<1> HIDE DEF h
<1>13. OwnedOnce(g)
  BY <1>2 DEF BlocksSound
<1>14. /\ EntsAt(h, p, k) = Ents(block)
       /\ \A i \in InodeNum, l \in DataPos : i # p \/ l # k => EntsAt(h, i, l) = EntsAt(g, i, l)
  BY <1>1, <1>2, <1>4, <1>6, <1>12, <1>13, EntsWritten
<1>15. \A i \in InodeNum, l \in DataPos : EntsAt(g, i, l) = EntsAt(d, i, l)
  BY <1>1, GrownEnts
<1>16. OneMore(h, d, p, <<k, r.idx>>, name, c)
  <2>1. EntsAt(d, p, k) = [n \in Entry |-> EntsAt(d, p, k)[n]]
    BY <1>4, <1>5
  <2>2. EntsAt(h, p, k) = [EntsAt(d, p, k) EXCEPT ![r.idx] = [name |-> name, ino |-> c]]
    BY <1>4, <1>9, <1>14
  <2>3. \A l \in DataPos \ {k} : EntsAt(h, p, l) = EntsAt(d, p, l)
    BY <1>1, <1>14, <1>15
  <2>4. name # ""
    BY DEF Plain
  <2>5. EntsAt(d, p, k)[r.idx].name = ""
    BY <1>3, <1>4
  <2> HIDE DEF entry
  <2> QED BY <1>5, <2>1, <2>2, <2>3, <2>4, <2>5, PutOne
<1>17. ASSUME NEW i \in InodeNum \ {p} PROVE SameCells(h, d, i)
  <2>1. \A l \in DataPos : EntsAt(h, i, l) = EntsAt(d, i, l)
    BY <1>14, <1>15
  <2> QED BY <2>1, SameEnts
<1>18. SameInodeMap(h, d) /\ SameTypes(h, d)
  BY <1>2, <1>12 DEF SameInodeMap, SameTypes, SameBut
<1>19. NoHoles(h, p)
  <2>1. \A l \in DataPos : PtrOf(h, p, l) = PtrOf(g, p, l)
    BY <1>1, <1>12, PosIs DEF SamePtrs
  <2>2. NoHoles(g, p)
    BY <1>2
  <2> QED BY <2>1, <2>2 DEF NoHoles
<1>20. \A j \in InodeNum : j # p => h.inode[j] = d.inode[j] /\ \A l \in Pos : PtrOf(h, j, l) = PtrOf(d, j, l)
  BY <1>2, <1>12 DEF SamePtrs, SameBut
<1>21. h.blockMap = g.blockMap
  BY <1>12 DEF SameBut
<1>22. h \in Entered(d, p, place, name, c)
  BY <1>2, <1>12, <1>16, <1>17, <1>18, <1>19, <1>20, <1>21 DEF Entered
<1> QED BY <1>10, <1>22 DEF h, w, r

\* The directory grows if it must, and the name is written.
LEMMA EnterLeads ==
  ASSUME NEW d, Sound(d), NEW p \in DirInodes(d), NEW prev \in PlaceType,
         NEW place, FreeIn(d, p, prev, place),
         Enough(d, Growth(d, p, place)), InodeNum \ d.inodeMap # {},
         NEW name \in Name, Plain(name), NEW c \in InodeNum
  PROVE  LET ws == Grown(d, p, place) \o <<WriteEntry(RoomFor(d, p, place), name, c)>>
         IN  ws \in Seq(Writes) /\ Leads(d, ws, Entered(d, p, place, name, c), Owned)
<1> DEFINE w == WriteEntry(RoomFor(d, p, place), name, c)
           G == GrownDisks(d, p, place)
           E == Entered(d, p, place, name, c)
           us == Grown(d, p, place)
<1>1. /\ d \in DiskType /\ BlocksSound(d) /\ PtrOf(d, p, 1) # 0 /\ NoHoles(d, p) /\ p \in InodeNum
  BY SoundParts DEF DirInodes
<1>2. place \in PlaceType
  BY <1>1, FindFree
<1>3. us \in Seq(Writes) /\ Leads(d, us, G, Owned)
  BY <1>1, <1>2, GrownLeads
<1>4. \A g \in G : w \in Writes /\ Written(g, w) \in E
  BY EntryWritten
<1>5. G \subseteq Owned /\ E \subseteq Owned
  BY DEF GrownDisks, Entered, Owned, BlocksSound
<1>6. w \in Writes
  BY <1>1, <1>2, GrownTyped, WriteEntryTyped
<1> HIDE DEF w, G, E, us
<1>7. \A g \in G : Leads(g, <<w>>, E, Owned)
  BY <1>4, <1>5, LeadsOne
<1>8. <<w>> \in Seq(Writes)
  BY <1>6
<1>9. Leads(d, us \o <<w>>, E, Owned)
  BY <1>3, <1>7, <1>8, LeadsConcat
<1>10. us \o <<w>> \in Seq(Writes)
  BY <1>3, <1>8
<1> QED BY <1>9, <1>10 DEF w, E, us

\* The path q is made for inode c: what is enough for the disk to be sound.
MadeFor(d, e, q, c) ==
  LET p == Ino(d, Up(q))
  IN  /\ e \in DiskType /\ BlocksSound(e)
      /\ \E y : OneMore(e, d, p, y, q[Len(q)], c)
      /\ \A i \in DirInodes(d) \ {p} : SameCells(e, d, i)
      /\ \A i \in DirInodes(e) : NoHoles(e, i)
      /\ DirInodes(d) \subseteq DirInodes(e) /\ DirInodes(e) \subseteq DirInodes(d) \cup {c}
      /\ c \in DirInodes(e) => NamesOnce(e, c) /\ DotRight(e, c) /\ UpRight(e, c, p) /\ PlainCells(e, c) = {}
      /\ e.inodeMap = d.inodeMap \cup {c} /\ e.info.inodes = d.info.inodes + 1
      /\ \A i \in InodeNum \ e.inodeMap : e.inode[i] = FreeInode

\* The inodes are counted.
LEMMA InodesCounted ==
  ASSUME NEW d, Sound(d), NEW c \in InodeNum
  PROVE  /\ IsFiniteSet(d.inodeMap) /\ Cardinality(d.inodeMap) \in Nat
         /\ c \notin d.inodeMap => Cardinality(d.inodeMap \cup {c}) = Cardinality(d.inodeMap) + 1
         /\ c \in d.inodeMap => Cardinality(d.inodeMap \ {c}) = Cardinality(d.inodeMap) - 1
<1>1. IsFiniteSet(InodeNum)
  BY FS_Interval, GeometryAssumption DEF InodeNum
<1>2. d.inodeMap \subseteq InodeNum
  BY SoundParts, DiskParts
<1>3. IsFiniteSet(d.inodeMap)
  BY <1>1, <1>2, FS_Subset
<1>4. Cardinality(d.inodeMap) \in Nat
  BY <1>3, FS_CardinalityType
<1>5. Cardinality(d.inodeMap \cup {c}) = IF c \in d.inodeMap THEN Cardinality(d.inodeMap) ELSE Cardinality(d.inodeMap) + 1
  BY <1>3, FS_AddElement
<1>6. Cardinality(d.inodeMap \ {c}) = IF c \in d.inodeMap THEN Cardinality(d.inodeMap) - 1 ELSE Cardinality(d.inodeMap)
  BY <1>3, FS_RemoveElement
<1> QED BY <1>3, <1>4, <1>5, <1>6

\* With a file or directory made for a path the disk is sound.
LEMMA MadeSound ==
  ASSUME NEW d, Sound(d), NEW q \in Path, Reached(d, Up(q)), ~Reached(d, q), Ino(d, Up(q)) \in DirInodes(d),
         NEW c \in InodeNum \ d.inodeMap, NEW e, MadeFor(d, e, q, c)
  PROVE  Sound(e)
<1> DEFINE p == Ino(d, Up(q))
           name == q[Len(q)]
<1>1. /\ d \in DiskType /\ TreeSound(d) /\ Tidy(d) /\ 0 \in d.inodeMap /\ 0 \in DirInodes(d)
      /\ DirInodes(d) \subseteq d.inodeMap /\ AllNamed(d, InodesAt(d))
      /\ d.info.inodes = Cardinality(d.inodeMap)
  BY SoundParts
<1>2. /\ e \in DiskType /\ BlocksSound(e)
      /\ \A i \in DirInodes(d) \ {p} : SameCells(e, d, i)
      /\ \A i \in DirInodes(e) : NoHoles(e, i)
      /\ DirInodes(d) \subseteq DirInodes(e) /\ DirInodes(e) \subseteq DirInodes(d) \cup {c}
      /\ c \in DirInodes(e) => NamesOnce(e, c) /\ DotRight(e, c) /\ UpRight(e, c, p) /\ PlainCells(e, c) = {}
      /\ e.inodeMap = d.inodeMap \cup {c} /\ e.info.inodes = d.info.inodes + 1
      /\ \A i \in InodeNum \ e.inodeMap : e.inode[i] = FreeInode
  BY DEF MadeFor
<1>3. PICK y : OneMore(e, d, p, y, name, c)
  BY DEF MadeFor
<1>4. Plain(name) /\ name \in Name
  BY PathIs
<1>5. \A x \in Cells(d, p) : EntryAt(d, p, x[1], x[2]).name # name
  <2> SUFFICES ASSUME NEW x \in Cells(d, p), EntryAt(d, p, x[1], x[2]).name = name PROVE FALSE
    OBVIOUS
  <2>1. Has(d, p, name, EntryAt(d, p, x[1], x[2]).ino)
    BY DEF Has
  <2> HIDE DEF p, name
  <2> QED BY <1>1, <2>1, HasReached DEF p, name
<1>6. KindsRight(e)
  BY <1>2 DEF BlocksSound
<1>7. p \in DirInodes(d)
  OBVIOUS
<1> HIDE DEF p, name
<1>8. /\ TreeSound(e)
      /\ \A i \in DirInodes(d) : \A x, b : Has(d, i, x, b) => Has(e, i, x, b)
      /\ Has(e, p, name, c)
  BY <1>1, <1>2, <1>3, <1>4, <1>5, <1>6, <1>7, MoreSound
<1>9. Reached(e, q) /\ Ino(e, q) = c
  BY <1>1, <1>2, <1>8, NewPath DEF p, name
<1>10. AllNamed(e, InodesAt(e))
  <2> DEFINE gone == {}
  <2>1. \A i \in DirInodes(d), x \in Name, b \in InodeNum :
          Plain(x) /\ Has(d, i, x, b) /\ b \notin gone => Has(e, i, x, b)
    BY <1>8
  <2>2. \A i \in gone, x \in Name, b \in InodeNum : Plain(x) => ~Has(d, i, x, b)
    OBVIOUS
  <2>3. \A b \in e.inodeMap : \/ b \in d.inodeMap \ gone
                              \/ \E u \in Path : Reached(e, u) /\ Ino(e, u) = b
    BY <1>2, <1>9
  <2>4. 0 \in e.inodeMap
    BY <1>1, <1>2
  <2> HIDE DEF gone
  <2> QED BY <1>1, <1>2, <1>8, <2>1, <2>2, <2>3, <2>4, NamedKept
<1>11. e.info.inodes = Cardinality(e.inodeMap)
  BY <1>1, <1>2, InodesCounted
<1>12. FreeBlank(e) /\ Marked(e) /\ OwnedOnce(e)
  BY <1>2 DEF BlocksSound, FreeBlank
<1> QED BY <1>2, <1>8, <1>10, <1>11, <1>12 DEF Sound, Whole

---------------------------------------------------------------------------
(* Files and directories are made *)

\* Where a path ends that is not there: its last part that is, a directory, and
\* the part with one name more, that is not.
LEMMA MissingIs ==
  ASSUME Sound(disk), NEW path \in Path, NEW type, AskedAs(path, type),
         Walk(disk, path).n # Len(path)
  PROVE  LET w == Walk(disk, path)
             q == SubSeq(path, 1, w.n + 1)
         IN  /\ q \in Path /\ Reached(disk, Up(q)) /\ ~Reached(disk, q) /\ Ino(disk, Up(q)) = w.ino
             /\ w.ino \in DirInodes(disk) /\ q[Len(q)] = path[w.n + 1] /\ w.place \in PlaceType
<1> DEFINE w == Walk(disk, path)
           q == SubSeq(path, 1, w.n + 1)
<1>1. disk \in DiskType /\ 0 \in DirInodes(disk)
  BY SoundParts
<1>2. path \in Seq(Name) /\ path # <<>> /\ Len(path) \in Nat \ {0}
      /\ \A k \in 1 .. Len(path) : SubSeq(path, 1, k) \in Path
  BY PathIs
<1>3. WalkRight(disk, path, w)
  BY <1>1, <1>2, WalkIsRight
<1>4. /\ w.n \in 0 .. Len(path) /\ w.ino \in InodeNum /\ w.place \in PlaceType
      /\ w.n = 0 => w.ino = 0
      /\ Walk(disk, SubSeq(path, 1, w.n)) = w
      /\ w.n < Len(path) => ~findName(disk, w.ino, path[w.n + 1], w.place).found
  BY <1>3 DEF WalkRight
<1>5. w.n < Len(path) /\ w.n \in Nat /\ w.n + 1 \in 1 .. Len(path)
  BY <1>2, <1>4
<1>6. q \in Path /\ q \in Seq(Name) /\ Len(q) = w.n + 1 /\ q[Len(q)] = path[w.n + 1]
  <2>1. w.n + 1 \in 0 .. Len(path) /\ w.n + 1 \in 1 .. w.n + 1
    BY <1>5
  <2>2. q \in Path
    BY <1>2, <1>5
  <2> HIDE DEF w
  <2> QED BY <1>2, <2>1, <2>2, PrefixIs
<1>7. Up(q) = SubSeq(path, 1, w.n) /\ q # <<>>
  <2>1. w.n \in 0 .. Len(path) /\ w.n + 1 \in 0 .. Len(path) /\ w.n \in 0 .. Len(q) /\ w.n \in Nat
    BY <1>5, <1>6
  <2>2. Up(q) = SubSeq(q, 1, w.n)
    BY <1>6, <2>1 DEF Up
  <2> DEFINE a == SubSeq(q, 1, w.n)
             b == SubSeq(path, 1, w.n)
  <2>3. q # <<>>
    BY <1>6, <2>1
  <2> HIDE DEF w
  <2>4. a \in Seq(Name) /\ Len(a) = w.n /\ \A x \in 1 .. w.n : a[x] = q[x]
    BY <1>6, <2>1, PrefixIs
  <2>5. b \in Seq(Name) /\ Len(b) = w.n /\ \A x \in 1 .. w.n : b[x] = path[x]
    BY <1>2, <2>1, PrefixIs
  <2>6. \A x \in 1 .. w.n : q[x] = path[x]
    <3>1. \A x \in 1 .. w.n + 1 : q[x] = path[x]
      BY <1>2, <2>1, PrefixIs
    <3> QED BY <2>1, <3>1
  <2> HIDE DEF a, b, q
  <2>7. a = b
    BY <2>4, <2>5, <2>6, SameSequence
  <2> QED BY <2>2, <2>3, <2>7 DEF a, b
<1>8. Reached(disk, Up(q)) /\ Ino(disk, Up(q)) = w.ino /\ Walk(disk, Up(q)) = w
  <2>1. Len(SubSeq(path, 1, w.n)) = w.n
    BY <1>2, <1>4, PrefixIs
  <2> QED BY <1>4, <1>7, <2>1 DEF Reached, Ino
<1>9. ~Reached(disk, q)
  <2> HIDE DEF q, w
  <2>1. ~findName(disk, Walk(disk, Up(q)).ino, q[Len(q)], Walk(disk, Up(q)).place).found
    BY <1>4, <1>5, <1>6, <1>8
  <2> QED BY <1>1, <1>6, <1>7, <2>1, ReachedUp
<1>10. w.ino \in DirInodes(disk)
  <2>1. CASE w.n = 0
    BY <1>1, <1>4, <2>1
  <2>2. CASE w.n # 0
    <3>1. w.n \in 1 .. Len(path)
      BY <1>5, <2>2
    <3>2. disk.inode[Walk(disk, SubSeq(path, 1, w.n)).ino].type = "dir"
      BY <1>4, <1>5, <3>1 DEF AskedAs
    <3> QED BY <1>4, <3>2 DEF DirInodes, IsDirIn
  <2> QED BY <2>1, <2>2
<1> QED BY <1>4, <1>6, <1>8, <1>9, <1>10

\* Bitmaps and counters do not matter to pointers and entries.
LEMMA SameData ==
  ASSUME NEW h, NEW e, e.inode = h.inode, e.blk = h.blk
  PROVE  /\ \A i, k : PtrOf(e, i, k) = PtrOf(h, i, k)
         /\ \A i : Cells(e, i) = Cells(h, i) /\ (NoHoles(h, i) => NoHoles(e, i))
         /\ \A i, k, j : EntryAt(e, i, k, j) = EntryAt(h, i, k, j)
         /\ DirInodes(e) = DirInodes(h) /\ SameTypes(e, h)
         /\ \A d, i : SameCells(h, d, i) => SameCells(e, d, i)
         /\ \A d, i, y, name, c : OneMore(h, d, i, y, name, c) => OneMore(e, d, i, y, name, c)
         /\ BlocksSound(h) /\ e.blockMap = h.blockMap => BlocksSound(e)
<1>1. \A i, k : PtrOf(e, i, k) = PtrOf(h, i, k)
  <2> SUFFICES ASSUME NEW i, NEW k PROVE PtrOf(e, i, k) = PtrOf(h, i, k)
    OBVIOUS
  <2>1. IndirectPtrs(e, e.inode[i]) = IndirectPtrs(h, h.inode[i])
    BY DEF IndirectPtrs
  <2> QED BY <2>1 DEF PtrOf
<1>2. \A i, k, j : EntryAt(e, i, k, j) = EntryAt(h, i, k, j)
  BY <1>1 DEF EntryAt
<1>3. \A i : Cells(e, i) = Cells(h, i) /\ (NoHoles(h, i) => NoHoles(e, i))
  <2> SUFFICES ASSUME NEW i PROVE Cells(e, i) = Cells(h, i) /\ (NoHoles(h, i) => NoHoles(e, i))
    OBVIOUS
  <2>1. \A x \in DataPos \X Entry :
          /\ PtrOf(e, i, x[1]) = PtrOf(h, i, x[1])
          /\ EntryAt(e, i, x[1], x[2]).name = EntryAt(h, i, x[1], x[2]).name
    BY <1>1, <1>2
  <2>2. Cells(e, i) = Cells(h, i)
    BY <2>1, Zenon DEF Cells
  <2>3. NoHoles(h, i) => NoHoles(e, i)
    BY <1>1 DEF NoHoles
  <2> QED BY <2>2, <2>3
<1>4. DirInodes(e) = DirInodes(h) /\ SameTypes(e, h)
  BY DEF DirInodes, IsDirIn, SameTypes
<1>5. \A d, i : SameCells(h, d, i) => SameCells(e, d, i)
  BY <1>2, <1>3 DEF SameCells
<1>6. \A d, i, y, name, c : OneMore(h, d, i, y, name, c) => OneMore(e, d, i, y, name, c)
  BY <1>2, <1>3 DEF OneMore
<1>7. BlocksSound(h) /\ e.blockMap = h.blockMap => BlocksSound(e)
  BY <1>1 DEF BlocksSound, OwnedOnce, Marked, KindsRight
<1> QED BY <1>1, <1>2, <1>3, <1>4, <1>5, <1>6, <1>7

\* Sequences of writes, kept together.
One(a) == <<a>>
Three(a, b, c) == <<a, b, c>>
Four(a, b, c, d) == <<a, b, c, d>>
Six(a, b, c, d, e, f) == <<a, b, c, d, e, f>>
Cat(us, vs) == us \o vs

\* Four writes, and six, taken apart after the first ones.
LEMMA FirstOfFour ==
  ASSUME NEW us \in Seq(Writes), NEW a \in Writes, NEW b \in Writes, NEW c \in Writes, NEW d \in Writes
  PROVE  Cat(us, Four(a, b, c, d)) = Cat(Cat(us, One(a)), Three(b, c, d))
<1> DEFINE s == Cat(us, Four(a, b, c, d))
           t == Cat(Cat(us, One(a)), Three(b, c, d))
<1>1. s \in Seq(Writes) /\ t \in Seq(Writes) /\ Len(s) = Len(us) + 4 /\ Len(t) = Len(us) + 4 /\ Len(us) \in Nat
  BY DEF Cat, Four, One, Three
<1>2. \A x \in 1 .. Len(us) + 4 : s[x] = t[x]
  <2> SUFFICES ASSUME NEW x \in 1 .. Len(us) + 4 PROVE s[x] = t[x]
    OBVIOUS
  <2> USE DEF Cat, Four, One, Three
  <2>1. CASE x <= Len(us)
    BY <2>1
  <2>2. CASE x = Len(us) + 1
    BY <2>2
  <2>3. CASE x = Len(us) + 2
    BY <2>3
  <2>4. CASE x = Len(us) + 3
    BY <2>4
  <2>5. CASE x = Len(us) + 4
    BY <2>5
  <2> QED BY <2>1, <2>2, <2>3, <2>4, <2>5
<1> HIDE DEF s, t
<1> QED BY <1>1, <1>2, SameSequence DEF s, t

\* Six writes after others, in the groups they are proved in.
LEMMA FirstOfSix ==
  ASSUME NEW us \in Seq(Writes), NEW a \in Writes, NEW b \in Writes, NEW c \in Writes,
         NEW d \in Writes, NEW e \in Writes, NEW f \in Writes
  PROVE  Cat(us, Six(a, b, c, d, e, f)) = Cat(Cat(Cat(Cat(us, One(a)), One(b)), Three(c, d, e)), One(f))
<1> DEFINE s == Cat(us, Six(a, b, c, d, e, f))
           t == Cat(Cat(Cat(Cat(us, One(a)), One(b)), Three(c, d, e)), One(f))
<1>1. s \in Seq(Writes) /\ t \in Seq(Writes) /\ Len(s) = Len(us) + 6 /\ Len(t) = Len(us) + 6 /\ Len(us) \in Nat
  BY DEF Cat, Six, One, Three
<1>2. \A x \in 1 .. Len(us) + 6 : s[x] = t[x]
  <2> SUFFICES ASSUME NEW x \in 1 .. Len(us) + 6 PROVE s[x] = t[x]
    OBVIOUS
  <2> USE DEF Cat, Six, One, Three
  <2>1. CASE x <= Len(us)
    BY <2>1
  <2>2. CASE x = Len(us) + 1
    BY <2>2
  <2>3. CASE x = Len(us) + 2
    BY <2>3
  <2>4. CASE x = Len(us) + 3
    BY <2>4
  <2>5. CASE x = Len(us) + 4
    BY <2>5
  <2>6. CASE x = Len(us) + 5
    BY <2>6
  <2>7. CASE x = Len(us) + 6
    BY <2>7
  <2> QED BY <2>1, <2>2, <2>3, <2>4, <2>5, <2>6, <2>7
<1> HIDE DEF s, t
<1> QED BY <1>1, <1>2, SameSequence DEF s, t

\* The disks with one inode more, c, of that type.
Made(d, c, type) ==
  {e \in DiskType : /\ Sound(e) /\ e.inodeMap = d.inodeMap \cup {c} /\ e.inode[c].type = type
                    /\ \A j \in InodeNum \ {c} : e.inode[j].type = d.inode[j].type}

\* What holds where a name q is about to be made in directory p, at place, for
\* the free inode c.
Making(d, q, p, prev, place, c) ==
  /\ Sound(d) /\ q \in Path /\ Reached(d, Up(q)) /\ ~Reached(d, q)
  /\ p = Ino(d, Up(q)) /\ p \in DirInodes(d)
  /\ prev \in PlaceType /\ FreeIn(d, p, prev, place) /\ InodeNum \ d.inodeMap # {}
  /\ c = GetFreeInodeNum(d)

\* The inode a call takes is free, and another one than the directory's.
LEMMA MakingFree ==
  ASSUME NEW d, NEW q, NEW p, NEW prev, NEW place, NEW c, Making(d, q, p, prev, place, c)
  PROVE  c \in InodeNum \ d.inodeMap /\ d.inode[c] = FreeInode /\ c # p /\ p \in InodeNum
<1>1. /\ Sound(d) /\ p \in DirInodes(d) /\ InodeNum \ d.inodeMap # {} /\ c = GetFreeInodeNum(d)
  BY DEF Making
<1>2. d \in DiskType /\ FreeBlank(d) /\ DirInodes(d) \subseteq d.inodeMap /\ p \in InodeNum
  BY <1>1, SoundParts DEF DirInodes
<1>3. c \in InodeNum \ d.inodeMap
  BY <1>1, <1>2, FreeInodeIsFree
<1> QED BY <1>1, <1>2, <1>3 DEF FreeBlank

\* A name is entered for a free inode.
LEMMA MakingLeads ==
  ASSUME NEW d, NEW q, NEW p, NEW prev, NEW place, NEW c, Making(d, q, p, prev, place, c),
         Enough(d, Growth(d, p, place))
  PROVE  /\ LET ws == Grown(d, p, place) \o <<WriteEntry(RoomFor(d, p, place), q[Len(q)], c)>>
            IN  ws \in Seq(Writes) /\ Leads(d, ws, Entered(d, p, place, q[Len(q)], c), Owned)
         /\ Grown(d, p, place) \in Seq(Writes)
         /\ WriteEntry(RoomFor(d, p, place), q[Len(q)], c) \in Writes
<1>1. /\ Sound(d) /\ q \in Path /\ p \in DirInodes(d) /\ prev \in PlaceType /\ FreeIn(d, p, prev, place)
      /\ InodeNum \ d.inodeMap # {} /\ c = GetFreeInodeNum(d)
  BY DEF Making
<1>2. d \in DiskType /\ FreeBlank(d) /\ DirInodes(d) \subseteq d.inodeMap /\ p \in InodeNum
  BY <1>1, SoundParts DEF DirInodes
<1>3. c \in InodeNum \ d.inodeMap
  BY MakingFree
<1>4. q[Len(q)] \in Name /\ Plain(q[Len(q)])
  BY <1>1, PathIs
<1>5. place \in PlaceType
  BY <1>1, <1>2, FindFree
<1>6. Grown(d, p, place) \in Seq(Writes) /\ RoomFor(d, p, place) \in PlaceType
  BY <1>2, <1>5, GrownTyped
<1>7. WriteEntry(RoomFor(d, p, place), q[Len(q)], c) \in Writes
  BY <1>3, <1>4, <1>6, WriteEntryTyped
<1>8. LET ws == Grown(d, p, place) \o <<WriteEntry(RoomFor(d, p, place), q[Len(q)], c)>>
      IN  ws \in Seq(Writes) /\ Leads(d, ws, Entered(d, p, place, q[Len(q)], c), Owned)
  BY <1>1, <1>3, <1>4, EnterLeads
<1> QED BY <1>6, <1>7, <1>8

\* A file is made when its inode is marked and counted.
LEMMA FileMade ==
  ASSUME NEW d, NEW q, NEW p, NEW prev, NEW place, NEW c, Making(d, q, p, prev, place, c),
         Enough(d, Growth(d, p, place)),
         NEW h \in Entered(d, p, place, q[Len(q)], c), NEW e \in DiskType,
         e.inode = h.inode, e.blk = h.blk, e.blockMap = h.blockMap,
         e.inodeMap = h.inodeMap \cup {c}, e.info.inodes = h.info.inodes + 1
  PROVE  e \in Made(d, c, "file")
<1>1. /\ Sound(d) /\ q \in Path /\ Reached(d, Up(q)) /\ ~Reached(d, q) /\ p = Ino(d, Up(q)) /\ p \in DirInodes(d)
  BY DEF Making
<1>2. c \in InodeNum \ d.inodeMap /\ d.inode[c] = FreeInode /\ c # p /\ p \in InodeNum
  BY MakingFree
<1>3. /\ h \in DiskType /\ BlocksSound(h) /\ SameInodeMap(h, d) /\ SameTypes(h, d) /\ NoHoles(h, p)
      /\ \A j \in InodeNum : j # p => h.inode[j] = d.inode[j] /\ \A l \in Pos : PtrOf(h, j, l) = PtrOf(d, j, l)
      /\ \E y : OneMore(h, d, p, y, q[Len(q)], c)
      /\ \A i \in InodeNum \ {p} : SameCells(h, d, i)
  BY DEF Entered
<1>4. /\ FreeBlank(d) /\ DirInodes(d) \subseteq d.inodeMap
      /\ \A i \in DirInodes(d) : NoHoles(d, i)
  BY <1>1, SoundParts
<1>5. /\ DirInodes(e) = DirInodes(h) /\ SameTypes(e, h)
      /\ \A i : NoHoles(h, i) => NoHoles(e, i)
      /\ \A i : SameCells(h, d, i) => SameCells(e, d, i)
      /\ \A y : OneMore(h, d, p, y, q[Len(q)], c) => OneMore(e, d, p, y, q[Len(q)], c)
      /\ BlocksSound(e)
  BY <1>3, SameData
<1>6. DirInodes(e) = DirInodes(d)
  BY <1>3, <1>5 DEF SameTypes, DirInodes, IsDirIn
<1>7. \A i \in DirInodes(e) : NoHoles(e, i)
  <2> SUFFICES ASSUME NEW i \in DirInodes(d) PROVE NoHoles(h, i)
    BY <1>5, <1>6
  <2>1. CASE i = p
    BY <1>3, <2>1
  <2>2. CASE i # p
    <3>1. \A l \in DataPos : PtrOf(h, i, l) = PtrOf(d, i, l)
      BY <1>3, <2>2, PosIs DEF DirInodes
    <3> QED BY <1>4, <3>1 DEF NoHoles
  <2> QED BY <2>1, <2>2
<1>8. e.inodeMap = d.inodeMap \cup {c} /\ e.info.inodes = d.info.inodes + 1
  BY <1>3 DEF SameInodeMap
<1>9. \A i \in InodeNum \ e.inodeMap : e.inode[i] = FreeInode
  BY <1>1, <1>3, <1>4, <1>8 DEF FreeBlank
<1>10. c \notin DirInodes(e)
  BY <1>2, <1>4, <1>6
<1>11. MadeFor(d, e, q, c)
  <2>1. \A i \in DirInodes(d) \ {p} : SameCells(e, d, i)
    BY <1>3, <1>5 DEF DirInodes
  <2> QED BY <1>1, <1>3, <1>5, <1>6, <1>7, <1>8, <1>9, <1>10, <2>1 DEF MadeFor
<1>12. Sound(e)
  BY <1>1, <1>2, <1>11, MadeSound
<1>13. \A j \in InodeNum : e.inode[j].type = d.inode[j].type
  BY <1>3, <1>5 DEF SameTypes
<1>14. e.inode[c].type = "file"
  BY <1>2, <1>13 DEF FreeInode
<1> QED BY <1>8, <1>12, <1>13, <1>14 DEF Made

\* The same inodes and blocks, and as many more inodes marked and counted.
LikeBut(h, map, marked, n) ==
  {f \in DiskType : /\ f.inode = h.inode /\ f.blk = h.blk /\ f.blockMap = map
                    /\ f.inodeMap = h.inodeMap \cup marked /\ f.info.inodes = h.info.inodes + n}

\* Disks like this one but for bitmaps and counts own blocks once.
LEMMA LikeOwned ==
  ASSUME NEW h, OwnedOnce(h), NEW map, NEW marked, NEW n
  PROVE  LikeBut(h, map, marked, n) \subseteq Owned
<1> SUFFICES ASSUME NEW f \in LikeBut(h, map, marked, n) PROVE f \in DiskType /\ OwnedOnce(f)
  BY DEF Owned
<1>1. f \in DiskType /\ f.inode = h.inode /\ f.blk = h.blk
  BY DEF LikeBut
<1>2. SamePtrs(f, h)
  BY <1>1, OtherWrite
<1> QED BY <1>1, <1>2, SameOwned

\* The inode of a new file is written, marked and counted.
LEMMA FileMarked ==
  ASSUME NEW h \in DiskType, OwnedOnce(h), NEW c \in InodeNum, h.inode[c] = FreeInode
  PROVE  LET ws == <<PutInode(c, FreeInode), SetInodeBitmap(c), Count(0, 1)>>
         IN  ws \in Seq(Writes) /\ Leads(h, ws, LikeBut(h, h.blockMap, {c}, 1), Owned)
<1> DEFINE u == PutInode(c, FreeInode)
           v == SetInodeBitmap(c)
           w == Count(0, 1)
           A == LikeBut(h, h.blockMap, {}, 0)
           B == LikeBut(h, h.blockMap, {c}, 0)
           C == LikeBut(h, h.blockMap, {c}, 1)
<1>1. u \in Writes /\ v \in Writes /\ w \in Writes
  BY WritesAre, FreeInodeTyped
<1>2. Written(h, u) \in A
  <2> DEFINE f == Written(h, u)
  <2>1. f \in DiskType /\ SameBut(f, h, "inode") /\ \A x \in InodeNum : f.inode[x] = IF x = c THEN FreeInode ELSE h.inode[x]
    BY FreeInodeTyped, InodeWritten
  <2> HIDE DEF f
  <2>2. f.inode \in [InodeNum -> InodeType] /\ h.inode \in [InodeNum -> InodeType]
    BY <2>1, DiskParts
  <2>3. \A x \in InodeNum : f.inode[x] = h.inode[x]
    BY <2>1
  <2>4. f.inode = h.inode
    BY <2>2, <2>3
  <2>5. f.info = h.info /\ f.blk = h.blk /\ f.blockMap = h.blockMap /\ f.inodeMap = h.inodeMap /\ f \in DiskType
    BY <2>1 DEF SameBut
  <2>6. h.info.inodes + 0 = h.info.inodes
    BY DiskParts DEF InfoType
  <2> QED BY <2>4, <2>5, <2>6 DEF LikeBut, f
<1>3. ASSUME NEW e \in A PROVE Written(e, v) \in B
  <2> DEFINE f == Written(e, v)
  <2>1. e \in DiskType
    BY DEF LikeBut
  <2>2. f \in DiskType /\ SameBut(f, e, "inodeMap") /\ f.inodeMap = e.inodeMap \cup {c}
    BY <2>1, InodeBitSet
  <2> HIDE DEF f
  <2>3. f.inode = e.inode /\ f.blk = e.blk /\ f.blockMap = e.blockMap /\ f.info = e.info
          /\ f \in DiskType /\ f.inodeMap = e.inodeMap \cup {c}
    BY <2>2 DEF SameBut
  <2> QED BY <2>3 DEF LikeBut, f
<1>4. ASSUME NEW e \in B PROVE Written(e, w) \in C
  <2> DEFINE f == Written(e, w)
  <2>1. e \in DiskType /\ e.info.inodes = h.info.inodes + 0
    BY DEF LikeBut
  <2>2. f \in DiskType /\ SameBut(f, e, "info") /\ f.info.inodes = e.info.inodes + 1
    <3>1. e \in DiskType /\ 0 \in Int /\ 1 \in Int
      BY <2>1
    <3> QED BY <3>1, Counted
  <2> HIDE DEF f
  <2>3. f.inode = e.inode /\ f.blk = e.blk /\ f.blockMap = e.blockMap /\ f.inodeMap = e.inodeMap
          /\ f \in DiskType /\ f.info.inodes = e.info.inodes + 1
    BY <2>2 DEF SameBut
  <2>4. h.info.inodes \in Int
    BY DiskParts DEF InfoType
  <2>5. f.info.inodes = h.info.inodes + 1
    BY <2>1, <2>3, <2>4
  <2> QED BY <2>3, <2>5 DEF LikeBut, f
<1>5. A \subseteq Owned /\ B \subseteq Owned /\ C \subseteq Owned /\ h \in Owned
  BY LikeOwned DEF Owned
<1> HIDE DEF A, B, C, u, v, w
<1>6. Leads(h, <<u, v, w>>, C, Owned)
  BY <1>2, <1>3, <1>4, <1>5, LeadsThree
<1>7. <<u, v, w>> \in Seq(Writes)
  BY <1>1
<1> QED BY <1>6, <1>7 DEF u, v, w, C

\* A file is made.
LEMMA MakeFileLeads ==
  ASSUME NEW d, NEW q, NEW p, NEW prev, NEW place, NEW c, Making(d, q, p, prev, place, c),
         Enough(d, Growth(d, p, place))
  PROVE  LET ws == myMakeFile(d, q[Len(q)], p, place)
         IN  ws \in Seq(Writes) /\ Leads(d, ws, Made(d, c, "file"), Owned)
<1> DEFINE name == q[Len(q)]
           us == Grown(d, p, place)
           w == WriteEntry(RoomFor(d, p, place), name, c)
           x == PutInode(c, FreeInode)
           y == SetInodeBitmap(c)
           z == Count(0, 1)
           E == Entered(d, p, place, name, c)
           M == Made(d, c, "file")
<1>1. us \o <<w>> \in Seq(Writes) /\ Leads(d, us \o <<w>>, E, Owned) /\ us \in Seq(Writes) /\ w \in Writes
  BY MakingLeads
<1>2. c \in InodeNum \ d.inodeMap /\ d.inode[c] = FreeInode /\ c # p /\ p \in InodeNum
  BY MakingFree
<1>3. x \in Writes /\ y \in Writes /\ z \in Writes
  BY <1>2, WritesAre, FreeInodeTyped
<1>4. myMakeFile(d, name, p, place) = us \o <<w, x, y, z>>
  BY DEF myMakeFile, Making
<1>5. ASSUME NEW h \in E PROVE <<x, y, z>> \in Seq(Writes) /\ Leads(h, <<x, y, z>>, M, Owned)
  <2> DEFINE L == LikeBut(h, h.blockMap, {c}, 1)
  <2>1. h \in DiskType /\ OwnedOnce(h) /\ h.inode[c] = FreeInode
    BY <1>2 DEF Entered, BlocksSound
  <2>2. <<x, y, z>> \in Seq(Writes) /\ Leads(h, <<x, y, z>>, L, Owned)
    BY <1>2, <2>1, FileMarked
  <2>3. ASSUME NEW e \in L PROVE e \in M
    <3>1. /\ e \in DiskType /\ e.inode = h.inode /\ e.blk = h.blk /\ e.blockMap = h.blockMap
          /\ e.inodeMap = h.inodeMap \cup {c} /\ e.info.inodes = h.info.inodes + 1
      BY DEF LikeBut
    <3> QED BY <3>1, FileMade
  <2> HIDE DEF L, M, x, y, z
  <2>4. L \subseteq M
    BY <2>3
  <2> QED BY <2>2, <2>4, LeadsWeaker
<1> HIDE DEF us, w, x, y, z, E, M, name
<1>6. Cat(us, Four(w, x, y, z)) = Cat(Cat(us, One(w)), Three(x, y, z))
  BY <1>1, <1>3, FirstOfFour
<1>7. <<x, y, z>> \in Seq(Writes)
  BY <1>3
<1>8. Leads(d, (us \o <<w>>) \o <<x, y, z>>, M, Owned)
  BY <1>1, <1>5, <1>7, LeadsConcat
<1>9. (us \o <<w>>) \o <<x, y, z>> \in Seq(Writes)
  BY <1>1, <1>7
<1>10. Cat(us, Four(w, x, y, z)) \in Seq(Writes) /\ Leads(d, Cat(us, Four(w, x, y, z)), M, Owned)
  BY <1>6, <1>8, <1>9 DEF Cat, One, Three
<1>11. us \o <<w, x, y, z>> \in Seq(Writes) /\ Leads(d, us \o <<w, x, y, z>>, M, Owned)
  BY <1>10 DEF Cat, Four
<1> QED BY <1>4, <1>11 DEF name, M

\* A directory that is new: its inode and its entries.
NewDir(b) == [type |-> "dir", direct |-> <<b, 0>>, indir |-> 0]
\* The first two entries of a new directory.
Dots(c, p) == [NoEntries EXCEPT ![1] = [name |-> ".", ino |-> c], ![2] = [name |-> "..", ino |-> p]]

\* What a new directory's inode and entries hold.
LEMMA NewDirIs ==
  ASSUME NEW b \in Block, NEW c \in InodeNum, NEW p \in InodeNum
  PROVE  /\ NewDir(b) \in InodeType /\ Dots(c, p) \in [Entry -> EntryType]
         /\ NewDir(b).type = "dir" /\ NewDir(b).direct[1] = b /\ NewDir(b).direct[2] = 0 /\ NewDir(b).indir = 0
         /\ Dots(c, p)[1] = [name |-> ".", ino |-> c] /\ Dots(c, p)[2] = [name |-> "..", ino |-> p]
         /\ \A j \in Entry \ {1, 2} : Dots(c, p)[j] = NoEntry
<1>1. <<b, 0>> \in [1 .. 2 -> Pointer]
  BY DEF Pointer
<1>2. NewDir(b) \in InodeType
  BY <1>1 DEF NewDir, InodeType, Pointer
<1>3. [name |-> ".", ino |-> c] \in EntryType /\ [name |-> "..", ino |-> p] \in EntryType
  BY DEF EntryType, Name
<1>4. Dots(c, p) \in [Entry -> EntryType]
  BY <1>3, NoEntryTyped, EntryIsBig DEF Dots
<1>5. \A j \in Entry : NoEntries[j] = NoEntry
  BY DEF NoEntries
<1>6. NoEntries \in [Entry -> EntryType] /\ 1 \in Entry /\ 2 \in Entry
  BY NoEntryTyped, EntryIsBig
<1> DEFINE one == [name |-> ".", ino |-> c]
           two == [name |-> "..", ino |-> p]
<1>7. Dots(c, p) = [NoEntries EXCEPT ![1] = one, ![2] = two]
  BY DEF Dots
<1> HIDE DEF one, two
<1>8. Dots(c, p)[1] = one /\ Dots(c, p)[2] = two /\ \A j \in Entry \ {1, 2} : Dots(c, p)[j] = NoEntry
  BY <1>5, <1>6, <1>7
<1>9. NewDir(b).type = "dir" /\ NewDir(b).direct[1] = b /\ NewDir(b).direct[2] = 0 /\ NewDir(b).indir = 0
  BY DEF NewDir
<1> QED BY <1>2, <1>4, <1>8, <1>9 DEF one, two

\* What is written for a new directory after its entry, on the disk h: its block
\* b with its entries, its inode c, the bits and the counters.
DirAdded(h, e, c, b, p) ==
  /\ e \in DiskType /\ e.blockMap = h.blockMap \cup {b}
  /\ \A x \in InodeNum : e.inode[x] = IF x = c THEN NewDir(b) ELSE h.inode[x]
  /\ \A x \in Block : e.blk[x] = IF x = b THEN DirBlock(Dots(c, p)) ELSE h.blk[x]
  /\ e.inodeMap = h.inodeMap \cup {c} /\ e.info.inodes = h.info.inodes + 1

\* The pointers of an inode that is not in use.
LEMMA FreeLinksNothing ==
  ASSUME NEW h, NEW c, h.inode[c] = FreeInode
  PROVE  \A k \in Pos : PtrOf(h, c, k) = 0
<1>1. h.inode[c].indir = 0 /\ h.inode[c].direct[1] = 0 /\ h.inode[c].direct[2] = 0
  BY DEF FreeInode
<1>2. \A s \in Slot : IndirectPtrs(h, h.inode[c])[s] = 0
  BY <1>1 DEF IndirectPtrs, NoPtrs
<1>3. PtrOf(h, c, 0) = 0 /\ PtrOf(h, c, 1) = 0 /\ PtrOf(h, c, 2) = 0 /\ \A s \in Slot : PtrOf(h, c, s + 2) = 0
  BY <1>1, <1>2, PtrByPos
<1> SUFFICES ASSUME NEW k \in Pos PROVE PtrOf(h, c, k) = 0
  OBVIOUS
<1>4. CASE k \in DataPos /\ k - 2 \in Slot
  <2>1. (k - 2) + 2 = k
    BY <1>4, PosIs
  <2> QED BY <1>3, <1>4, <2>1
<1> QED BY <1>3, <1>4, PosIs DEF DataPos

\* The pointers of a new directory.
LEMMA NewDirLinks ==
  ASSUME NEW e, NEW c, NEW b, e.inode[c].indir = 0, e.inode[c].direct[1] = b, e.inode[c].direct[2] = 0
  PROVE  PtrOf(e, c, 1) = b /\ \A k \in Pos \ {1} : PtrOf(e, c, k) = 0
<1>2. \A s \in Slot : IndirectPtrs(e, e.inode[c])[s] = 0
  BY DEF IndirectPtrs, NoPtrs
<1>3. PtrOf(e, c, 0) = 0 /\ PtrOf(e, c, 1) = b /\ PtrOf(e, c, 2) = 0 /\ \A s \in Slot : PtrOf(e, c, s + 2) = 0
  BY <1>2, PtrByPos
<1> SUFFICES ASSUME NEW k \in Pos \ {1} PROVE PtrOf(e, c, k) = 0
  BY <1>3
<1>4. CASE k \in DataPos /\ k - 2 \in Slot
  <2>1. (k - 2) + 2 = k
    BY <1>4, PosIs
  <2> QED BY <1>3, <1>4, <2>1
<1> QED BY <1>3, <1>4, PosIs DEF DataPos

\* Its block is the only pointer that is new.
LEMMA DirAddedLinks ==
  ASSUME NEW h \in DiskType, Marked(h), NEW c \in InodeNum, h.inode[c] = FreeInode,
         NEW b \in Block \ h.blockMap, NEW e,
         \A x \in InodeNum : e.inode[x] = IF x = c THEN NewDir(b) ELSE h.inode[x],
         \A x \in Block \ {b} : e.blk[x] = h.blk[x]
  PROVE  OnlyPtr(e, h, c, 1, b) /\ Unlinked(h, b)
<1>1. Unlinked(h, b)
  BY FreeIsUnlinked
<1> SUFFICES ASSUME NEW j \in InodeNum, NEW l \in Pos
             PROVE  PtrOf(e, j, l) = IF j = c /\ l = 1 THEN b ELSE PtrOf(h, j, l)
  BY <1>1 DEF OnlyPtr
<1>2. CASE j = c
  <2>1. e.inode[c].indir = 0 /\ e.inode[c].direct[1] = b /\ e.inode[c].direct[2] = 0
    BY DEF NewDir
  <2>2. PtrOf(e, c, 1) = b /\ \A k \in Pos \ {1} : PtrOf(e, c, k) = 0
    BY <2>1, NewDirLinks
  <2>3. PtrOf(h, c, l) = 0
    BY FreeLinksNothing
  <2> QED BY <1>2, <2>2, <2>3
<1>3. CASE j # c
  <2>1. e.inode[j] = h.inode[j]
    BY <1>3
  <2>2. PtrOf(h, j, 0) # 0 => PtrOf(h, j, 0) \in Block \ {b}
    BY <1>1, PosIs, PtrTyped DEF Unlinked, Pointer
  <2>3. PtrOf(h, j, 0) # 0 => e.blk[PtrOf(h, j, 0)] = h.blk[PtrOf(h, j, 0)]
    BY <2>2
  <2>4. PtrOf(e, j, l) = PtrOf(h, j, l)
    BY <2>1, <2>3, PtrsReadFrom
  <2> QED BY <1>3, <2>4
<1> QED BY <1>2, <1>3

\* The blocks stay sound with a new directory.
LEMMA DirAddedSound ==
  ASSUME NEW h \in DiskType, BlocksSound(h), NEW c \in InodeNum, h.inode[c] = FreeInode, NEW p \in InodeNum,
         NEW b \in Block \ h.blockMap, NEW e, DirAdded(h, e, c, b, p)
  PROVE  BlocksSound(e) /\ OnlyPtr(e, h, c, 1, b) /\ Unlinked(h, b)
<1>1. /\ e \in DiskType /\ e.blockMap = h.blockMap \cup {b}
      /\ \A x \in InodeNum : e.inode[x] = IF x = c THEN NewDir(b) ELSE h.inode[x]
      /\ \A x \in Block : e.blk[x] = IF x = b THEN DirBlock(Dots(c, p)) ELSE h.blk[x]
  BY DEF DirAdded
<1>2. OwnedOnce(h) /\ Marked(h) /\ KindsRight(h) /\ \A x \in Block \ h.blockMap : h.blk[x] = Zero
  BY DEF BlocksSound
<1>3. \A x \in Block \ {b} : e.blk[x] = h.blk[x]
  BY <1>1
<1>4. OnlyPtr(e, h, c, 1, b) /\ Unlinked(h, b)
  BY <1>1, <1>2, <1>3, DirAddedLinks
<1>5. OwnedOnce(e)
  BY <1>2, <1>4, AddedOwned
<1>6. Marked(e)
  BY <1>1, <1>2, <1>4 DEF Marked, OnlyPtr
<1>7. KindsRight(e)
  <2> SUFFICES ASSUME NEW j \in InodeNum, NEW l \in Pos, PtrOf(e, j, l) # 0
               PROVE  e.blk[PtrOf(e, j, l)].kind \in {"zero", KindOf(e.inode[j], l)}
    BY DEF KindsRight
  <2>1. CASE j = c /\ l = 1
    <3>1. PtrOf(e, j, l) = b
      BY <1>4, <2>1 DEF OnlyPtr
    <3>2. e.blk[b] = DirBlock(Dots(c, p)) /\ e.inode[c] = NewDir(b)
      BY <1>1
    <3>3. e.blk[b].kind = "dir"
      BY <3>2 DEF DirBlock
    <3>4. e.inode[c].type = "dir"
      BY <3>2 DEF NewDir
    <3> QED BY <2>1, <3>1, <3>3, <3>4 DEF KindOf
  <2>2. CASE ~(j = c /\ l = 1)
    <3>1. PtrOf(e, j, l) = PtrOf(h, j, l)
      BY <1>4, <2>2 DEF OnlyPtr
    <3>2. j # c
      BY <3>1, FreeLinksNothing
    <3>3. PtrOf(h, j, l) \in Block \ {b}
      BY <1>4, <3>1, PtrTyped DEF Unlinked, Pointer
    <3>4. e.inode[j] = h.inode[j] /\ e.blk[PtrOf(e, j, l)] = h.blk[PtrOf(h, j, l)]
      BY <1>1, <1>3, <3>1, <3>2, <3>3
    <3>5. h.blk[PtrOf(h, j, l)].kind \in {"zero", KindOf(h.inode[j], l)}
      BY <1>2, <3>1 DEF KindsRight
    <3> QED BY <3>4, <3>5
  <2> QED BY <2>1, <2>2
<1>8. \A x \in Block \ e.blockMap : e.blk[x] = Zero
  BY <1>1, <1>2
<1> QED BY <1>4, <1>5, <1>6, <1>7, <1>8 DEF BlocksSound

\* The other directories keep their entries.
LEMMA DirAddedElsewhere ==
  ASSUME NEW h \in DiskType, NEW c \in InodeNum, NEW p \in InodeNum,
         NEW b \in Block, NEW e, DirAdded(h, e, c, b, p), OnlyPtr(e, h, c, 1, b), Unlinked(h, b),
         NEW i \in InodeNum \ {c}
  PROVE  SameCells(e, h, i) /\ (NoHoles(h, i) => NoHoles(e, i))
<1>1. \A k \in DataPos : PtrOf(e, i, k) = PtrOf(h, i, k)
  BY PosIs DEF OnlyPtr
<1>2. \A k \in DataPos : EntsAt(e, i, k) = EntsAt(h, i, k)
  <2> SUFFICES ASSUME NEW k \in DataPos, PtrOf(h, i, k) # 0 PROVE Ents(e.blk[PtrOf(h, i, k)]) = Ents(h.blk[PtrOf(h, i, k)])
    BY <1>1 DEF EntsAt
  <2>1. PtrOf(h, i, k) \in Block \ {b}
    BY PosIs, PtrTyped DEF Unlinked, Pointer
  <2>2. e.blk[PtrOf(h, i, k)] = h.blk[PtrOf(h, i, k)]
    BY <2>1 DEF DirAdded
  <2> QED BY <2>2
<1>3. SameCells(e, h, i)
  BY <1>2, SameEnts
<1>4. NoHoles(h, i) => NoHoles(e, i)
  BY <1>1 DEF NoHoles
<1> QED BY <1>3, <1>4

\* The new directory has the two entries every directory has.
LEMMA DirAddedRight ==
  ASSUME NEW h, NEW c \in InodeNum, NEW p \in InodeNum,
         NEW b \in Block, NEW e, DirAdded(h, e, c, b, p)
  PROVE  /\ IsDirIn(e, c) /\ NoHoles(e, c) /\ NamesOnce(e, c) /\ DotRight(e, c) /\ UpRight(e, c, p)
         /\ PlainCells(e, c) = {}
<1>1. e.inode[c] = NewDir(b) /\ e.blk[b] = DirBlock(Dots(c, p))
  BY DEF DirAdded
<1>2. e.inode[c].indir = 0 /\ e.inode[c].direct[1] = b /\ e.inode[c].direct[2] = 0 /\ IsDirIn(e, c)
  BY <1>1 DEF NewDir, IsDirIn
<1>3. PtrOf(e, c, 1) = b /\ b # 0 /\ \A k \in Pos \ {1} : PtrOf(e, c, k) = 0
  BY <1>2, NewDirLinks, BlocksArePositive
<1>4. Ents(e.blk[b]) = Dots(c, p)
  BY <1>1 DEF Ents, DirBlock
<1> DEFINE one == [name |-> ".", ino |-> c]
           two == [name |-> "..", ino |-> p]
<1>5. Dots(c, p)[1] = one /\ Dots(c, p)[2] = two /\ \A j \in Entry \ {1, 2} : Dots(c, p)[j] = NoEntry
  BY NewDirIs
<1>6. one.name = "." /\ two.name = ".." /\ one.name # two.name /\ NoEntry.name = ""
      /\ ~Plain(one.name) /\ ~Plain(two.name)
  BY DEF NoEntry, Plain
<1>7. EntryAt(e, c, 1, 1) = one /\ EntryAt(e, c, 1, 2) = two
  BY <1>3, <1>4, <1>5 DEF EntryAt
<1>8. DotRight(e, c) /\ UpRight(e, c, p)
  BY <1>3, <1>7 DEF DotRight, UpRight
<1>9. NoHoles(e, c)
  <2>1. \A k, l \in DataPos : k < l => k \in Nat /\ l \in Nat /\ l # 1
    BY PosIs DEF DataPos
  <2> QED BY <1>3, <2>1, PosIs DEF NoHoles
<1>10. \A x \in Cells(e, c) : (x = <<1, 1>> /\ EntryAt(e, c, x[1], x[2]) = one) \/ (x = <<1, 2>> /\ EntryAt(e, c, x[1], x[2]) = two)
  <2> SUFFICES ASSUME NEW x \in Cells(e, c) 
               PROVE  (x = <<1, 1>> /\ EntryAt(e, c, x[1], x[2]) = one) \/ (x = <<1, 2>> /\ EntryAt(e, c, x[1], x[2]) = two)
    OBVIOUS
  <2>1. x \in DataPos \X Entry /\ PtrOf(e, c, x[1]) # 0 /\ EntryAt(e, c, x[1], x[2]).name # ""
    BY DEF Cells
  <2>2. x = <<x[1], x[2]>> /\ x[1] \in DataPos /\ x[2] \in Entry
    BY <2>1, PairIs
  <2>3. x[1] = 1
    BY <1>3, <2>1, <2>2, PosIs
  <2>4. EntryAt(e, c, x[1], x[2]) = Dots(c, p)[x[2]]
    BY <1>3, <1>4, <2>3 DEF EntryAt
  <2>5. x[2] = 1 \/ x[2] = 2
    BY <1>5, <1>6, <2>1, <2>2, <2>4
  <2> HIDE DEF one, two
  <2> QED BY <1>7, <2>2, <2>3, <2>5
<1> HIDE DEF one, two
<1>11. PlainCells(e, c) = {}
  <2> SUFFICES ASSUME NEW x \in PlainCells(e, c) PROVE FALSE
    OBVIOUS
  <2>1. x \in Cells(e, c) /\ Plain(EntryAt(e, c, x[1], x[2]).name)
    BY DEF PlainCells
  <2>2. EntryAt(e, c, x[1], x[2]) = one \/ EntryAt(e, c, x[1], x[2]) = two
    BY <1>10, <2>1
  <2> QED BY <1>6, <2>1, <2>2
<1>12. NamesOnce(e, c)
  BY <1>6, <1>10 DEF NamesOnce
<1> QED BY <1>2, <1>8, <1>9, <1>11, <1>12

\* Entries that stay the same twice.
LEMMA SameCellsTwice ==
  ASSUME NEW d, NEW h, NEW e, NEW i, SameCells(e, h, i)
  PROVE  /\ SameCells(h, d, i) => SameCells(e, d, i)
         /\ \A y, name, c : OneMore(h, d, i, y, name, c) => OneMore(e, d, i, y, name, c)
<1>1. Cells(e, i) = Cells(h, i) /\ \A x \in Cells(h, i) : EntryAt(e, i, x[1], x[2]) = EntryAt(h, i, x[1], x[2])
  BY DEF SameCells
<1>2. SameCells(h, d, i) => SameCells(e, d, i)
  BY <1>1 DEF SameCells
<1>3. ASSUME NEW y, NEW name, NEW c, OneMore(h, d, i, y, name, c) PROVE OneMore(e, d, i, y, name, c)
  BY <1>1, <1>3 DEF OneMore
<1> QED BY <1>2, <1>3

\* The block of a new directory is not one of those its parent grew by.
LEMMA OneBlockMore ==
  ASSUME NEW d \in DiskType, NEW n \in Nat, Enough(d, n + 1)
  PROVE  /\ Enough(d, n) /\ GetFreeBlockNum(d, n + 1) \in Block \ d.blockMap
         /\ \A m \in 1 .. n : GetFreeBlockNum(d, m) # GetFreeBlockNum(d, n + 1)
<1> DEFINE b == GetFreeBlockNum(d, n + 1)
<1>1. n + 1 \in Nat /\ n + 1 \in 1 .. n + 1 /\ \A m \in 1 .. n : m \in 1 .. n + 1 /\ m # n + 1
  OBVIOUS
<1>2. b \in Block \ d.blockMap /\ \A x \in 1 .. n + 1 : GetFreeBlockNum(d, x) = b => x = n + 1
  BY <1>1, GivenIsFree
<1>3. Cardinality(FreeBlocks(d)) \in Nat
  <2>1. IsFiniteSet(FreeBlocks(d))
    BY BlocksArePositive, FS_Subset DEF FreeBlocks
  <2> QED BY <2>1, FS_CardinalityType
<1>4. Enough(d, n)
  BY <1>3 DEF Enough
<1> QED BY <1>1, <1>2, <1>4

\* A directory is made when its block, its inode, the bits and the counters are
\* written.
LEMMA DirMade ==
  ASSUME NEW d, NEW q, NEW p, NEW prev, NEW place, NEW c, Making(d, q, p, prev, place, c),
         Enough(d, Growth(d, p, place)),
         NEW h \in Entered(d, p, place, q[Len(q)], c), NEW b \in Block \ h.blockMap,
         NEW e, DirAdded(h, e, c, b, p)
  PROVE  e \in Made(d, c, "dir")
<1>1. /\ Sound(d) /\ q \in Path /\ Reached(d, Up(q)) /\ ~Reached(d, q) /\ p = Ino(d, Up(q)) /\ p \in DirInodes(d)
  BY DEF Making
<1>2. c \in InodeNum \ d.inodeMap /\ d.inode[c] = FreeInode /\ c # p /\ p \in InodeNum
  BY MakingFree
<1>3. /\ h \in DiskType /\ BlocksSound(h) /\ SameInodeMap(h, d) /\ SameTypes(h, d) /\ NoHoles(h, p)
      /\ \A j \in InodeNum : j # p => h.inode[j] = d.inode[j] /\ \A l \in Pos : PtrOf(h, j, l) = PtrOf(d, j, l)
      /\ \E y : OneMore(h, d, p, y, q[Len(q)], c)
      /\ \A i \in InodeNum \ {p} : SameCells(h, d, i)
  BY DEF Entered
<1>4. /\ FreeBlank(d) /\ DirInodes(d) \subseteq d.inodeMap
      /\ \A i \in DirInodes(d) : NoHoles(d, i)
  BY <1>1, SoundParts
<1>5. h.inode[c] = FreeInode
  BY <1>2, <1>3
<1>6. BlocksSound(e) /\ OnlyPtr(e, h, c, 1, b) /\ Unlinked(h, b)
  BY <1>2, <1>3, <1>5, DirAddedSound
<1>7. \A i \in InodeNum \ {c} : SameCells(e, h, i) /\ (NoHoles(h, i) => NoHoles(e, i))
  BY <1>2, <1>3, <1>6, DirAddedElsewhere
<1>8. /\ IsDirIn(e, c) /\ NoHoles(e, c) /\ NamesOnce(e, c) /\ DotRight(e, c) /\ UpRight(e, c, p)
      /\ PlainCells(e, c) = {}
  BY <1>2, DirAddedRight
<1>9. /\ e \in DiskType /\ e.inodeMap = h.inodeMap \cup {c} /\ e.info.inodes = h.info.inodes + 1
      /\ \A x \in InodeNum \ {c} : e.inode[x] = h.inode[x]
  BY DEF DirAdded
<1>10. e.inodeMap = d.inodeMap \cup {c} /\ e.info.inodes = d.info.inodes + 1
  BY <1>3, <1>9 DEF SameInodeMap
<1>11. \A x \in InodeNum \ {c} : e.inode[x].type = d.inode[x].type
  BY <1>3, <1>9 DEF SameTypes
<1>12. DirInodes(e) = DirInodes(d) \cup {c}
  BY <1>2, <1>8, <1>11 DEF DirInodes, IsDirIn
<1>13. \A i \in DirInodes(e) : NoHoles(e, i)
  <2> SUFFICES ASSUME NEW i \in DirInodes(d), i # c PROVE NoHoles(h, i)
    BY <1>7, <1>8, <1>12 DEF DirInodes
  <2>1. CASE i = p
    BY <1>3, <2>1
  <2>2. CASE i # p
    <3>1. \A l \in DataPos : PtrOf(h, i, l) = PtrOf(d, i, l)
      BY <1>3, <2>2, PosIs DEF DirInodes
    <3> QED BY <1>4, <3>1 DEF NoHoles
  <2> QED BY <2>1, <2>2
<1>14. \A i \in InodeNum \ e.inodeMap : e.inode[i] = FreeInode
  BY <1>1, <1>3, <1>4, <1>9, <1>10 DEF FreeBlank
<1>15. \E y : OneMore(e, d, p, y, q[Len(q)], c)
  <2>1. SameCells(e, h, p)
    BY <1>2, <1>7
  <2> QED BY <1>3, <2>1, SameCellsTwice
<1>16. \A i \in DirInodes(d) \ {p} : SameCells(e, d, i)
  <2> SUFFICES ASSUME NEW i \in DirInodes(d) \ {p} PROVE SameCells(e, d, i)
    OBVIOUS
  <2>1. SameCells(e, h, i) /\ SameCells(h, d, i)
    BY <1>2, <1>3, <1>4, <1>7 DEF DirInodes
  <2> QED BY <2>1, SameCellsTwice
<1>17. MadeFor(d, e, q, c)
  BY <1>1, <1>6, <1>8, <1>9, <1>10, <1>12, <1>13, <1>14, <1>15, <1>16 DEF MadeFor
<1>18. Sound(e)
  BY <1>1, <1>2, <1>17, MadeSound
<1>19. e.inode[c].type = "dir"
  BY <1>8 DEF IsDirIn
<1> QED BY <1>9, <1>10, <1>11, <1>18, <1>19 DEF Made

\* The disks while a new directory is written: after the first n of the writes
\* of its block, its inode, the two bits and the counters.
DirStage(h, c, b, p, n) ==
  {f \in DiskType :
    /\ \A x \in InodeNum : f.inode[x] = IF x = c /\ n >= 2 THEN NewDir(b) ELSE h.inode[x]
    /\ \A x \in Block : f.blk[x] = IF x = b THEN DirBlock(Dots(c, p)) ELSE h.blk[x]
    /\ f.inodeMap = IF n >= 3 THEN h.inodeMap \cup {c} ELSE h.inodeMap
    /\ f.blockMap = IF n >= 4 THEN h.blockMap \cup {b} ELSE h.blockMap
    /\ f.info.inodes = IF n >= 5 THEN h.info.inodes + 1 ELSE h.info.inodes}

\* While a directory is made blocks are owned once.
LEMMA DirStageOwned ==
  ASSUME NEW h \in DiskType, BlocksSound(h), NEW c \in InodeNum, h.inode[c] = FreeInode, NEW p,
         NEW b \in Block \ h.blockMap, NEW n \in 1 .. 5
  PROVE  DirStage(h, c, b, p, n) \subseteq Owned
<1> SUFFICES ASSUME NEW f \in DirStage(h, c, b, p, n) PROVE f \in Owned
  OBVIOUS
<1>1. /\ f \in DiskType /\ \A x \in InodeNum : f.inode[x] = IF x = c /\ n >= 2 THEN NewDir(b) ELSE h.inode[x]
      /\ \A x \in Block \ {b} : f.blk[x] = h.blk[x]
  BY DEF DirStage
<1>2. OwnedOnce(h) /\ Marked(h)
  BY DEF BlocksSound
<1>3. CASE n >= 2
  <2>1. \A x \in InodeNum : f.inode[x] = IF x = c THEN NewDir(b) ELSE h.inode[x]
    BY <1>1, <1>3
  <2>2. OnlyPtr(f, h, c, 1, b) /\ Unlinked(h, b)
    BY <1>1, <1>2, <2>1, DirAddedLinks
  <2>3. OwnedOnce(f)
    BY <1>2, <2>2, AddedOwned
  <2> QED BY <1>1, <2>3 DEF Owned
<1>4. CASE n = 1
  <2>1. \A x \in InodeNum : f.inode[x] = h.inode[x]
    BY <1>1, <1>4
  <2>2. Unlinked(h, b)
    BY <1>2, FreeIsUnlinked
  <2>3. SamePtrs(f, h)
    <3> SUFFICES ASSUME NEW j \in InodeNum PROVE \A l \in Pos : PtrOf(f, j, l) = PtrOf(h, j, l)
      BY DEF SamePtrs
    <3>1. PtrOf(h, j, 0) # 0 => PtrOf(h, j, 0) \in Block \ {b}
      BY <2>2, PosIs, PtrTyped DEF Unlinked, Pointer
    <3>2. PtrOf(h, j, 0) # 0 => f.blk[PtrOf(h, j, 0)] = h.blk[PtrOf(h, j, 0)]
      BY <1>1, <3>1
    <3> QED BY <2>1, <3>2, PtrsReadFrom
  <2>4. OwnedOnce(f)
    BY <1>2, <2>3, SameOwned
  <2> QED BY <1>1, <2>4 DEF Owned
<1> QED BY <1>3, <1>4

\* The writes of a new directory, one after the other.
LEMMA DirStages ==
  ASSUME NEW h \in DiskType, NEW c \in InodeNum, NEW p \in InodeNum, NEW b \in Block
  PROVE  /\ Written(h, WriteBlock(b, DirBlock(Dots(c, p)))) \in DirStage(h, c, b, p, 1)
         /\ \A e \in DirStage(h, c, b, p, 1) : Written(e, PutInode(c, NewDir(b))) \in DirStage(h, c, b, p, 2)
         /\ \A e \in DirStage(h, c, b, p, 2) : Written(e, SetInodeBitmap(c)) \in DirStage(h, c, b, p, 3)
         /\ \A e \in DirStage(h, c, b, p, 3) : Written(e, SetBlockBitmap(b)) \in DirStage(h, c, b, p, 4)
         /\ \A e \in DirStage(h, c, b, p, 4) : Written(e, Count(1, 1)) \in DirStage(h, c, b, p, 5)
<1>0. NewDir(b) \in InodeType /\ DirBlock(Dots(c, p)) \in BlockType
  BY NewDirIs, BlocksAre
<1> DEFINE content == DirBlock(Dots(c, p))
           D(n) == DirStage(h, c, b, p, n)
<1>1. Written(h, WriteBlock(b, content)) \in D(1)
  <2> DEFINE f == Written(h, WriteBlock(b, content))
  <2>1. b \in Pointer
    BY DEF Pointer
  <2> HIDE DEF content
  <2>2. f \in DiskType /\ SameBut(f, h, "blk") /\ \A x \in Block : f.blk[x] = IF x = b THEN content ELSE h.blk[x]
    BY <1>0, <2>1, BlockWritten DEF content
  <2> HIDE DEF f
  <2>3. /\ f \in DiskType /\ f.inode = h.inode /\ f.blockMap = h.blockMap /\ f.inodeMap = h.inodeMap /\ f.info = h.info
        /\ \A x \in Block : f.blk[x] = IF x = b THEN content ELSE h.blk[x]
    BY <2>2 DEF SameBut
  <2> QED BY <2>3 DEF DirStage, f, content
<1>2. ASSUME NEW e \in D(1) PROVE Written(e, PutInode(c, NewDir(b))) \in D(2)
  <2> DEFINE f == Written(e, PutInode(c, NewDir(b)))
  <2>1. /\ e \in DiskType /\ \A x \in InodeNum : e.inode[x] = h.inode[x]
        /\ \A x \in Block : e.blk[x] = IF x = b THEN content ELSE h.blk[x]
        /\ e.inodeMap = h.inodeMap /\ e.blockMap = h.blockMap /\ e.info.inodes = h.info.inodes
    BY DEF DirStage
  <2>2. f \in DiskType /\ SameBut(f, e, "inode") /\ \A x \in InodeNum : f.inode[x] = IF x = c THEN NewDir(b) ELSE e.inode[x]
    BY <1>0, <2>1, InodeWritten
  <2> HIDE DEF f, content
  <2>3. /\ f \in DiskType /\ f.blk = e.blk /\ f.blockMap = e.blockMap /\ f.inodeMap = e.inodeMap /\ f.info = e.info
        /\ \A x \in InodeNum : f.inode[x] = IF x = c THEN NewDir(b) ELSE e.inode[x]
    BY <2>2 DEF SameBut
  <2> QED BY <2>1, <2>3 DEF DirStage, f, content
<1>3. ASSUME NEW e \in D(2) PROVE Written(e, SetInodeBitmap(c)) \in D(3)
  <2> DEFINE f == Written(e, SetInodeBitmap(c))
  <2>1. /\ e \in DiskType /\ \A x \in InodeNum : e.inode[x] = IF x = c THEN NewDir(b) ELSE h.inode[x]
        /\ \A x \in Block : e.blk[x] = IF x = b THEN content ELSE h.blk[x]
        /\ e.inodeMap = h.inodeMap /\ e.blockMap = h.blockMap /\ e.info.inodes = h.info.inodes
    BY DEF DirStage
  <2>2. f \in DiskType /\ SameBut(f, e, "inodeMap") /\ f.inodeMap = e.inodeMap \cup {c}
    BY <2>1, InodeBitSet
  <2> HIDE DEF f, content
  <2>3. /\ f \in DiskType /\ f.blk = e.blk /\ f.blockMap = e.blockMap /\ f.inode = e.inode /\ f.info = e.info
        /\ f.inodeMap = h.inodeMap \cup {c}
    BY <2>1, <2>2 DEF SameBut
  <2> QED BY <2>1, <2>3 DEF DirStage, f, content
<1>4. ASSUME NEW e \in D(3) PROVE Written(e, SetBlockBitmap(b)) \in D(4)
  <2> DEFINE f == Written(e, SetBlockBitmap(b))
  <2>1. /\ e \in DiskType /\ \A x \in InodeNum : e.inode[x] = IF x = c THEN NewDir(b) ELSE h.inode[x]
        /\ \A x \in Block : e.blk[x] = IF x = b THEN content ELSE h.blk[x]
        /\ e.inodeMap = h.inodeMap \cup {c} /\ e.blockMap = h.blockMap /\ e.info.inodes = h.info.inodes
    BY DEF DirStage
  <2>2. f \in DiskType /\ SameBut(f, e, "blockMap") /\ f.blockMap = e.blockMap \cup {b}
    BY <2>1, BlockBitSet
  <2> HIDE DEF f, content
  <2>3. /\ f \in DiskType /\ f.blk = e.blk /\ f.inodeMap = e.inodeMap /\ f.inode = e.inode /\ f.info = e.info
        /\ f.blockMap = h.blockMap \cup {b}
    BY <2>1, <2>2 DEF SameBut
  <2> QED BY <2>1, <2>3 DEF DirStage, f, content
<1>5. ASSUME NEW e \in D(4) PROVE Written(e, Count(1, 1)) \in D(5)
  <2> DEFINE f == Written(e, Count(1, 1))
  <2>1. /\ e \in DiskType /\ \A x \in InodeNum : e.inode[x] = IF x = c THEN NewDir(b) ELSE h.inode[x]
        /\ \A x \in Block : e.blk[x] = IF x = b THEN content ELSE h.blk[x]
        /\ e.inodeMap = h.inodeMap \cup {c} /\ e.blockMap = h.blockMap \cup {b} /\ e.info.inodes = h.info.inodes
    BY DEF DirStage
  <2>2. f \in DiskType /\ SameBut(f, e, "info") /\ f.info.inodes = e.info.inodes + 1
    <3>1. e \in DiskType /\ 1 \in Int
      BY <2>1
    <3> QED BY <3>1, Counted
  <2> HIDE DEF f, content
  <2>3. /\ f \in DiskType /\ f.blk = e.blk /\ f.blockMap = e.blockMap /\ f.inode = e.inode /\ f.inodeMap = e.inodeMap
        /\ f.info.inodes = h.info.inodes + 1
    BY <2>1, <2>2 DEF SameBut
  <2> QED BY <2>1, <2>3 DEF DirStage, f, content
<1> QED BY <1>1, <1>2, <1>3, <1>4, <1>5

\* Writes that lead on from where others lead.
LEMMA LeadsCat ==
  ASSUME NEW ws \in Seq(Writes), NEW vs \in Seq(Writes), NEW A, NEW B, NEW S, NEW d,
         Leads(d, ws, A, S), \A e \in A : Leads(e, vs, B, S)
  PROVE  Cat(ws, vs) \in Seq(Writes) /\ Leads(d, Cat(ws, vs), B, S)
<1>1. Leads(d, ws \o vs, B, S)
  BY LeadsConcat
<1>2. ws \o vs \in Seq(Writes)
  OBVIOUS
<1> QED BY <1>1, <1>2 DEF Cat

\* A directory is made.
LEMMA MakeDirLeads ==
  ASSUME NEW d, NEW q, NEW p, NEW prev, NEW place, NEW c, Making(d, q, p, prev, place, c),
         Enough(d, Growth(d, p, place) + 1)
  PROVE  LET ws == myMakeDir(d, q[Len(q)], p, place)
         IN  ws \in Seq(Writes) /\ Leads(d, ws, Made(d, c, "dir"), Owned)
<1> DEFINE name == q[Len(q)]
           b == GetFreeBlockNum(d, Growth(d, p, place) + 1)
           us == Grown(d, p, place)
           w == WriteEntry(RoomFor(d, p, place), name, c)
           v == WriteBlock(b, DirBlock(Dots(c, p)))
           x == PutInode(c, NewDir(b))
           y == SetInodeBitmap(c)
           z == SetBlockBitmap(b)
           k == Count(1, 1)
           E == Entered(d, p, place, name, c)
           D(n) == UNION {DirStage(h, c, b, p, n) : h \in E}
           M == Made(d, c, "dir")
<1>1. c \in InodeNum \ d.inodeMap /\ d.inode[c] = FreeInode /\ c # p /\ p \in InodeNum
  BY MakingFree
<1>2. d \in DiskType /\ Growth(d, p, place) \in Nat
  BY <1>1, SoundParts, GrowthTyped DEF Making
<1>3. /\ Enough(d, Growth(d, p, place)) /\ b \in Block \ d.blockMap
      /\ \A m \in 1 .. Growth(d, p, place) : GetFreeBlockNum(d, m) # b
  BY <1>2, OneBlockMore
<1>4. us \o <<w>> \in Seq(Writes) /\ Leads(d, us \o <<w>>, E, Owned) /\ us \in Seq(Writes) /\ w \in Writes
  BY <1>3, MakingLeads
<1>5. b \in Pointer /\ NewDir(b) \in InodeType /\ DirBlock(Dots(c, p)) \in BlockType
  BY <1>1, <1>3, NewDirIs, BlocksAre DEF Pointer
<1>6. v \in Writes /\ x \in Writes /\ y \in Writes /\ z \in Writes /\ k \in Writes
  BY <1>1, <1>3, <1>5, WritesAre
<1>7. myMakeDir(d, name, p, place) = us \o <<w, v, x, y, z, k>>
  BY DEF myMakeDir, Making, NewDir, Dots
<1>8. ASSUME NEW h \in E
      PROVE  /\ h \in DiskType /\ BlocksSound(h) /\ h.inode[c] = FreeInode /\ b \in Block \ h.blockMap
             /\ \A n \in 1 .. 5 : DirStage(h, c, b, p, n) \subseteq Owned
             /\ DirStage(h, c, b, p, 5) \subseteq M
  <2>1. h \in DiskType /\ BlocksSound(h) /\ h.inode[c] = d.inode[c]
        /\ \A r \in h.blockMap : r \in d.blockMap \/ \E m \in 1 .. Growth(d, p, place) : r = GetFreeBlockNum(d, m)
    BY <1>1 DEF Entered
  <2>2. h.inode[c] = FreeInode /\ b \in Block \ h.blockMap
    BY <1>1, <1>3, <2>1
  <2>3. \A n \in 1 .. 5 : DirStage(h, c, b, p, n) \subseteq Owned
    BY <1>1, <2>1, <2>2, DirStageOwned
  <2>4. ASSUME NEW e \in DirStage(h, c, b, p, 5) PROVE e \in M
    <3>1. DirAdded(h, e, c, b, p)
      BY DEF DirStage, DirAdded
    <3> HIDE DEF b
    <3> QED BY <1>3, <2>2, <3>1, DirMade
  <2> QED BY <2>1, <2>2, <2>3, <2>4
<1>9. /\ \A h \in E : Written(h, v) \in D(1)
      /\ \A e \in D(1) : Written(e, x) \in D(2)
      /\ \A e \in D(2) : Written(e, y) \in D(3)
      /\ \A e \in D(3) : Written(e, z) \in D(4)
      /\ \A e \in D(4) : Written(e, k) \in D(5)
  <2>1. ASSUME NEW h \in E
        PROVE  /\ Written(h, v) \in DirStage(h, c, b, p, 1)
               /\ \A e \in DirStage(h, c, b, p, 1) : Written(e, x) \in DirStage(h, c, b, p, 2)
               /\ \A e \in DirStage(h, c, b, p, 2) : Written(e, y) \in DirStage(h, c, b, p, 3)
               /\ \A e \in DirStage(h, c, b, p, 3) : Written(e, z) \in DirStage(h, c, b, p, 4)
               /\ \A e \in DirStage(h, c, b, p, 4) : Written(e, k) \in DirStage(h, c, b, p, 5)
    <3>1. h \in DiskType
      BY <1>8
    <3> HIDE DEF b
    <3> QED BY <1>1, <1>3, <3>1, DirStages
  <2> HIDE DEF E, b, v, x, y, z, k
  <2> QED BY <2>1
<1>10. \A n \in 1 .. 5 : D(n) \subseteq Owned
  <2> HIDE DEF E, b
  <2> QED BY <1>8
<1>11. D(5) \subseteq M
  <2> HIDE DEF E, b, M
  <2> QED BY <1>8
<1> DEFINE D1 == D(1) D2 == D(2) D3 == D(3) D4 == D(4) D5 == D(5)
<1>12. D1 \subseteq Owned /\ D2 \subseteq Owned /\ D3 \subseteq Owned /\ D4 \subseteq Owned /\ D5 \subseteq Owned
  BY <1>10
<1>13. /\ \A h \in E : Written(h, v) \in D1
       /\ \A e \in D1 : Written(e, x) \in D2
       /\ \A e \in D2 : Written(e, y) \in D3
       /\ \A e \in D3 : Written(e, z) \in D4
       /\ \A e \in D4 : Written(e, k) \in D5
  BY <1>9
<1>14. E \subseteq Owned
  BY <1>8 DEF Owned, BlocksSound
<1>15. D5 \subseteq M
  BY <1>11
<1> HIDE DEF us, w, x, y, z, v, k, E, M, name, b, D1, D2, D3, D4, D5
<1>16. One(v) \in Seq(Writes) /\ Three(x, y, z) \in Seq(Writes) /\ One(k) \in Seq(Writes)
  BY <1>6 DEF One, Three
<1>17. \A e \in E : Leads(e, One(v), D1, Owned)
  BY <1>12, <1>13, <1>14, LeadsOne DEF One
<1>18. \A e \in D1 : Leads(e, Three(x, y, z), D4, Owned)
  BY <1>12, <1>13, LeadsThree DEF Three
<1>19. \A e \in D4 : Leads(e, One(k), D5, Owned)
  BY <1>12, <1>13, LeadsOne DEF One
<1> DEFINE s == Cat(us, One(w))
           t == Cat(s, One(v))
           r == Cat(t, Three(x, y, z))
           a == Cat(r, One(k))
<1>20. s \in Seq(Writes) /\ Leads(d, s, E, Owned)
  BY <1>4 DEF Cat, One
<1>21. t \in Seq(Writes) /\ Leads(d, t, D1, Owned)
  BY <1>16, <1>17, <1>20, LeadsCat
<1>22. r \in Seq(Writes) /\ Leads(d, r, D4, Owned)
  BY <1>16, <1>18, <1>21, LeadsCat
<1>23. a \in Seq(Writes) /\ Leads(d, a, D5, Owned)
  BY <1>16, <1>19, <1>22, LeadsCat
<1>24. Leads(d, a, M, Owned)
  BY <1>15, <1>23, LeadsWeaker
<1>25. Cat(us, Six(w, v, x, y, z, k)) = a
  BY <1>4, <1>6, FirstOfSix
<1>26. Cat(us, Six(w, v, x, y, z, k)) \in Seq(Writes) /\ Leads(d, Cat(us, Six(w, v, x, y, z, k)), M, Owned)
  BY <1>23, <1>24, <1>25
<1>27. us \o <<w, v, x, y, z, k>> \in Seq(Writes) /\ Leads(d, us \o <<w, v, x, y, z, k>>, M, Owned)
  BY <1>26 DEF Cat, Six
<1> QED BY <1>7, <1>27 DEF name, M
=============================================================================
