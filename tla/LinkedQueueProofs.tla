-------------------------- MODULE LinkedQueueProofs --------------------------
(***************************************************************************)
(* What the queue operations of scheduler2 do to the sequence a queue      *)
(* holds, for queues of any length over any set of nodes.                  *)
(***************************************************************************)
EXTENDS LinkedQueue, SequenceTheorems, WellFoundedInduction, FiniteSetTheorems,
        FunctionTheorems, TLAPS

\* The pointers hold s and all other nodes are ready to be pushed.
QueueState(q, l, s) ==
  /\ q \in QueueType
  /\ l \in LinkType
  /\ s \in Seq(Node)
  /\ Represents(q, l, s)
  /\ OthersUnlinked(l, s)

\* A queue without length is the empty one.
LEMMA EmptyIffNoLength ==
  ASSUME NEW s \in Seq(Node)
  PROVE  s = << >> <=> Len(s) = 0
BY EmptySeq

\* A push appends: the queue holds s and then n.
LEMMA PushAppends ==
  ASSUME NEW q, NEW l, NEW s, QueueState(q, l, s), NEW n \in Node \ NodesOf(s)
  PROVE  QueueState(Push(q, l, n).q, Push(q, l, n).l, Append(s, n))
<1> DEFINE r == Push(q, l, n)
           t == Append(s, n)
<1>0. /\ s \in Seq(Node) /\ t \in Seq(Node) /\ Len(t) = Len(s) + 1
      /\ \A i \in 1..Len(s) : t[i] = s[i] /\ s[i] \in Node
      /\ t[Len(s) + 1] = n
      /\ Len(s) \in Nat
  BY DEF QueueState
<1>1. /\ n # Null /\ \A i \in 1..Len(s) : s[i] # n /\ s[i] # Null
      /\ l.next[n] = Null /\ l.prev[n] = Null
  BY <1>0, NullAssumption DEF QueueState, OthersUnlinked, NodesOf
<1>2. NodesOf(t) = NodesOf(s) \cup {n}
  BY <1>0 DEF NodesOf
<1>3. Distinct(t)
  BY <1>0, <1>1 DEF QueueState, Represents, Distinct
<1>4. CASE s = << >>
  <2>1. r.q = [head |-> n, tail |-> n] /\ r.l = l
    BY <1>4 DEF QueueState, Represents, Push
  <2>2. r.q \in QueueType /\ r.l \in LinkType
    BY <2>1 DEF QueueState, QueueType, Pointer
  <2>3. Represents(r.q, r.l, t)
    BY <2>1, <1>0, <1>1, <1>3, <1>4 DEF Represents, NextInSeq, PrevInSeq
  <2>4. OthersUnlinked(r.l, t)
    BY <2>1, <1>2 DEF QueueState, OthersUnlinked
  <2> QED BY <2>2, <2>3, <2>4, <1>0 DEF QueueState
<1>5. CASE s # << >>
  <2>0. /\ Len(s) \in 1..Len(s)
        /\ q.head = s[1] /\ q.tail = s[Len(s)] /\ q.head # Null
    BY <1>5, <1>0, <1>1 DEF QueueState, Represents
  <2>1. /\ r.q = [q EXCEPT !.tail = n]
        /\ r.l = [next |-> [l.next EXCEPT ![s[Len(s)]] = n],
                  prev |-> [l.prev EXCEPT ![n] = s[Len(s)]]]
    BY <2>0 DEF Push
  <2>2. r.q \in QueueType /\ r.l \in LinkType
    BY <2>0, <2>1, <1>0 DEF QueueState, QueueType, LinkType, Pointer
  <2>3. \A i \in 1..Len(t) : r.l.next[t[i]] = NextInSeq(t, i)
    <3> SUFFICES ASSUME NEW i \in 1..Len(t) PROVE r.l.next[t[i]] = NextInSeq(t, i)
      OBVIOUS
    <3>1. CASE i = Len(s) + 1
      BY <3>1, <2>0, <2>1, <1>0, <1>1 DEF QueueState, LinkType, NextInSeq
    <3>2. CASE i = Len(s)
      BY <3>2, <2>0, <2>1, <1>0, <1>1 DEF QueueState, LinkType, NextInSeq
    <3>3. CASE i < Len(s)
      <4>1. i \in 1..Len(s) /\ s[i] # s[Len(s)] /\ s[i] \in Node
        BY <3>3, <1>0, <2>0 DEF QueueState, Represents, Distinct
      <4>2. l.next[s[i]] = s[i + 1] /\ t[i + 1] = s[i + 1]
        BY <3>3, <4>1, <1>0 DEF QueueState, Represents, NextInSeq
      <4> QED BY <3>3, <4>1, <4>2, <2>1, <1>0 DEF QueueState, LinkType, NextInSeq
    <3> QED BY <3>1, <3>2, <3>3, <1>0
  <2>4. \A i \in 1..Len(t) : r.l.prev[t[i]] = PrevInSeq(t, i)
    <3> SUFFICES ASSUME NEW i \in 1..Len(t) PROVE r.l.prev[t[i]] = PrevInSeq(t, i)
      OBVIOUS
    <3>1. CASE i = Len(s) + 1
      BY <3>1, <2>0, <2>1, <1>0, <1>1 DEF QueueState, LinkType, PrevInSeq
    <3>2. CASE i # Len(s) + 1
      <4>1. i \in 1..Len(s) /\ l.prev[s[i]] = PrevInSeq(s, i) /\ s[i] # n /\ t[i] = s[i]
        BY <3>2, <1>0, <1>1 DEF QueueState, Represents
      <4>2. PrevInSeq(t, i) = PrevInSeq(s, i)
        BY <4>1, <1>0 DEF PrevInSeq
      <4> QED BY <4>1, <4>2, <2>1, <1>0 DEF QueueState, LinkType
    <3> QED BY <3>1, <3>2
  <2>5. Represents(r.q, r.l, t)
    BY <2>0, <2>1, <2>3, <2>4, <1>0, <1>3 DEF Represents, QueueState, QueueType
  <2>6. OthersUnlinked(r.l, t)
    <3> SUFFICES ASSUME NEW m \in Node \ NodesOf(t)
                 PROVE  r.l.next[m] = Null /\ r.l.prev[m] = Null
      BY DEF OthersUnlinked
    <3>1. m \in Node /\ m # n /\ m \notin NodesOf(s) /\ m # s[Len(s)]
      BY <1>2, <1>0, <2>0 DEF NodesOf
    <3>2. l.next[m] = Null /\ l.prev[m] = Null
      BY <3>1 DEF QueueState, OthersUnlinked
    <3>3. l.next \in [Node -> Pointer] /\ l.prev \in [Node -> Pointer]
      BY DEF QueueState, LinkType
    <3> QED BY <3>1, <3>2, <3>3, <2>1
  <2> QED BY <2>2, <2>5, <2>6, <1>0 DEF QueueState
<1> QED BY <1>4, <1>5

\* A pop takes the first node of a queue that is not empty.
LEMMA PopTakesFirst ==
  ASSUME NEW q, NEW l, NEW s, QueueState(q, l, s), q.head # Null
  PROVE  /\ s # << >>
         /\ q.head = Head(s)
         /\ QueueState(Pop(q, l).q, Pop(q, l).l, Tail(s))
<1> DEFINE r == Pop(q, l)
           t == Tail(s)
<1>0. /\ s # << >> /\ Len(s) \in Nat /\ Len(s) >= 1
      /\ \A i \in 1..Len(s) : s[i] \in Node /\ s[i] # Null
      /\ q.head = s[1] /\ q.tail = s[Len(s)] /\ Head(s) = s[1]
      /\ t \in Seq(Node) /\ Len(t) = Len(s) - 1
      /\ \A i \in 1..Len(t) : t[i] = s[i + 1]
  BY NullAssumption DEF QueueState, Represents
<1>1. /\ Distinct(t)
      /\ \A i \in 1..Len(t) : t[i] # s[1]
      /\ NodesOf(t) = NodesOf(s) \ {s[1]}
  <2>1. \A i, j \in 1..Len(s) : s[i] = s[j] => i = j
    BY DEF QueueState, Represents, Distinct
  <2>2. \A i \in 1..Len(t) : i + 1 \in 1..Len(s) /\ i + 1 # 1
    BY <1>0
  <2>3. Distinct(t) /\ \A i \in 1..Len(t) : t[i] # s[1]
    BY <1>0, <2>1, <2>2 DEF Distinct
  <2>4. \A i \in 1..Len(s) : i = 1 \/ (i - 1 \in 1..Len(t) /\ t[i - 1] = s[i])
    BY <1>0
  <2>5. s \in Seq(Node) /\ t \in Seq(Node)
    BY <1>0 DEF QueueState
  <2>6. DOMAIN s = 1..Len(s) /\ DOMAIN t = 1..Len(t)
    BY <2>5, LenProperties
  <2>7. \A i \in 1..Len(s) : s[i] # s[1] => s[i] \in NodesOf(t)
    BY <2>4, <2>6 DEF NodesOf
  <2>8. \A i \in 1..Len(t) : t[i] \in NodesOf(s)
    BY <1>0, <2>2, <2>6 DEF NodesOf
  <2>9. NodesOf(t) = NodesOf(s) \ {s[1]}
    BY <2>3, <2>6, <2>7, <2>8 DEF NodesOf
  <2> QED BY <2>3, <2>9
<1>2. /\ l.next[s[1]] = IF Len(s) = 1 THEN Null ELSE s[2]
      /\ l.prev[s[1]] = Null
      /\ l.next \in [Node -> Pointer] /\ l.prev \in [Node -> Pointer]
      /\ q = [head |-> q.head, tail |-> q.tail] /\ q.tail \in Pointer
  <2>1. 1 \in 1..Len(s)
    BY <1>0
  <2>2. l.next[s[1]] = NextInSeq(s, 1) /\ l.prev[s[1]] = PrevInSeq(s, 1)
    BY <2>1 DEF QueueState, Represents
  <2>3. NextInSeq(s, 1) = (IF Len(s) = 1 THEN Null ELSE s[2]) /\ PrevInSeq(s, 1) = Null
    BY <1>0 DEF NextInSeq, PrevInSeq
  <2>4. l.next \in [Node -> Pointer] /\ l.prev \in [Node -> Pointer]
    BY DEF QueueState, LinkType
  <2>5. q = [head |-> q.head, tail |-> q.tail] /\ q.tail \in Pointer
    BY DEF QueueState, QueueType
  <2> QED BY <2>2, <2>3, <2>4, <2>5
<1>3. CASE Len(s) = 1
  <2>1. r.q.head = Null /\ r.q.tail = q.tail /\ r.q \in QueueType
        /\ r.l = [next |-> [l.next EXCEPT ![s[1]] = Null], prev |-> l.prev]
    BY <1>0, <1>2, <1>3 DEF Pop, QueueType, Pointer
  <2>2. t = << >>
    <3>1. t \in Seq(Node) /\ Len(t) = 0
      BY <1>0, <1>3
    <3> HIDE DEF t
    <3> QED BY <3>1, EmptyIffNoLength
  <2>3. OthersUnlinked(r.l, t)
    BY <2>1, <2>2, <1>0, <1>1, <1>2 DEF QueueState, OthersUnlinked
  <2> QED BY <2>1, <2>2, <2>3, <1>0, <1>1, <1>2
          DEF QueueState, LinkType, Represents, Pointer
<1>4. CASE Len(s) # 1
  <2>0. /\ Len(s) >= 2 /\ s[2] \in Node /\ s[2] # Null
        /\ t # << >> /\ t[1] = s[2] /\ t[Len(t)] = s[Len(s)] /\ Len(t) \in Nat
    <3>1. Len(s) >= 2 /\ 2 \in 1..Len(s) /\ 1 \in 1..Len(t) /\ Len(t) \in 1..Len(t)
      BY <1>0, <1>4
    <3>2. t # << >>
      BY <3>1, <1>0, EmptyIffNoLength
    <3> QED BY <1>0, <3>1, <3>2
  <2>1. /\ r.q.head = s[2] /\ r.q.tail = q.tail /\ r.q \in QueueType
        /\ r.l = [next |-> [l.next EXCEPT ![s[1]] = Null],
                  prev |-> [l.prev EXCEPT ![s[2]] = Null]]
    BY <1>0, <1>2, <2>0, <1>4 DEF Pop, QueueType, Pointer
  <2>2. r.l \in LinkType
    BY <2>0, <2>1, <1>0, <1>2 DEF LinkType, Pointer
  <2>3. \A i \in 1..Len(t) : r.l.next[t[i]] = NextInSeq(t, i)
    <3> SUFFICES ASSUME NEW i \in 1..Len(t) PROVE r.l.next[t[i]] = NextInSeq(t, i)
      OBVIOUS
    <3>1. i + 1 \in 1..Len(s) /\ t[i] = s[i + 1] /\ t[i] # s[1] /\ t[i] \in Node
      BY <1>0, <1>1
    <3>2. l.next[s[i + 1]] = NextInSeq(s, i + 1)
      BY <3>1 DEF QueueState, Represents
    <3>3. NextInSeq(s, i + 1) = NextInSeq(t, i)
      <4>1. Len(t) \in Nat /\ Len(s) = Len(t) + 1 /\ i \in Nat
        BY <1>0
      <4>2. CASE i = Len(t)
        BY <4>1, <4>2 DEF NextInSeq
      <4>3. CASE i # Len(t)
        <5>1. i + 1 \in 1..Len(t) /\ i + 1 # Len(s)
          BY <4>1, <4>3
        <5>2. t[i + 1] = s[(i + 1) + 1]
          BY <5>1, <1>0
        <5> QED
          BY <5>1, <5>2, <4>1, <4>3 DEF NextInSeq
      <4> QED
        BY <4>2, <4>3
    <3> QED BY <3>1, <3>2, <3>3, <2>1, <1>2
  <2>4. \A i \in 1..Len(t) : r.l.prev[t[i]] = PrevInSeq(t, i)
    <3> SUFFICES ASSUME NEW i \in 1..Len(t) PROVE r.l.prev[t[i]] = PrevInSeq(t, i)
      OBVIOUS
    <3>1. i + 1 \in 1..Len(s) /\ t[i] = s[i + 1] /\ t[i] \in Node
      BY <1>0
    <3>2. l.prev[s[i + 1]] = s[i]
      BY <3>1, <1>0 DEF QueueState, Represents, PrevInSeq
    <3>3. CASE i = 1
      BY <3>1, <3>3, <2>1, <1>2 DEF PrevInSeq
    <3>4. CASE i # 1
      <4>1. s[i + 1] # s[2] /\ t[i - 1] = s[i]
        BY <3>1, <3>4, <1>0, <2>0 DEF QueueState, Represents, Distinct
      <4> QED BY <3>1, <3>2, <3>4, <4>1, <2>1, <1>2 DEF PrevInSeq
    <3> QED BY <3>3, <3>4
  <2>5. OthersUnlinked(r.l, t)
    <3> SUFFICES ASSUME NEW m \in Node \ NodesOf(t)
                 PROVE  r.l.next[m] = Null /\ r.l.prev[m] = Null
      BY DEF OthersUnlinked
    <3>1. m = s[1] \/ m \notin NodesOf(s)
      BY <1>1
    <3>2. m = s[1] \/ (l.next[m] = Null /\ l.prev[m] = Null)
      BY <3>1 DEF QueueState, OthersUnlinked
    <3> QED BY <3>2, <2>1, <1>2
  <2> QED BY <1>0, <1>1, <2>0, <2>1, <2>2, <2>3, <2>4, <2>5
          DEF QueueState, Represents
<1> QED BY <1>3, <1>4

\* Leaving out position i keeps the other elements and their order.
LEMMA WithoutProperties ==
  ASSUME NEW s \in Seq(Node), NEW i \in 1..Len(s), Distinct(s)
  PROVE  LET t == Without(s, i)
         IN /\ t \in Seq(Node)
            /\ Len(t) = Len(s) - 1
            /\ \A j \in 1..Len(t) : t[j] = IF j < i THEN s[j] ELSE s[j + 1]
            /\ Distinct(t)
            /\ NodesOf(t) = NodesOf(s) \ {s[i]}
<1> DEFINE t == Without(s, i)
<1>1. Len(s) \in Nat /\ Len(s) >= 1 /\ DOMAIN s = 1..Len(s)
      /\ \A j \in 1..Len(s) : s[j] \in Node
  OBVIOUS
<1>2. Len(s) - 1 \in Nat
  BY <1>1
<1>3. t = [j \in 1..(Len(s) - 1) |-> IF j < i THEN s[j] ELSE s[j + 1]]
  BY DEF Without
<1>4. \A j \in 1..(Len(s) - 1) : (IF j < i THEN s[j] ELSE s[j + 1]) \in Node
  BY <1>1
<1>5. t \in Seq(Node) /\ Len(t) = Len(s) - 1 /\ DOMAIN t = 1..Len(t)
      /\ \A j \in 1..Len(t) : t[j] = IF j < i THEN s[j] ELSE s[j + 1]
  <2>1. t \in [1..(Len(s) - 1) -> Node]
    BY <1>3, <1>4
  <2>2. t \in Seq(Node)
    BY <2>1, <1>2, SeqDef
  <2>3. DOMAIN t = 1..(Len(s) - 1)
    BY <1>3
  <2> HIDE DEF t
  <2>4. Len(t) = Len(s) - 1
    BY <2>2, <2>3, <1>2, LenProperties
  <2> QED BY <2>2, <2>3, <2>4, <1>3
<1> HIDE DEF t
<1>6. Distinct(t)
  <2> SUFFICES ASSUME NEW j \in 1..Len(t), NEW k \in 1..Len(t), t[j] = t[k]
               PROVE  j = k
    BY <1>5 DEF Distinct
  <2>1. j \in 1..Len(s) /\ j + 1 \in 1..Len(s) /\ k \in 1..Len(s) /\ k + 1 \in 1..Len(s)
    BY <1>1, <1>5
  <2>2. \A x, y \in 1..Len(s) : s[x] = s[y] => x = y
    BY <1>1 DEF Distinct
  <2> QED BY <2>1, <2>2, <1>5
<1>7. NodesOf(t) = NodesOf(s) \ {s[i]}
  <2>1. ASSUME NEW j \in 1..Len(t)
        PROVE  t[j] \in NodesOf(s) /\ t[j] # s[i]
    <3>1. j \in 1..Len(s) /\ j + 1 \in 1..Len(s)
      BY <1>1, <1>5
    <3>2. \A x \in 1..Len(s) : s[x] \in NodesOf(s) /\ (s[x] = s[i] => x = i)
      BY <1>1 DEF Distinct, NodesOf
    <3> QED BY <3>1, <3>2, <1>5
  <2>2. ASSUME NEW k \in 1..Len(s), s[k] # s[i]
        PROVE  s[k] \in NodesOf(t)
    <3>1. CASE k < i
      <4>1. k \in 1..Len(t) /\ t[k] = s[k]
        BY <3>1, <1>1, <1>5
      <4> QED BY <4>1, <1>5 DEF NodesOf
    <3>2. CASE k > i
      <4>1. k - 1 \in 1..Len(t) /\ t[k - 1] = s[k]
        BY <3>2, <1>1, <1>5
      <4> QED BY <4>1, <1>5 DEF NodesOf
    <3> QED BY <2>2, <3>1, <3>2
  <2> QED BY <2>1, <2>2, <1>1, <1>5 DEF NodesOf
<1> QED BY <1>5, <1>6, <1>7 DEF t

\* A removal unlinks the node wherever it is; the queue's own two pointers
\* are right after it at an end and in a queue of three.
LEMMA RemoveTakesOut ==
  ASSUME NEW q, NEW l, NEW s, QueueState(q, l, s),
         NEW i \in 1..Len(s), RemovablePosition(s, i)
  PROVE  QueueState(Remove(q, l, s[i]).q, Remove(q, l, s[i]).l, Without(s, i))
<1> DEFINE n == s[i]
           p == PrevInSeq(s, i)
           x == NextInSeq(s, i)
           r == Remove(q, l, n)
           t == Without(s, i)
<1>0. /\ s \in Seq(Node) /\ Len(s) \in Nat /\ Len(s) >= 1
      /\ \A j \in 1..Len(s) : s[j] \in Node /\ s[j] # Null
      /\ \A j, k \in 1..Len(s) : s[j] = s[k] => j = k
      /\ \A j \in 1..Len(s) : l.next[s[j]] = NextInSeq(s, j) /\ l.prev[s[j]] = PrevInSeq(s, j)
      /\ l.next \in [Node -> Pointer] /\ l.prev \in [Node -> Pointer]
  BY NullAssumption DEF QueueState, Represents, Distinct, LinkType
<1>1. /\ t \in Seq(Node)
      /\ Len(t) = Len(s) - 1
      /\ \A j \in 1..Len(t) : t[j] = IF j < i THEN s[j] ELSE s[j + 1]
      /\ Distinct(t)
      /\ NodesOf(t) = NodesOf(s) \ {n}
  BY <1>0, WithoutProperties DEF QueueState, Represents
<1>2. /\ p = IF i = 1 THEN Null ELSE s[i - 1]
      /\ x = IF i = Len(s) THEN Null ELSE s[i + 1]
      /\ i # 1 => i - 1 \in 1..Len(s) /\ p \in Node /\ p # Null
      /\ i # Len(s) => i + 1 \in 1..Len(s) /\ x \in Node /\ x # Null
      /\ p \in Pointer /\ x \in Pointer
      /\ l.prev[n] = p /\ l.next[n] = x /\ n \in Node
  BY <1>0 DEF PrevInSeq, NextInSeq, Pointer
<1>3. /\ r.l.next = [(IF p = Null THEN l.next ELSE [l.next EXCEPT ![p] = x])
                      EXCEPT ![n] = Null]
      /\ r.l.prev = [(IF x = Null THEN l.prev ELSE [l.prev EXCEPT ![x] = p])
                      EXCEPT ![n] = Null]
      /\ r.q.head = IF x # Null THEN (IF p # Null THEN p ELSE x)
                    ELSE IF p # Null THEN q.head ELSE Null
      /\ r.q.tail = IF p # Null THEN (IF x # Null THEN x ELSE p)
                    ELSE IF x # Null THEN q.tail ELSE Null
      /\ r.q = [head |-> r.q.head, tail |-> r.q.tail]
      /\ r.l = [next |-> r.l.next, prev |-> r.l.prev]
  BY <1>2 DEF Remove
<1> HIDE DEF n, p, x, r, t
<1>4. \A m \in Node : /\ m = n => r.l.next[m] = Null /\ r.l.prev[m] = Null
                      /\ m # n /\ m = p => r.l.next[m] = x
                      /\ m # n /\ m # p => r.l.next[m] = l.next[m]
                      /\ m # n /\ m = x => r.l.prev[m] = p
                      /\ m # n /\ m # x => r.l.prev[m] = l.prev[m]
  BY <1>0, <1>2, <1>3, NullAssumption
<1>5. \A j \in 1..Len(t) : r.l.next[t[j]] = NextInSeq(t, j)
  <2> SUFFICES ASSUME NEW j \in 1..Len(t) PROVE r.l.next[t[j]] = NextInSeq(t, j)
    OBVIOUS
  <2>1. /\ j \in 1..Len(s) /\ j + 1 \in 1..Len(s) /\ n = s[i]
        /\ j = Len(t) => j + 1 = Len(s)
        /\ j # Len(t) => j + 1 \in 1..Len(t) /\ j + 2 \in 1..Len(s)
    BY <1>0, <1>1 DEF n
  <2>2. CASE j + 1 < i
    <3>1. t[j] = s[j] /\ s[j] # n /\ s[j] # p /\ l.next[s[j]] = s[j + 1]
      <4>1. i # 1 /\ i - 1 \in 1..Len(s) /\ p = s[i - 1] /\ j # i - 1 /\ j # i /\ j # Len(s)
        BY <2>1, <2>2, <1>0, <1>1, <1>2
      <4>2. t[j] = s[j] /\ s[j] # n /\ s[j] # p
        BY <2>1, <2>2, <4>1, <1>0, <1>1
      <4>3. l.next[s[j]] = s[j + 1]
        BY <2>1, <4>1, <1>0 DEF NextInSeq
      <4> QED BY <4>2, <4>3
    <3>2. j # Len(t) /\ t[j + 1] = s[j + 1]
      BY <2>1, <2>2, <1>0, <1>1
    <3> QED BY <2>1, <3>1, <3>2, <1>0, <1>4 DEF NextInSeq
  <2>3. CASE j + 1 = i
    <3>1. t[j] = p /\ p \in Node /\ p # n /\ r.l.next[p] = x
      BY <2>1, <2>3, <1>0, <1>1, <1>2, <1>4
    <3>2. x = NextInSeq(t, j)
      <4>1. CASE j = Len(t)
        BY <2>1, <2>3, <4>1, <1>2 DEF NextInSeq
      <4>2. CASE j # Len(t)
        <5>1. i # Len(s) /\ i \in 1..Len(t) /\ t[i] = s[i + 1]
          BY <2>1, <2>3, <4>2, <1>0, <1>1
        <5> QED BY <2>3, <4>2, <5>1, <1>2 DEF NextInSeq
      <4> QED BY <4>1, <4>2
    <3> QED BY <3>1, <3>2
  <2>4. CASE j >= i
    <3>1. t[j] = s[j + 1] /\ s[j + 1] # n /\ s[j + 1] # p
      BY <2>1, <2>4, <1>0, <1>1, <1>2, NullAssumption
    <3>2. NextInSeq(t, j) = NextInSeq(s, j + 1)
      BY <2>1, <2>4, <1>0, <1>1 DEF NextInSeq
    <3> QED BY <2>1, <3>1, <3>2, <1>0, <1>4
  <2> QED BY <2>1, <2>2, <2>3, <2>4
<1>6. \A j \in 1..Len(t) : r.l.prev[t[j]] = PrevInSeq(t, j)
  <2> SUFFICES ASSUME NEW j \in 1..Len(t) PROVE r.l.prev[t[j]] = PrevInSeq(t, j)
    OBVIOUS
  <2>1. /\ j \in 1..Len(s) /\ j + 1 \in 1..Len(s) /\ n = s[i]
        /\ j # 1 => j - 1 \in 1..Len(t) /\ j - 1 \in 1..Len(s)
    BY <1>0, <1>1 DEF n
  <2>2. CASE j < i
    <3>1. t[j] = s[j] /\ s[j] # n /\ s[j] # x /\ l.prev[s[j]] = PrevInSeq(s, j)
      BY <2>1, <2>2, <1>0, <1>1, <1>2
    <3>2. PrevInSeq(t, j) = PrevInSeq(s, j)
      BY <2>1, <2>2, <1>0, <1>1 DEF PrevInSeq
    <3> QED BY <2>1, <3>1, <3>2, <1>0, <1>4
  <2>3. CASE j = i
    <3>1. t[j] = x /\ x \in Node /\ x # n /\ r.l.prev[x] = p
      BY <2>1, <2>3, <1>0, <1>1, <1>2, <1>4
    <3>2. p = PrevInSeq(t, j)
      BY <2>1, <2>3, <1>0, <1>1, <1>2 DEF PrevInSeq
    <3> QED BY <3>1, <3>2
  <2>4. CASE j > i
    <3>1. t[j] = s[j + 1] /\ s[j + 1] # n /\ s[j + 1] # x /\ l.prev[s[j + 1]] = s[j]
      BY <2>1, <2>4, <1>0, <1>1, <1>2 DEF PrevInSeq
    <3>2. j # 1 /\ PrevInSeq(t, j) = s[j]
      BY <2>1, <2>4, <1>0, <1>1 DEF PrevInSeq
    <3> QED BY <2>1, <3>1, <3>2, <1>0, <1>4
  <2> QED BY <2>1, <2>2, <2>3, <2>4
<1>7. IF t = << >> THEN r.q.head = Null ELSE r.q.head = t[1] /\ r.q.tail = t[Len(t)]
  <2>1. t = << >> <=> Len(s) = 1
    BY <1>0, <1>1, EmptyIffNoLength
  <2>2. q.head = s[1] /\ q.tail = s[Len(s)]
    BY <1>0, EmptyIffNoLength DEF QueueState, Represents
  <2>3. i = 1 \/ i = Len(s) \/ (i = 2 /\ Len(s) = 3)
    BY <1>0 DEF RemovablePosition
  <2>4. Len(s) # 1 => 1 \in 1..Len(t) /\ Len(t) \in 1..Len(t)
    BY <1>0, <1>1
  <2>5. CASE Len(s) = 1
    BY <2>1, <2>5, <1>2, <1>3
  <2>6. CASE Len(s) # 1 /\ i = 1
    BY <2>1, <2>2, <2>4, <2>6, <1>0, <1>1, <1>2, <1>3
  <2>7. CASE Len(s) # 1 /\ i = Len(s)
    BY <2>1, <2>2, <2>4, <2>7, <1>0, <1>1, <1>2, <1>3
  <2>8. CASE i = 2 /\ Len(s) = 3
    BY <2>1, <2>2, <2>4, <2>8, <1>0, <1>1, <1>2, <1>3
  <2> QED BY <2>3, <2>5, <2>6, <2>7, <2>8
<1>8. OthersUnlinked(r.l, t)
  <2> SUFFICES ASSUME NEW m \in Node \ NodesOf(t)
               PROVE  r.l.next[m] = Null /\ r.l.prev[m] = Null
    BY DEF OthersUnlinked
  <2>1. CASE m = n
    BY <2>1, <1>4
  <2>2. CASE m # n
    <3>1. m \notin NodesOf(s)
      BY <2>2, <1>1
    <3>2. m # p /\ m # x
      BY <3>1, <1>0, <1>2, NullAssumption DEF NodesOf
    <3>3. l.next[m] = Null /\ l.prev[m] = Null
      BY <3>1 DEF QueueState, OthersUnlinked
    <3> QED BY <2>2, <3>2, <3>3, <1>4
  <2> QED BY <2>1, <2>2
<1>9. r.q \in QueueType /\ r.l \in LinkType
  <2>1. q.head \in Pointer /\ q.tail \in Pointer
    BY DEF QueueState, QueueType
  <2>2. r.q.head \in Pointer /\ r.q.tail \in Pointer
    BY <2>1, <1>2, <1>3 DEF Pointer
  <2>3. r.l.next \in [Node -> Pointer] /\ r.l.prev \in [Node -> Pointer]
    BY <1>0, <1>2, <1>3 DEF Pointer
  <2> QED BY <2>2, <2>3, <1>3 DEF QueueType, LinkType
<1> QED BY <1>1, <1>5, <1>6, <1>7, <1>8, <1>9 DEF QueueState, Represents, n, r, t

\* Anywhere else the queue's pointers are wrong after the removal: the head
\* skips the nodes before the predecessor or the tail those after the
\* successor.
LEMMA RemoveElsewhereLosesNodes ==
  ASSUME NEW q, NEW l, NEW s, QueueState(q, l, s),
         NEW i \in 1..Len(s), ~ RemovablePosition(s, i)
  PROVE  ~ Represents(Remove(q, l, s[i]).q, Remove(q, l, s[i]).l, Without(s, i))
<1> DEFINE r == Remove(q, l, s[i])
           t == Without(s, i)
<1>0. /\ s \in Seq(Node) /\ Len(s) \in Nat /\ Len(s) >= 1
      /\ \A j \in 1..Len(s) : s[j] \in Node /\ s[j] # Null
      /\ \A j, k \in 1..Len(s) : s[j] = s[k] => j = k
      /\ \A j \in 1..Len(s) : l.next[s[j]] = NextInSeq(s, j) /\ l.prev[s[j]] = PrevInSeq(s, j)
  BY NullAssumption DEF QueueState, Represents, Distinct
<1>1. /\ t \in Seq(Node)
      /\ Len(t) = Len(s) - 1
      /\ \A j \in 1..Len(t) : t[j] = IF j < i THEN s[j] ELSE s[j + 1]
  BY <1>0, WithoutProperties DEF QueueState, Represents
<1>2. /\ i # 1 /\ i # Len(s) /\ Len(s) # 3 /\ Len(s) >= 4
      /\ i - 1 \in 1..Len(s) /\ i + 1 \in 1..Len(s)
  <2>1. i # 1 /\ i # Len(s) /\ Len(s) # 3
    BY DEF RemovablePosition
  <2>2. Len(s) \in Nat
    BY <1>0
  <2>3. \A k \in Nat : \A j \in 1..k : j # 1 /\ j # k /\ k # 3
                      => k >= 4 /\ j - 1 \in 1..k /\ j + 1 \in 1..k
    OBVIOUS
  <2> QED BY <2>1, <2>2, <2>3
<1>3. r.q.head = s[i - 1] /\ r.q.tail = s[i + 1]
  BY <1>0, <1>2 DEF Remove, NextInSeq, PrevInSeq
<1>4. t[1] = s[1] /\ t[Len(t)] = s[Len(s)] /\ Len(t) # 0
  BY <1>0, <1>1, <1>2
<1> HIDE DEF r, t
<1>5. t # << >>
  BY <1>1, <1>4, EmptyIffNoLength
<1>6. i - 1 # 1 \/ i + 1 # Len(s)
  BY <1>2
<1>7. s[i - 1] # s[1] \/ s[i + 1] # s[Len(s)]
  BY <1>0, <1>2, <1>6
<1>8. ~ (r.q.head = t[1] /\ r.q.tail = t[Len(t)])
  BY <1>3, <1>4, <1>7
<1> QED BY <1>5, <1>8 DEF Represents, r, t

-----------------------------------------------------------------------------
(* Searches *)

\* Every set of naturals that is not empty has a least element.
LEMMA LeastNatural ==
  ASSUME NEW T, T \subseteq Nat, T # {}
  PROVE  \E x \in T : \A y \in T : x <= y
<1> DEFINE R == OpToRel(<, Nat)
<1>1. IsWellFoundedOn(R, Nat)
  BY NatLessThanWellFounded
<1>2. \A x, y \in Nat : y < x => << y, x >> \in R
  BY DEF OpToRel
<1> HIDE DEF R
<1>3. PICK x \in T : \A y \in T : ~ (<< y, x >> \in R)
  BY <1>1, WFMin
<1>4. \A y \in T : x <= y
  <2> SUFFICES ASSUME NEW y \in T PROVE x <= y
    OBVIOUS
  <2>1. x \in Nat /\ y \in Nat
    OBVIOUS
  <2>2. ~ (y < x)
    BY <1>2, <1>3, <2>1
  <2> QED BY <2>1, <2>2
<1> QED BY <1>4

\* A sequence of different nodes is not longer than there are nodes.
LEMMA LengthBounded ==
  ASSUME IsFiniteSet(Node), NEW s \in Seq(Node), Distinct(s)
  PROVE  /\ Cardinality(Node) \in Nat
         /\ Len(s) \in 0..Cardinality(Node)
<1>1. DOMAIN s = 1..Len(s) /\ Len(s) \in Nat /\ s \in [1..Len(s) -> Node]
  OBVIOUS
<1>2. s \in Injection(1..Len(s), Node)
  <2>1. \A i, j \in 1..Len(s) : s[i] = s[j] => i = j
    BY <1>1 DEF Distinct
  <2> QED BY <1>1, <2>1, Fun_IsInj
<1>3. Cardinality(Node) \in Nat
  BY FS_CardinalityType
<1>4. Cardinality(1..Len(s)) <= Cardinality(Node)
  BY <1>2, FS_Injection
<1>5. Cardinality(1..Len(s)) = Len(s)
  BY <1>1, FS_Interval
<1> QED BY <1>1, <1>3, <1>4, <1>5

\* The node behind n, for a walk that stays at NULL.
Behind(l) == [n \in Pointer |-> IF n = Null THEN Null ELSE l.next[n]]

\* The k-th node of s, or NULL behind its end.
Nth(s, k) == IF k <= Len(s) THEN s[k] ELSE Null

\* A walk gets from one node of the sequence the queue holds to the next.
LEMMA NthFollows ==
  ASSUME NEW q, NEW l, NEW s \in Seq(Node), Represents(q, l, s), NEW k \in Nat \ {0}
  PROVE  Nth(s, k) = IF k = 1 THEN q.head ELSE Behind(l)[Nth(s, k - 1)]
<1>0. Len(s) \in Nat /\ DOMAIN s = 1..Len(s) /\ \A i \in 1..Len(s) : s[i] \in Node /\ s[i] # Null
  BY NullAssumption
<1>1. CASE k = 1
  BY <1>0, <1>1, EmptyIffNoLength DEF Represents, Nth
<1>2. CASE k # 1 /\ k - 1 <= Len(s)
  <2>1. k - 1 \in 1..Len(s)
    BY <1>0, <1>2
  <2>2. Nth(s, k - 1) = s[k - 1] /\ Behind(l)[s[k - 1]] = l.next[s[k - 1]]
    BY <1>0, <2>1 DEF Nth, Behind, Pointer
  <2>3. l.next[s[k - 1]] = NextInSeq(s, k - 1)
    BY <2>1 DEF Represents
  <2>4. NextInSeq(s, k - 1) = Nth(s, k)
    BY <1>0, <2>1 DEF NextInSeq, Nth
  <2> QED BY <1>2, <2>2, <2>3, <2>4
<1>3. CASE k # 1 /\ k - 1 > Len(s)
  <2>1. Nth(s, k - 1) = Null /\ Nth(s, k) = Null
    BY <1>0, <1>3 DEF Nth
  <2>2. Behind(l)[Null] = Null
    BY DEF Behind, Pointer
  <2> QED BY <1>3, <2>1, <2>2
<1> QED BY <1>0, <1>1, <1>2, <1>3

\* A search visits exactly the sequence that the pointers hold.
LEMMA WalkFollows ==
  ASSUME IsFiniteSet(Node), NEW q, NEW l, NEW s \in Seq(Node), Represents(q, l, s)
  PROVE  Walk(q, l) = s
<1> DEFINE N == Cardinality(Node)
           At(g) == g = [k \in 1..N |-> IF k = 1 THEN q.head ELSE Behind(l)[g[k - 1]]]
           at == CHOOSE g : At(g)
           f == [k \in 1..N |-> Nth(s, k)]
<1>0. N \in Nat /\ Len(s) \in 0..N
  BY LengthBounded DEF Represents
<1> HIDE DEF N
<1>1. Walk(q, l) = SubSeq(at, 1, Cardinality({k \in 1..N : at[k] # Null}))
  BY DEF Walk, Behind, N
<1>2. \A k \in 1..N : Nth(s, k) = IF k = 1 THEN q.head ELSE Behind(l)[Nth(s, k - 1)]
  BY <1>0, NthFollows
<1>3. At(f)
  BY <1>0, <1>2
<1>4. At(at)
  BY <1>3
<1> HIDE DEF at
<1>5. \A k \in 1..N : at[k] = Nth(s, k)
  <2> DEFINE T == {k \in 1..N : at[k] # Nth(s, k)}
  <2>1. SUFFICES ASSUME T # {} PROVE FALSE
    OBVIOUS
  <2>2. PICK k \in T : \A j \in T : k <= j
    <3>1. T \subseteq Nat
      BY <1>0
    <3> HIDE DEF T
    <3> QED BY <2>1, <3>1, LeastNatural
  <2>3. at[k] = IF k = 1 THEN q.head ELSE Behind(l)[at[k - 1]]
    BY <1>4
  <2>4. k # 1 => at[k - 1] = Nth(s, k - 1)
    BY <1>0, <2>2
  <2> QED BY <1>2, <2>2, <2>3, <2>4
<1>6. at = f
  BY <1>4, <1>5
<1>7. \A k \in 1..Len(s) : s[k] \in Node /\ s[k] # Null
  BY NullAssumption
<1>8. {k \in 1..N : at[k] # Null} = 1..Len(s)
  BY <1>0, <1>5, <1>7 DEF Nth
<1>9. Cardinality(1..Len(s)) = Len(s)
  <2>1. Len(s) \in Nat /\ 1 \in Int /\ Len(s) \in Int
    OBVIOUS
  <2>2. Cardinality(1..Len(s)) = IF 1 > Len(s) THEN 0 ELSE Len(s) - 1 + 1
    BY ONLY <2>1, FS_Interval
  <2> QED BY <2>1, <2>2
<1>10. SubSeq(f, 1, Len(s)) = s
  <2>1. f \in Seq(Pointer) /\ Len(f) = N
    BY <1>0, <1>7 DEF Nth, Pointer
  <2>2. \A k \in 1..Len(s) : f[k] = s[k]
    BY <1>0 DEF Nth
  <2> HIDE DEF f
  <2>3. SubSeq(f, 1, Len(s)) \in Seq(Pointer) /\ Len(SubSeq(f, 1, Len(s))) = Len(s)
        /\ \A j \in 1..Len(s) : SubSeq(f, 1, Len(s))[j] = f[j]
    BY <1>0, <2>1
  <2>4. s \in Seq(Pointer)
    BY <1>7 DEF Pointer
  <2> QED BY <2>2, <2>3, <2>4, SeqEqual
<1> QED BY <1>1, <1>6, <1>8, <1>9, <1>10

-----------------------------------------------------------------------------
(* Two queues over one pair of links, as the ready and the wait queue are.  *)

\* The pointers hold s; the links of other nodes are not looked at.
Linked(q, l, s) ==
  /\ q \in QueueType
  /\ l \in LinkType
  /\ s \in Seq(Node)
  /\ Represents(q, l, s)

\* Queue a holds s and queue b holds u, the nodes in P are somewhere else, and
\* all others are ready to be pushed.
TwoQueues(a, b, l, s, u, P) ==
  /\ Linked(a, l, s)
  /\ Linked(b, l, u)
  /\ NodesOf(s) \cap NodesOf(u) = {}
  /\ \A n \in Node \ (NodesOf(s) \cup NodesOf(u) \cup P) :
       l.next[n] = Null /\ l.prev[n] = Null
  /\ P \cap (NodesOf(s) \cup NodesOf(u)) = {}

\* The links of the nodes in S, with everybody else unlinked.
Mask(l, S) == [next |-> [n \in Node |-> IF n \in S THEN l.next[n] ELSE Null],
               prev |-> [n \in Node |-> IF n \in S THEN l.prev[n] ELSE Null]]

\* The nodes in S are linked the same way.
SameLinks(l, k, S) == \A n \in S : l.next[n] = k.next[n] /\ l.prev[n] = k.prev[n]

\* Only the links of its own nodes matter to a queue ...
LEMMA LinkedBySame ==
  ASSUME NEW q, NEW l, NEW k \in LinkType, NEW s, Linked(q, l, s), SameLinks(k, l, NodesOf(s))
  PROVE  Linked(q, k, s)
<1>1. DOMAIN s = 1..Len(s)
  BY DEF Linked
<1>2. \A i \in 1..Len(s) : s[i] \in NodesOf(s)
  BY <1>1 DEF NodesOf
<1> QED BY <1>2 DEF Linked, Represents, SameLinks

\* ... so that one can look at it with everybody else unlinked.
LEMMA MaskLinked ==
  ASSUME NEW q, NEW l, NEW s, Linked(q, l, s)
  PROVE  /\ QueueState(q, Mask(l, NodesOf(s)), s)
         /\ SameLinks(Mask(l, NodesOf(s)), l, NodesOf(s))
<1>1. NodesOf(s) \subseteq Node /\ DOMAIN s = 1..Len(s)
  BY DEF Linked, NodesOf
<1>2. Mask(l, NodesOf(s)) \in LinkType
  BY DEF Mask, LinkType, Pointer, Linked
<1>3. SameLinks(Mask(l, NodesOf(s)), l, NodesOf(s))
  BY <1>1 DEF Mask, SameLinks
<1>4. OthersUnlinked(Mask(l, NodesOf(s)), s)
  BY DEF OthersUnlinked, Mask
<1>5. Linked(q, Mask(l, NodesOf(s)), s)
  BY <1>2, <1>3, LinkedBySame
<1> QED BY <1>3, <1>4, <1>5 DEF QueueState, Linked

\* The nodes of a sequence with one more at its end.
LEMMA NodesOfAppend ==
  ASSUME NEW s \in Seq(Node), NEW n \in Node
  PROVE  NodesOf(Append(s, n)) = NodesOf(s) \cup {n}
<1>1. /\ DOMAIN s = 1..Len(s) /\ DOMAIN Append(s, n) = 1..(Len(s) + 1) /\ Len(s) \in Nat
      /\ Append(s, n)[Len(s) + 1] = n
      /\ \A i \in 1..Len(s) : Append(s, n)[i] = s[i]
  OBVIOUS
<1>2. \A i \in 1..(Len(s) + 1) : i \in 1..Len(s) \/ i = Len(s) + 1
  BY <1>1
<1> QED BY <1>1, <1>2 DEF NodesOf

\* A push of a node that is ready for it leaves the links of all nodes outside
\* the queue alone.
LEMMA PushShared ==
  ASSUME NEW q, NEW l, NEW s, Linked(q, l, s), NEW n \in Node \ NodesOf(s),
         l.next[n] = Null, l.prev[n] = Null
  PROVE  LET r == Push(q, l, n)
         IN /\ Linked(r.q, r.l, Append(s, n))
            /\ SameLinks(r.l, l, Node \ (NodesOf(s) \cup {n}))
<1> DEFINE r == Push(q, l, n)
           m == Mask(l, NodesOf(s))
           x == Push(q, m, n)
<1>1. QueueState(q, m, s) /\ SameLinks(m, l, NodesOf(s))
  BY MaskLinked
<1>2. QueueState(x.q, x.l, Append(s, n))
  BY <1>1, PushAppends
<1>3. NodesOf(s) \subseteq Node /\ q.tail \in Pointer
      /\ (q.head # Null => q.tail \in NodesOf(s))
  <2>1. DOMAIN s = 1..Len(s) /\ Len(s) \in Nat
    BY DEF Linked
  <2>2. s # << >> => Len(s) \in DOMAIN s
    BY <2>1, EmptyIffNoLength DEF Linked
  <2>3. NodesOf(s) \subseteq Node
    BY DEF Linked, NodesOf
  <2> QED BY <2>2, <2>3 DEF NodesOf, Linked, Represents, QueueType
<1>4. l.next \in [Node -> Pointer] /\ l.prev \in [Node -> Pointer]
      /\ m.next \in [Node -> Pointer] /\ m.prev \in [Node -> Pointer]
      /\ m.next[n] = Null /\ m.prev[n] = Null
  BY <1>1 DEF Linked, QueueState, LinkType, Mask
<1> HIDE DEF m
<1>5. /\ r.q = x.q /\ r.l \in LinkType
      /\ SameLinks(r.l, x.l, NodesOf(s) \cup {n})
      /\ SameLinks(r.l, l, Node \ (NodesOf(s) \cup {n}))
  <2>1. CASE q.head = Null
    <3>1. r = [q |-> [head |-> n, tail |-> n], l |-> l]
          /\ x = [q |-> [head |-> n, tail |-> n], l |-> m]
      BY <2>1 DEF Push
    <3> QED BY <3>1, <1>1, <1>4 DEF SameLinks, Linked
  <2>2. CASE q.head # Null
    <3>1. /\ r = [q |-> [q EXCEPT !.tail = n],
                  l |-> [next |-> [l.next EXCEPT ![q.tail] = n],
                         prev |-> [l.prev EXCEPT ![n] = q.tail]]]
          /\ x = [q |-> [q EXCEPT !.tail = n],
                  l |-> [next |-> [m.next EXCEPT ![q.tail] = n],
                         prev |-> [m.prev EXCEPT ![n] = q.tail]]]
      BY <2>2 DEF Push
    <3> HIDE DEF r, x
    <3>2. r.l \in LinkType /\ r.q = x.q
      BY <3>1, <2>2, <1>3, <1>4 DEF LinkType, Pointer
    <3>3. SameLinks(r.l, x.l, NodesOf(s) \cup {n})
      BY <3>1, <2>2, <1>1, <1>3, <1>4 DEF SameLinks
    <3>4. SameLinks(r.l, l, Node \ (NodesOf(s) \cup {n}))
      BY <3>1, <2>2, <1>3, <1>4 DEF SameLinks
    <3> QED BY <3>2, <3>3, <3>4
  <2> QED BY <2>1, <2>2
<1> HIDE DEF r, x
<1>6. Linked(x.q, x.l, Append(s, n)) /\ NodesOf(Append(s, n)) = NodesOf(s) \cup {n}
  BY <1>2, NodesOfAppend DEF QueueState, Linked
<1>7. Linked(r.q, r.l, Append(s, n))
  BY <1>5, <1>6, LinkedBySame
<1> QED BY <1>5, <1>7 DEF r

\* So does a pop; the popped node keeps no links.
LEMMA PopShared ==
  ASSUME NEW q, NEW l, NEW s, Linked(q, l, s), q.head # Null
  PROVE  LET r == Pop(q, l)
         IN /\ s # << >> /\ q.head = Head(s) /\ q.head \in NodesOf(s)
            /\ Linked(r.q, r.l, Tail(s))
            /\ NodesOf(Tail(s)) = NodesOf(s) \ {q.head}
            /\ SameLinks(r.l, l, Node \ NodesOf(s))
            /\ r.l.next[q.head] = Null /\ r.l.prev[q.head] = Null
<1> DEFINE r == Pop(q, l)
           m == Mask(l, NodesOf(s))
           x == Pop(q, m)
           h == q.head
<1>1. QueueState(q, m, s) /\ SameLinks(m, l, NodesOf(s))
  BY MaskLinked
<1>2. s # << >> /\ h = Head(s) /\ QueueState(x.q, x.l, Tail(s))
  BY <1>1, PopTakesFirst
<1>3. /\ h \in NodesOf(s) /\ NodesOf(s) \subseteq Node
      /\ NodesOf(Tail(s)) = NodesOf(s) \ {h}
      /\ l.next[h] \in NodesOf(s) \cup {Null} /\ l.prev[h] = Null
  <2>1. /\ DOMAIN s = 1..Len(s) /\ Len(s) \in Nat /\ Len(s) # 0
        /\ DOMAIN Tail(s) = 1..(Len(s) - 1) /\ h = s[1]
        /\ \A i \in 1..(Len(s) - 1) : Tail(s)[i] = s[i + 1]
    BY <1>2, EmptyIffNoLength DEF Linked
  <2>2. /\ 1 \in 1..Len(s)
        /\ \A i \in 1..Len(s) : i # 1 => i - 1 \in 1..(Len(s) - 1)
        /\ \A i \in 1..(Len(s) - 1) : i + 1 \in 1..Len(s) /\ i + 1 # 1
    BY <2>1
  <2>3. \A i \in 1..Len(s) : i # 1 => Tail(s)[i - 1] = s[i]
    BY <2>1, <2>2
  <2>4. \A i, j \in 1..Len(s) : s[i] = s[j] => i = j
    BY <2>1 DEF Linked, Represents, Distinct
  <2>5. h \in NodesOf(s) /\ NodesOf(s) \subseteq Node
    BY <2>1, <2>2 DEF NodesOf, Linked
  <2>6. NodesOf(Tail(s)) \subseteq NodesOf(s) \ {h}
    BY <2>1, <2>2, <2>4 DEF NodesOf
  <2>7. ASSUME NEW n \in NodesOf(s) \ {h} PROVE n \in NodesOf(Tail(s))
    <3>1. PICK i \in 1..Len(s) : s[i] = n
      BY <2>1 DEF NodesOf
    <3>2. i - 1 \in DOMAIN Tail(s) /\ Tail(s)[i - 1] = n
      BY <2>1, <2>2, <2>3, <3>1
    <3> QED BY <3>2 DEF NodesOf
  <2>8. l.next[h] = NextInSeq(s, 1) /\ l.prev[h] = PrevInSeq(s, 1)
    BY <2>1, <2>2 DEF Linked, Represents
  <2>9. NextInSeq(s, 1) \in NodesOf(s) \cup {Null} /\ PrevInSeq(s, 1) = Null
    <3>1. 1 # Len(s) => 2 \in 1..Len(s)
      BY <2>1
    <3> QED BY <3>1, <2>1 DEF NextInSeq, PrevInSeq, NodesOf
  <2> QED BY <2>5, <2>6, <2>7, <2>8, <2>9
<1>4. l.next \in [Node -> Pointer] /\ l.prev \in [Node -> Pointer]
      /\ m.next \in [Node -> Pointer] /\ m.prev \in [Node -> Pointer]
      /\ m.next[h] = l.next[h] /\ Null \notin Node
  BY <1>1, <1>3, NullAssumption DEF Linked, QueueState, LinkType, SameLinks
<1> HIDE DEF m
<1>5. /\ r.q = x.q /\ r.l \in LinkType
      /\ SameLinks(r.l, x.l, NodesOf(s))
      /\ SameLinks(r.l, l, Node \ NodesOf(s))
      /\ r.l.next[h] = Null /\ r.l.prev[h] = Null
  <2>1. CASE l.next[h] = Null
    <3>1. /\ r = [q |-> [q EXCEPT !.head = Null],
                  l |-> [next |-> [l.next EXCEPT ![h] = Null], prev |-> l.prev]]
          /\ x = [q |-> [q EXCEPT !.head = Null],
                  l |-> [next |-> [m.next EXCEPT ![h] = Null], prev |-> m.prev]]
      BY <2>1, <1>4 DEF Pop
    <3> HIDE DEF r, x
    <3> QED BY <3>1, <1>1, <1>3, <1>4 DEF SameLinks, LinkType, Pointer
  <2>2. CASE l.next[h] # Null
    <3> DEFINE f == l.next[h]
    <3>0. f \in NodesOf(s) /\ f \in Node
      BY <2>2, <1>3
    <3>1. /\ r = [q |-> [q EXCEPT !.head = f],
                  l |-> [next |-> [l.next EXCEPT ![h] = Null], prev |-> [l.prev EXCEPT ![f] = Null]]]
          /\ x = [q |-> [q EXCEPT !.head = f],
                  l |-> [next |-> [m.next EXCEPT ![h] = Null], prev |-> [m.prev EXCEPT ![f] = Null]]]
      BY <2>2, <1>4 DEF Pop
    <3> HIDE DEF r, x, f
    <3> QED BY <3>0, <3>1, <1>1, <1>3, <1>4 DEF SameLinks, LinkType, Pointer
  <2> QED BY <2>1, <2>2
<1> HIDE DEF r, x, h
<1>6. Linked(r.q, r.l, Tail(s))
  <2>1. Linked(x.q, x.l, Tail(s))
    BY <1>2 DEF QueueState, Linked
  <2>2. SameLinks(r.l, x.l, NodesOf(Tail(s)))
    BY <1>3, <1>5 DEF SameLinks
  <2> QED BY <1>5, <2>1, <2>2, LinkedBySame
<1> QED BY <1>2, <1>3, <1>5, <1>6 DEF r, h

\* What is left after n, at position i of the queue, has been taken out.
TakenOut(q, l, s, i, n) ==
  LET r == Remove(q, l, n)
  IN /\ Linked(r.q, r.l, Without(s, i))
     /\ NodesOf(Without(s, i)) = NodesOf(s) \ {n}
     /\ SameLinks(r.l, l, Node \ NodesOf(s))
     /\ r.l.next[n] = Null /\ r.l.prev[n] = Null

\* And so does a removal.
LEMMA RemoveShared ==
  ASSUME NEW q, NEW l, NEW s, Linked(q, l, s),
         NEW i \in 1..Len(s), RemovablePosition(s, i), NEW n, n = s[i]
  PROVE  TakenOut(q, l, s, i, n)
<1> DEFINE r == Remove(q, l, n)
           m == Mask(l, NodesOf(s))
           x == Remove(q, m, n)
           p == l.prev[n]
           f == l.next[n]
<1>1. QueueState(q, m, s) /\ SameLinks(m, l, NodesOf(s))
  BY MaskLinked
<1>2. QueueState(x.q, x.l, Without(s, i))
  BY <1>1, RemoveTakesOut
<1>3. s \in Seq(Node) /\ DOMAIN s = 1..Len(s) /\ Len(s) \in Nat /\ Distinct(s)
  BY DEF Linked, Represents
<1>4. NodesOf(Without(s, i)) = NodesOf(s) \ {n}
  BY <1>3, WithoutProperties
<1>5. /\ n \in NodesOf(s) /\ NodesOf(s) \subseteq Node
      /\ p \in NodesOf(s) \cup {Null} /\ f \in NodesOf(s) \cup {Null}
      /\ p # n /\ f # n
  <2>1. n \in NodesOf(s) /\ NodesOf(s) \subseteq Node
    BY <1>3 DEF NodesOf
  <2>2. p = PrevInSeq(s, i) /\ f = NextInSeq(s, i)
    BY DEF Linked, Represents
  <2>3. /\ i # 1 => i - 1 \in 1..Len(s) /\ i - 1 # i
        /\ i # Len(s) => i + 1 \in 1..Len(s) /\ i + 1 # i
    <3>1. \A k \in Nat : \A j \in 1..k : /\ j # 1 => j - 1 \in 1..k /\ j - 1 # j
                                         /\ j # k => j + 1 \in 1..k /\ j + 1 # j
      OBVIOUS
    <3> QED BY <3>1, <1>3
  <2>4. \A j, k \in 1..Len(s) : s[j] = s[k] => j = k
    BY <1>3 DEF Distinct
  <2> QED BY <2>1, <2>2, <2>3, <2>4, <1>3, NullAssumption DEF PrevInSeq, NextInSeq, NodesOf
<1>6. l.next \in [Node -> Pointer] /\ l.prev \in [Node -> Pointer]
      /\ m.next \in [Node -> Pointer] /\ m.prev \in [Node -> Pointer]
      /\ m.next[n] = f /\ m.prev[n] = p /\ Null \notin Node
  BY <1>1, <1>5, NullAssumption DEF Linked, QueueState, LinkType, SameLinks
<1>7. /\ r.q = x.q
      /\ r.l.next = [(IF p = Null THEN l.next ELSE [l.next EXCEPT ![p] = f]) EXCEPT ![n] = Null]
      /\ r.l.prev = [(IF f = Null THEN l.prev ELSE [l.prev EXCEPT ![f] = p]) EXCEPT ![n] = Null]
      /\ x.l.next = [(IF p = Null THEN m.next ELSE [m.next EXCEPT ![p] = f]) EXCEPT ![n] = Null]
      /\ x.l.prev = [(IF f = Null THEN m.prev ELSE [m.prev EXCEPT ![f] = p]) EXCEPT ![n] = Null]
      /\ r.l = [next |-> r.l.next, prev |-> r.l.prev]
  BY <1>6 DEF Remove
<1> HIDE DEF m, r, x, p, f
<1>8. \A k \in Node :
        /\ k \in NodesOf(s) => r.l.next[k] = x.l.next[k] /\ r.l.prev[k] = x.l.prev[k]
        /\ k \notin NodesOf(s) => r.l.next[k] = l.next[k] /\ r.l.prev[k] = l.prev[k]
        /\ k = n => r.l.next[k] = Null /\ r.l.prev[k] = Null
  BY <1>1, <1>5, <1>6, <1>7 DEF SameLinks
<1>9. r.l \in LinkType
  <2>1. r.l.next \in [Node -> Pointer] /\ r.l.prev \in [Node -> Pointer]
    BY <1>5, <1>6, <1>7 DEF Pointer
  <2> QED BY <2>1, <1>7 DEF LinkType
<1>10. Linked(r.q, r.l, Without(s, i))
  <2>1. Linked(x.q, x.l, Without(s, i))
    BY <1>2 DEF QueueState, Linked
  <2>2. SameLinks(r.l, x.l, NodesOf(Without(s, i)))
    BY <1>4, <1>5, <1>8 DEF SameLinks
  <2> QED BY <1>7, <1>9, <2>1, <2>2, LinkedBySame
<1> QED BY <1>4, <1>5, <1>8, <1>10 DEF SameLinks, TakenOut, r

\* The two queues are alike.
LEMMA TwoQueuesSwap ==
  ASSUME NEW a, NEW b, NEW l, NEW s, NEW u, NEW P, TwoQueues(a, b, l, s, u, P)
  PROVE  TwoQueues(b, a, l, u, s, P)
BY DEF TwoQueues

\* Pushing a node that is in no queue leaves the other queue as it is ...
LEMMA PushKeepsOther ==
  ASSUME NEW a, NEW b, NEW l, NEW s, NEW u, NEW P, TwoQueues(a, b, l, s, u, P),
         NEW n \in Node \ (NodesOf(s) \cup NodesOf(u) \cup P)
  PROVE  LET r == Push(a, l, n)
         IN /\ TwoQueues(r.q, b, r.l, Append(s, n), u, P)
            /\ NodesOf(Append(s, n)) = NodesOf(s) \cup {n}
<1> DEFINE r == Push(a, l, n)
<1>1. /\ Linked(r.q, r.l, Append(s, n))
      /\ SameLinks(r.l, l, Node \ (NodesOf(s) \cup {n}))
      /\ NodesOf(Append(s, n)) = NodesOf(s) \cup {n}
  BY PushShared, NodesOfAppend DEF TwoQueues, Linked
<1>2. NodesOf(u) \subseteq Node
  BY DEF TwoQueues, Linked, NodesOf
<1> HIDE DEF r
<1>3. Linked(b, r.l, u)
  BY <1>1, <1>2, LinkedBySame DEF TwoQueues, Linked, SameLinks
<1>4. TwoQueues(r.q, b, r.l, Append(s, n), u, P)
  BY <1>1, <1>2, <1>3 DEF TwoQueues, SameLinks
<1> QED BY <1>1, <1>4 DEF r

\* ... so does a pop ...
LEMMA PopKeepsOther ==
  ASSUME NEW a, NEW b, NEW l, NEW s, NEW u, NEW P, TwoQueues(a, b, l, s, u, P), a.head # Null
  PROVE  LET r == Pop(a, l)
         IN /\ s # << >> /\ a.head = Head(s) /\ a.head \in NodesOf(s)
            /\ TwoQueues(r.q, b, r.l, Tail(s), u, P)
            /\ NodesOf(Tail(s)) = NodesOf(s) \ {a.head}
<1> DEFINE r == Pop(a, l)
<1>1. /\ s # << >> /\ a.head = Head(s) /\ a.head \in NodesOf(s)
      /\ Linked(r.q, r.l, Tail(s))
      /\ NodesOf(Tail(s)) = NodesOf(s) \ {a.head}
      /\ SameLinks(r.l, l, Node \ NodesOf(s))
      /\ r.l.next[a.head] = Null /\ r.l.prev[a.head] = Null
  BY PopShared DEF TwoQueues
<1>2. NodesOf(u) \subseteq Node
  BY DEF TwoQueues, Linked, NodesOf
<1> HIDE DEF r
<1>3. Linked(b, r.l, u)
  BY <1>1, <1>2, LinkedBySame DEF TwoQueues, Linked, SameLinks
<1>4. TwoQueues(r.q, b, r.l, Tail(s), u, P)
  BY <1>1, <1>2, <1>3 DEF TwoQueues, SameLinks
<1> QED BY <1>1, <1>4 DEF r

\* ... and a removal that the code gets right.
LEMMA RemoveKeepsOther ==
  ASSUME NEW a, NEW b, NEW l, NEW s, NEW u, NEW P, TwoQueues(a, b, l, s, u, P),
         NEW i \in 1..Len(s), RemovablePosition(s, i), NEW n, n = s[i]
  PROVE  LET r == Remove(a, l, n)
         IN /\ TwoQueues(r.q, b, r.l, Without(s, i), u, P)
            /\ NodesOf(Without(s, i)) = NodesOf(s) \ {n}
<1> DEFINE r == Remove(a, l, n)
<1>1. /\ Linked(r.q, r.l, Without(s, i))
      /\ NodesOf(Without(s, i)) = NodesOf(s) \ {n}
      /\ SameLinks(r.l, l, Node \ NodesOf(s))
      /\ r.l.next[n] = Null /\ r.l.prev[n] = Null
  <2>1. TakenOut(a, l, s, i, n)
    BY RemoveShared DEF TwoQueues
  <2> QED BY <2>1 DEF TakenOut
<1>2. NodesOf(u) \subseteq Node
  BY DEF TwoQueues, Linked, NodesOf
<1> HIDE DEF r
<1>3. Linked(b, r.l, u)
  BY <1>1, <1>2, LinkedBySame DEF TwoQueues, Linked, SameLinks
<1>4. TwoQueues(r.q, b, r.l, Without(s, i), u, P)
  BY <1>1, <1>2, <1>3 DEF TwoQueues, SameLinks
<1> QED BY <1>1, <1>4 DEF r

\* A search finds the nodes the queue holds, and there are some exactly when
\* the head leads somewhere.
LEMMA SearchFinds ==
  ASSUME NEW q, NEW l, Linked(q, l, Walk(q, l))
  PROVE  /\ Members(q, l) = NodesOf(Walk(q, l))
         /\ q.head = Null <=> Members(q, l) = {}
         /\ q.head # Null => q.head \in Members(q, l)
<1> DEFINE w == Walk(q, l)
<1>1. w \in Seq(Node) /\ DOMAIN w = 1..Len(w) /\ Len(w) \in Nat /\ Represents(q, l, w)
  BY DEF Linked
<1>2. Members(q, l) = {n \in Node : \E k \in DOMAIN w : w[k] = n}
  BY DEF Members
<1> HIDE DEF w
<1>3. Members(q, l) = NodesOf(w)
  BY <1>1, <1>2 DEF NodesOf
<1>4. CASE w = << >>
  <2>1. NodesOf(w) = {}
    BY <1>4 DEF NodesOf
  <2> QED BY <2>1, <1>1, <1>3, <1>4 DEF Represents, w
<1>5. CASE w # << >>
  <2>1. 1 \in DOMAIN w /\ q.head = w[1]
    BY <1>5, <1>1, EmptyIffNoLength DEF Represents
  <2>2. q.head \in NodesOf(w) /\ q.head # Null
    BY <2>1, <1>1, NullAssumption DEF NodesOf
  <2> QED BY <2>2, <1>3 DEF w
<1> QED BY <1>4, <1>5

-----------------------------------------------------------------------------
(* Any number of queues over the same links *)

\* The queues F[i] hold the sequences S[i], none has a node of another, and the
\* nodes outside of all are ready to be pushed.
ManyQueues(I, F, l, S) ==
  /\ \A i \in I : Linked(F[i], l, S[i])
  /\ \A i, j \in I : i # j => NodesOf(S[i]) \cap NodesOf(S[j]) = {}
  /\ \A n \in Node : (\A i \in I : n \notin NodesOf(S[i])) =>
       l.next[n] = Null /\ l.prev[n] = Null

\* Queue k changes, on the links of its own nodes and of n.
OneChanges(I, k, n, F, G, l, m, S, T) ==
  /\ \A i \in I \ {k} : G[i] = F[i] /\ T[i] = S[i] /\ n \notin NodesOf(S[i])
  /\ Linked(G[k], m, T[k])
  /\ NodesOf(T[k]) \subseteq NodesOf(S[k]) \cup {n}
  /\ SameLinks(m, l, Node \ (NodesOf(S[k]) \cup {n}))
  /\ \A x \in NodesOf(S[k]) \cup {n} : x \notin NodesOf(T[k]) =>
       m.next[x] = Null /\ m.prev[x] = Null

\* If one of many queues changes, and stays right by itself, all stay right.
LEMMA OneOfMany ==
  ASSUME NEW I, NEW F, NEW l, NEW S, ManyQueues(I, F, l, S),
         NEW k \in I, NEW n \in Node, NEW G, NEW m, NEW T,
         OneChanges(I, k, n, F, G, l, m, S, T)
  PROVE  ManyQueues(I, G, m, T)
<1>0. /\ \A i \in I \ {k} : G[i] = F[i] /\ T[i] = S[i] /\ n \notin NodesOf(S[i])
      /\ Linked(G[k], m, T[k])
      /\ NodesOf(T[k]) \subseteq NodesOf(S[k]) \cup {n}
      /\ SameLinks(m, l, Node \ (NodesOf(S[k]) \cup {n}))
      /\ \A x \in NodesOf(S[k]) \cup {n} : x \notin NodesOf(T[k]) =>
           m.next[x] = Null /\ m.prev[x] = Null
  BY DEF OneChanges
<1>1. \A i \in I : NodesOf(S[i]) \subseteq Node
  BY DEF ManyQueues, Linked, NodesOf
<1>2. \A i \in I \ {k} : NodesOf(S[i]) \cap (NodesOf(S[k]) \cup {n}) = {}
  BY <1>0 DEF ManyQueues
<1>3. \A i \in I : Linked(G[i], m, T[i])
  <2> SUFFICES ASSUME NEW i \in I, i # k PROVE Linked(G[i], m, T[i])
    BY <1>0
  <2>1. SameLinks(m, l, NodesOf(S[i]))
    BY <1>0, <1>1, <1>2 DEF SameLinks
  <2> QED BY <1>0, <2>1, LinkedBySame DEF ManyQueues, Linked
<1>4. \A i, j \in I : i # j => NodesOf(T[i]) \cap NodesOf(T[j]) = {}
  BY <1>0, <1>2 DEF ManyQueues
<1>5. ASSUME NEW x \in Node, \A i \in I : x \notin NodesOf(T[i])
      PROVE  m.next[x] = Null /\ m.prev[x] = Null
  <2>1. CASE x \in NodesOf(S[k]) \cup {n}
    BY <1>0, <1>5, <2>1
  <2>2. CASE x \notin NodesOf(S[k]) \cup {n}
    <3>1. \A i \in I : x \notin NodesOf(S[i])
      BY <1>0, <1>5, <2>2
    <3> QED BY <1>0, <2>2, <3>1 DEF ManyQueues, SameLinks
  <2> QED BY <2>1, <2>2
<1> QED BY <1>3, <1>4, <1>5 DEF ManyQueues

\* G is F with x at k.
Replaced(I, k, F, G, x) == G[k] = x /\ \A i \in I \ {k} : G[i] = F[i]

\* A push of a node that is in none ...
LEMMA PushToOne ==
  ASSUME NEW I, NEW F, NEW l, NEW S, ManyQueues(I, F, l, S),
         NEW k \in I, NEW n \in Node, \A i \in I : n \notin NodesOf(S[i]),
         NEW G, Replaced(I, k, F, G, Push(F[k], l, n).q),
         NEW T, Replaced(I, k, S, T, Append(S[k], n))
  PROVE  ManyQueues(I, G, Push(F[k], l, n).l, T)
<1> DEFINE r == Push(F[k], l, n)
<1>1. /\ Linked(r.q, r.l, Append(S[k], n))
      /\ SameLinks(r.l, l, Node \ (NodesOf(S[k]) \cup {n}))
      /\ NodesOf(Append(S[k], n)) = NodesOf(S[k]) \cup {n}
  BY PushShared, NodesOfAppend DEF ManyQueues, Linked
<1>2. /\ G[k] = r.q /\ T[k] = Append(S[k], n)
      /\ \A j \in I \ {k} : G[j] = F[j] /\ T[j] = S[j]
  BY DEF Replaced
<1> HIDE DEF r
<1>3. ManyQueues(I, G, r.l, T)
  <2>1. OneChanges(I, k, n, F, G, l, r.l, S, T)
    BY <1>1, <1>2 DEF OneChanges
  <2> QED BY <2>1, OneOfMany
<1> QED BY <1>3 DEF r

\* ... a pop ...
LEMMA PopFromOne ==
  ASSUME NEW I, NEW F, NEW l, NEW S, ManyQueues(I, F, l, S),
         NEW k \in I, F[k].head # Null,
         NEW G, Replaced(I, k, F, G, Pop(F[k], l).q),
         NEW T, Replaced(I, k, S, T, Tail(S[k]))
  PROVE  ManyQueues(I, G, Pop(F[k], l).l, T)
<1> DEFINE r == Pop(F[k], l)
           h == F[k].head
<1>1. /\ S[k] # << >> /\ h = Head(S[k]) /\ h \in NodesOf(S[k])
      /\ Linked(r.q, r.l, Tail(S[k]))
      /\ NodesOf(Tail(S[k])) = NodesOf(S[k]) \ {h}
      /\ SameLinks(r.l, l, Node \ NodesOf(S[k]))
      /\ r.l.next[h] = Null /\ r.l.prev[h] = Null
  BY PopShared DEF ManyQueues
<1>2. h \in Node /\ \A i \in I \ {k} : h \notin NodesOf(S[i])
  <2>1. NodesOf(S[k]) \subseteq Node
    BY DEF ManyQueues, Linked, NodesOf
  <2> QED BY <1>1, <2>1 DEF ManyQueues
<1>3. /\ G[k] = r.q /\ T[k] = Tail(S[k])
      /\ \A j \in I \ {k} : G[j] = F[j] /\ T[j] = S[j]
  BY DEF Replaced
<1> HIDE DEF r, h
<1>4. ManyQueues(I, G, r.l, T)
  <2>1. OneChanges(I, k, h, F, G, l, r.l, S, T)
    BY <1>1, <1>2, <1>3 DEF OneChanges, SameLinks
  <2> QED BY <1>2, <2>1, OneOfMany
<1> QED BY <1>1, <1>3, <1>4 DEF r, h

\* ... and a removal that the code gets right leave the others as they are.
LEMMA RemoveFromOne ==
  ASSUME NEW I, NEW F, NEW l, NEW S, ManyQueues(I, F, l, S),
         NEW k \in I, NEW i \in 1..Len(S[k]), RemovablePosition(S[k], i), NEW n, n = S[k][i],
         NEW G, Replaced(I, k, F, G, Remove(F[k], l, n).q),
         NEW T, Replaced(I, k, S, T, Without(S[k], i))
  PROVE  ManyQueues(I, G, Remove(F[k], l, n).l, T)
<1> DEFINE r == Remove(F[k], l, n)
<1>1. /\ Linked(r.q, r.l, Without(S[k], i))
      /\ NodesOf(Without(S[k], i)) = NodesOf(S[k]) \ {n}
      /\ SameLinks(r.l, l, Node \ NodesOf(S[k]))
      /\ r.l.next[n] = Null /\ r.l.prev[n] = Null
  <2>1. TakenOut(F[k], l, S[k], i, n)
    BY RemoveShared DEF ManyQueues
  <2> QED BY <2>1 DEF TakenOut
<1>2. n \in NodesOf(S[k]) /\ NodesOf(S[k]) \subseteq Node
  BY DEF ManyQueues, Linked, NodesOf
<1>3. n \in Node /\ \A j \in I \ {k} : n \notin NodesOf(S[j])
  BY <1>2 DEF ManyQueues
<1>4. /\ G[k] = r.q /\ T[k] = Without(S[k], i)
      /\ \A j \in I \ {k} : G[j] = F[j] /\ T[j] = S[j]
  BY DEF Replaced
<1> HIDE DEF r
<1>5. ManyQueues(I, G, r.l, T)
  <2>1. OneChanges(I, k, n, F, G, l, r.l, S, T)
    BY <1>1, <1>3, <1>4 DEF OneChanges, SameLinks
  <2> QED BY <1>3, <2>1, OneOfMany
<1> QED BY <1>1, <1>2, <1>4, <1>5 DEF r
=============================================================================
