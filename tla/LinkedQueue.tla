---------------------------- MODULE LinkedQueue ----------------------------
(***************************************************************************)
(* The doubly linked queues of scheduler2: ready queue, wait queue, join   *)
(* queue, and the two queues of a message queue.  All five are the same    *)
(* code over different nodes: a head and a tail pointer, and two link      *)
(* fields, pPrev and pNext, INSIDE the nodes.  A node therefore can be     *)
(* well placed in at most one queue at a time, and every operation changes *)
(* links that other queues read.                                           *)
(*                                                                         *)
(*   q     a queue's two pointers, [head, tail]                            *)
(*   l     the link fields of all nodes, [next, prev]                      *)
(*                                                                         *)
(* An operation returns [q, l] after it.  None takes a lock in the code;   *)
(* the modules that use them take each as one step.                        *)
(***************************************************************************)
EXTENDS Naturals, Sequences, FiniteSets

CONSTANTS Node,     \* TCBs, join structures or messages
          Null      \* the C NULL pointer

ASSUME NullAssumption == Null \notin Node

Pointer == Node \cup {Null}

QueueType == [head : Pointer, tail : Pointer]
LinkType  == [next : [Node -> Pointer], prev : [Node -> Pointer]]

EmptyQueue == [head |-> Null, tail |-> Null]
NoLinks    == [next |-> [n \in Node |-> Null], prev |-> [n \in Node |-> Null]]

\* Append n.  The code stores to n's own pPrev only when the queue is not
\* empty and never to its pNext: it relies on n arriving with NULL links.
Push(q, l, n) ==
  IF q.head = Null
  THEN [q |-> [head |-> n, tail |-> n], l |-> l]
  ELSE [q |-> [q EXCEPT !.tail = n],
        l |-> [next |-> [l.next EXCEPT ![q.tail] = n],
               prev |-> [l.prev EXCEPT ![n] = q.tail]]]

\* Mutant of Remove: the removed node keeps its own links.
RemoveKeepsLinks(q, l, n) ==
  LET p == l.prev[n]
      s == l.next[n]
  IN [q |-> [head |-> IF p = Null THEN s ELSE q.head, tail |-> IF s = Null THEN p ELSE q.tail],
      l |-> [next |-> IF p = Null THEN l.next ELSE [l.next EXCEPT ![p] = s],
             prev |-> IF s = Null THEN l.prev ELSE [l.prev EXCEPT ![s] = p]]]

\* Mutant of Remove: the tail pointer stays when the last node goes.
RemoveKeepsTail(q, l, n) ==
  LET p == l.prev[n]
      s == l.next[n]
      next == IF p = Null THEN l.next ELSE [l.next EXCEPT ![p] = s]
      prev == IF s = Null THEN l.prev ELSE [l.prev EXCEPT ![s] = p]
  IN [q |-> [q EXCEPT !.head = IF p = Null THEN s ELSE q.head],
      l |-> [next |-> [next EXCEPT ![n] = Null], prev |-> [prev EXCEPT ![n] = Null]]]

\* Unlink n, wherever it is.  The pointer updates are the code's: an inner
\* node makes its successor the tail and its predecessor the head.
Remove(q, l, n) ==
  LET p == l.prev[n]
      s == l.next[n]
      next == IF p = Null THEN l.next ELSE [l.next EXCEPT ![p] = s]
      prev == IF s = Null THEN l.prev ELSE [l.prev EXCEPT ![s] = p]
  IN [q |-> [head |-> IF s # Null THEN (IF p # Null THEN p ELSE s)
                      ELSE IF p # Null THEN q.head ELSE Null,
             tail |-> IF p # Null THEN (IF s # Null THEN s ELSE p)
                      ELSE IF s # Null THEN q.tail ELSE Null],
      l |-> [next |-> [next EXCEPT ![n] = Null],
             prev |-> [prev EXCEPT ![n] = Null]]]

\* Mutant of Pop: the popped node still points to its successor.
PopKeepsNext(q, l) ==
  LET s == l.next[q.head]
  IN [q |-> [q EXCEPT !.head = s],
      l |-> [l EXCEPT !.prev = IF s = Null THEN @ ELSE [@ EXCEPT ![s] = Null]]]

\* Unlink the head of a queue that is not empty.  The tail pointer is not
\* touched: popping the last node leaves it dangling.
Pop(q, l) ==
  LET n == q.head
      s == l.next[n]
      prev == IF s = Null THEN l.prev ELSE [l.prev EXCEPT ![s] = Null]
  IN [q |-> [q EXCEPT !.head = s],
      l |-> [next |-> [l.next EXCEPT ![n] = Null], prev |-> prev]]

\* The nodes a search visits: from the head along pNext, each at most once.
Walk(q, l) ==
  LET next == [n \in Pointer |-> IF n = Null THEN Null ELSE l.next[n]]
      at[k \in 1..Cardinality(Node)] == IF k = 1 THEN q.head ELSE next[at[k - 1]]
  IN SubSeq(at, 1, Cardinality({k \in 1..Cardinality(Node) : at[k] # Null}))

Members(q, l) == LET w == Walk(q, l) IN {n \in Node : \E k \in DOMAIN w : w[k] = n}

\* What a search by thread id returns: the node, or NULL.
Search(q, l, n) == IF n \in Members(q, l) THEN n ELSE Null

(***************************************************************************)
(* What the pointers are meant to be: the sequence s, linked both ways.    *)
(* The tail matters only while the queue is not empty.                     *)
(***************************************************************************)
NodesOf(s) == {s[i] : i \in DOMAIN s}

Distinct(s) == \A i, j \in DOMAIN s : s[i] = s[j] => i = j

NextInSeq(s, i) == IF i = Len(s) THEN Null ELSE s[i + 1]
PrevInSeq(s, i) == IF i = 1 THEN Null ELSE s[i - 1]

Represents(q, l, s) ==
  /\ Distinct(s)
  /\ IF s = << >> THEN q.head = Null
     ELSE q.head = s[1] /\ q.tail = s[Len(s)]
  /\ \A i \in 1..Len(s) : /\ l.next[s[i]] = NextInSeq(s, i)
                          /\ l.prev[s[i]] = PrevInSeq(s, i)

\* Nodes outside s are ready to be pushed: both their links are NULL.
OthersUnlinked(l, s) ==
  \A n \in Node \ NodesOf(s) : l.next[n] = Null /\ l.prev[n] = Null

\* s without its i-th element.
Without(s, i) ==
  [j \in 1..(Len(s) - 1) |-> IF j < i THEN s[j] ELSE s[j + 1]]

\* The positions at which the code's Remove is right: the two ends, and the
\* middle of three, where the predecessor is the head and the successor the
\* tail already.
RemovablePosition(s, i) == i = 1 \/ i = Len(s) \/ Len(s) = 3
=============================================================================
