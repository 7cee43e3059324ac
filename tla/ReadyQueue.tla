----------------------------- MODULE ReadyQueue -----------------------------
(***************************************************************************)
(* One queue of TCBs under every sequence of pushes, pops and removals,    *)
(* next to the sequence it is meant to hold.  Removals keep to the         *)
(* positions at which the code's removal is right; RemovalExact says in    *)
(* every state what it would do at the others.                             *)
(***************************************************************************)
EXTENDS LinkedQueue

VARIABLES queue,        \* ReadyQHead and ReadyQTail
          link,         \* pNext and pPrev of every TCB
          contents      \* auxiliary: the TCBs pushed and not taken, in order

vars == << queue, link, contents >>

\* Pointers lead to TCBs or are NULL.
TypeOK ==
  /\ queue \in QueueType
  /\ link \in LinkType
  /\ contents \in Seq(Node)

Init ==
  /\ queue = EmptyQueue
  /\ link = NoLinks
  /\ contents = << >>

RqPush(n) ==
  /\ n \notin NodesOf(contents)
  /\ queue' = Push(queue, link, n).q
  /\ link' = Push(queue, link, n).l
  /\ contents' = Append(contents, n)

RqPop ==
  /\ queue.head # Null
  /\ queue' = Pop(queue, link).q
  /\ link' = Pop(queue, link).l
  /\ contents' = Tail(contents)

RqRemove(i) ==
  /\ RemovablePosition(contents, i)
  /\ queue' = Remove(queue, link, contents[i]).q
  /\ link' = Remove(queue, link, contents[i]).l
  /\ contents' = Without(contents, i)

Next ==
  \/ \E n \in Node : RqPush(n)
  \/ RqPop
  \/ \E i \in DOMAIN contents : RqRemove(i)

Spec == Init /\ [][Next]_vars

-----------------------------------------------------------------------------
\* The pointers hold the sequence, and every other TCB can be pushed: what
\* the push, pop and remove code of the queues rely on and must keep.
QueueOK == Represents(queue, link, contents) /\ OthersUnlinked(link, contents)

\* The removal code is right at an end and in a queue of three, and wrong
\* everywhere else: there the pointers no longer hold the other TCBs.
RemovalExact ==
  \A i \in DOMAIN contents :
    LET r == Remove(queue, link, contents[i])
        rest == Without(contents, i)
    IN Represents(r.q, r.l, rest) <=> RemovablePosition(contents, i)
=============================================================================
