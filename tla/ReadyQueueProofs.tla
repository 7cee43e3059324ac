-------------------------- MODULE ReadyQueueProofs --------------------------
(***************************************************************************)
(* One queue of TCBs is right for any number of TCBs, as long as removals  *)
(* keep to the positions the code handles.  TypeOK /\ QueueOK is inductive *)
(* and is the lemmas' QueueState, so each action is one lemma about its    *)
(* queue operation.                                                        *)
(***************************************************************************)
EXTENDS ReadyQueue, LinkedQueueProofs

\* The invariant is the state the lemmas about the operations speak of.
LEMMA StateInv == TypeOK /\ QueueOK <=> QueueState(queue, link, contents)
BY DEF TypeOK, QueueOK, QueueState

\* Empty queues hold the empty sequence.
LEMMA InitEstablishes == Init => TypeOK /\ QueueOK
<1> SUFFICES ASSUME Init PROVE TypeOK /\ QueueOK
  OBVIOUS
<1>1. TypeOK
  BY DEF Init, TypeOK, EmptyQueue, NoLinks, QueueType, LinkType, Pointer
<1>2. QueueOK
  BY DEF Init, QueueOK, EmptyQueue, NoLinks, Represents, OthersUnlinked, Distinct
<1> QED BY <1>1, <1>2

\* Each operation takes the pointers of one sequence to those of the next.
LEMMA NextPreserves ==
  ASSUME TypeOK, QueueOK, [Next]_vars
  PROVE  TypeOK' /\ QueueOK'
<1>0. QueueState(queue, link, contents)
  BY StateInv
<1>1. ASSUME NEW n \in Node, RqPush(n)
      PROVE  QueueState(queue', link', contents')
  BY <1>0, <1>1, PushAppends DEF RqPush
<1>2. ASSUME RqPop
      PROVE  QueueState(queue', link', contents')
  BY <1>0, <1>2, PopTakesFirst DEF RqPop
<1>3. ASSUME NEW i \in DOMAIN contents, RqRemove(i)
      PROVE  QueueState(queue', link', contents')
  <2>1. contents \in Seq(Node) /\ i \in 1..Len(contents)
    BY DEF TypeOK
  <2>2. RemovablePosition(contents, i)
    BY <1>3 DEF RqRemove
  <2> QED BY <1>0, <1>3, <2>1, <2>2, RemoveTakesOut DEF RqRemove
<1>4. ASSUME UNCHANGED vars
      PROVE  QueueState(queue', link', contents')
  BY <1>0, <1>4 DEF vars
<1>5. QueueState(queue', link', contents')
  BY <1>1, <1>2, <1>3, <1>4 DEF Next
<1> QED BY <1>5 DEF TypeOK, QueueOK, QueueState

\* While callers remove only at an end or from a queue of three, the pointers
\* of the queue hold exactly the TCBs pushed and not taken, in order, for any
\* number of TCBs: pushes, pops and removals may come in any order.
THEOREM QueueCorrect == Spec => [](TypeOK /\ QueueOK)
<1>1. Init => TypeOK /\ QueueOK
  BY InitEstablishes
<1>2. TypeOK /\ QueueOK /\ [Next]_vars => (TypeOK /\ QueueOK)'
  BY NextPreserves
<1> QED BY <1>1, <1>2, PTL DEF Spec

\* In every such queue, at every position, the removal code is right exactly
\* at the ends and in a queue of three.
THEOREM RemovalExactness == Spec => []RemovalExact
<1>1. TypeOK /\ QueueOK => RemovalExact
  <2> SUFFICES ASSUME TypeOK, QueueOK, NEW i \in DOMAIN contents
               PROVE  LET r == Remove(queue, link, contents[i])
                      IN Represents(r.q, r.l, Without(contents, i))
                         <=> RemovablePosition(contents, i)
    BY DEF RemovalExact
  <2>1. QueueState(queue, link, contents) /\ i \in 1..Len(contents)
    BY StateInv DEF TypeOK
  <2>2. CASE RemovablePosition(contents, i)
    BY <2>1, <2>2, RemoveTakesOut DEF QueueState
  <2>3. CASE ~ RemovablePosition(contents, i)
    BY <2>1, <2>3, RemoveElsewhereLosesNodes
  <2> QED BY <2>2, <2>3
<1>2. Spec => [](TypeOK /\ QueueOK)
  BY QueueCorrect
<1> QED BY <1>1, <1>2, PTL
=============================================================================
