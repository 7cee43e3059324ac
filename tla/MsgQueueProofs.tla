--------------------------- MODULE MsgQueueProofs ---------------------------
(***************************************************************************)
(* The inductive invariant of MsgQueueInvariant, for any finite set of     *)
(* threads, any table of slots and any memory for Qcbs: it holds at the    *)
(* start, every step of the message calls and of the scheduler below them  *)
(* keeps it, and it implies that threads have one place each and are       *)
(* linked into one list at a time, and that calls use Qcbs that exist.     *)
(*                                                                         *)
(* The ready queue and the waiting lists are many queues over the same     *)
(* pNext and pPrev: the lemmas of LinkedQueueProofs on those come first,   *)
(* said of rq_push, tq_push, tq_pop and tq_remove.  Then come what a       *)
(* thread knows when it executes, and one lemma for each action, in the    *)
(* order of MsgQueue.tla, then of the thread library, the scheduler loop   *)
(* and the handler; then the invariant and the properties.                 *)
(***************************************************************************)
EXTENDS MsgQueueInvariant, SchedulerProofs

-----------------------------------------------------------------------------
(* The ready queue and the waiting lists as queues over the same links *)

\* The lists of TCBs: the ready queue, named Null, and the waiting list of each
\* Qcb; and what they hold.
Lists == {Null} \cup Qcb
QueueAt == [i \in Lists |-> IF i = Null THEN readyQ ELSE qcb[i].waiters]
HeldAt == [i \in Lists |-> Walk(QueueAt[i], link)]

\* What the names stand for.
LEMMA QueueNames ==
  /\ Null \in Lists /\ Null \notin Qcb /\ Qcb \subseteq Lists
  /\ QueueAt[Null] = readyQ /\ \A q \in Qcb : q \in Lists /\ q # Null /\ QueueAt[q] = qcb[q].waiters
  /\ HeldAt[Null] = Walk(readyQ, link) /\ \A q \in Qcb : HeldAt[q] = Waiters(q)
BY MsgQueueAssumption DEF Lists, QueueAt, HeldAt, Waiters

\* The invariant says of them what the lemmas on many queues ask for.
LEMMA QueuesAreMany ==
  ASSUME MqTypeOK, MqQueues
  PROVE  /\ Q!ManyQueues(Lists, QueueAt, link, HeldAt)
         /\ Ready = NodesOf(HeldAt[Null])
         /\ \A q \in Qcb : Listed(q) = NodesOf(HeldAt[q])
<1>0. Null \notin Thread
  BY NoThreads
<1>1. \A i \in Lists : Q!Linked(QueueAt[i], link, HeldAt[i])
  <2>1. Q!Linked(readyQ, link, Walk(readyQ, link))
    BY SameOperators DEF MqTypeOK, MqQueues, Q!Linked
  <2>2. \A q \in Qcb : Q!Linked(qcb[q].waiters, link, Waiters(q))
    BY SameOperators DEF MqTypeOK, MqQueues, Q!Linked
  <2> QED BY <2>1, <2>2, QueueNames DEF Lists
<1>2. \A i \in Lists : Members(QueueAt[i], link) = NodesOf(HeldAt[i])
  <2> SUFFICES ASSUME NEW i \in Lists PROVE Members(QueueAt[i], link) = NodesOf(HeldAt[i])
    OBVIOUS
  <2> DEFINE q == QueueAt[i]
  <2>1. HeldAt[i] = Walk(q, link)
    BY DEF HeldAt
  <2>2. Q!Linked(q, link, Q!Walk(q, link))
    BY <1>1, <2>1, SameWalks
  <2> HIDE DEF q
  <2>3. Q!Members(q, link) = Q!NodesOf(Q!Walk(q, link))
    BY <1>0, <2>2, Q!SearchFinds
  <2>4. Members(q, link) = NodesOf(Walk(q, link))
    BY <2>3, SameWalks, SameOperators
  <2> QED BY <2>1, <2>4 DEF q
<1>3. Ready = NodesOf(HeldAt[Null]) /\ \A q \in Qcb : Listed(q) = NodesOf(HeldAt[q])
  BY <1>2, QueueNames DEF Ready, Listed
<1>4. \A i, j \in Lists : i # j => Q!NodesOf(HeldAt[i]) \cap Q!NodesOf(HeldAt[j]) = {}
  BY <1>3, QueueNames, SameOperators DEF MqQueues, Lists
<1>5. \A n \in Thread : (\A i \in Lists : n \notin Q!NodesOf(HeldAt[i])) =>
         link.next[n] = Null /\ link.prev[n] = Null
  BY <1>3, QueueNames, SameOperators DEF MqQueues
<1> QED BY <1>1, <1>3, <1>4, <1>5 DEF Q!ManyQueues

\* The other way round, after a step.
LEMMA ManyAreQueues ==
  ASSUME NEW T, Q!ManyQueues(Lists, QueueAt', link', T), waitQ' = EmptyQueue
  PROVE  /\ readyQ' \in QueueType /\ link' \in LinkType
         /\ Ready' = NodesOf(T[Null]) /\ Walk(readyQ', link') = T[Null]
         /\ \A q \in Qcb : /\ qcb'[q].waiters \in QueueType
                           /\ Listed(q)' = NodesOf(T[q]) /\ Waiters(q)' = T[q]
         /\ parked' = UNION {Listed(q)' : q \in Qcb} => MqQueues'
<1>0. Null \notin Thread
  BY NoThreads
<1>1. /\ QueueAt'[Null] = readyQ' /\ \A q \in Qcb : QueueAt'[q] = qcb'[q].waiters
      /\ Null \in Lists /\ Qcb \subseteq Lists /\ Null \notin Qcb
  BY MsgQueueAssumption DEF Lists, QueueAt
<1>2. ASSUME NEW i \in Lists
      PROVE  /\ QueueAt'[i] \in QueueType /\ link' \in LinkType /\ T[i] \in Seq(Thread)
             /\ Walk(QueueAt'[i], link') = T[i]
             /\ Members(QueueAt'[i], link') = NodesOf(T[i])
             /\ Represents(QueueAt'[i], link', T[i])
  <2> DEFINE q == QueueAt'[i]
             s == T[i]
             l == link'
  <2>1. Q!Linked(q, l, s)
    BY DEF Q!ManyQueues
  <2> HIDE DEF q, s, l
  <2>2. q \in QueueType /\ l \in LinkType /\ s \in Seq(Thread) /\ Q!Represents(q, l, s)
    BY <2>1, SameOperators DEF Q!Linked
  <2>3. Q!Walk(q, l) = s
    BY <1>0, <2>2, Assumed, Q!WalkFollows
  <2>4. Q!Members(q, l) = Q!NodesOf(s)
    BY <1>0, <2>1, <2>3, Q!SearchFinds
  <2>5. Walk(q, l) = s /\ Members(q, l) = NodesOf(s) /\ Represents(q, l, s)
    BY <2>2, <2>3, <2>4, SameOperators, SameWalks
  <2> QED BY <2>2, <2>5 DEF q, s, l
<1>3. /\ readyQ' \in QueueType /\ link' \in LinkType
      /\ Ready' = NodesOf(T[Null]) /\ Walk(readyQ', link') = T[Null]
      /\ T[Null] \in Seq(Thread) /\ Represents(readyQ', link', T[Null])
  BY <1>1, <1>2 DEF Ready
<1>4. \A q \in Qcb : /\ qcb'[q].waiters \in QueueType
                     /\ Listed(q)' = NodesOf(T[q]) /\ Waiters(q)' = T[q]
                     /\ T[q] \in Seq(Thread) /\ Represents(qcb'[q].waiters, link', T[q])
  BY <1>1, <1>2 DEF Listed, Waiters
<1>5. ASSUME parked' = UNION {Listed(q)' : q \in Qcb}
      PROVE  MqQueues'
  <2>1. \A i, j \in Lists : i # j => NodesOf(T[i]) \cap NodesOf(T[j]) = {}
    BY SameOperators DEF Q!ManyQueues
  <2>2. \A n \in Thread : (\A i \in Lists : n \notin NodesOf(T[i])) =>
          link'.next[n] = Null /\ link'.prev[n] = Null
    BY SameOperators DEF Q!ManyQueues
  <2>3. \A q \in Qcb : /\ Listed(q)' \cap Ready' = {}
                       /\ Listed(q)' \subseteq parked'
                       /\ \A r \in Qcb \ {q} : Listed(q)' \cap Listed(r)' = {}
    BY <1>1, <1>3, <1>4, <1>5, <2>1
  <2>4. \A t \in parked' : \E q \in Qcb : t \in Listed(q)'
    BY <1>5
  <2>5. \A t \in Thread \ (Ready' \cup parked') : link'.next[t] = Null /\ link'.prev[t] = Null
    <3> SUFFICES ASSUME NEW t \in Thread \ (Ready' \cup parked')
                 PROVE  link'.next[t] = Null /\ link'.prev[t] = Null
      OBVIOUS
    <3>1. \A i \in Lists : t \notin NodesOf(T[i])
      BY <1>3, <1>4, <2>3 DEF Lists
    <3> QED BY <2>2, <3>1
  <2> QED BY <1>3, <1>4, <2>3, <2>4, <2>5 DEF MqQueues
<1> QED BY <1>3, <1>4, <1>5

\* The parked threads are the listed ones.
LEMMA ParkedAre == ASSUME MqTypeOK, MqQueues PROVE parked = UNION {Listed(q) : q \in Qcb}
BY DEF MqQueues, MqTypeOK

\* A list is empty when its head is NULL, and else its head is in it.
LEMMA ReadyHead ==
  ASSUME MqTypeOK, MqQueues
  PROVE  /\ readyQ.head = Null <=> Ready = {}
         /\ readyQ.head # Null => readyQ.head \in Ready
         /\ \A q \in Qcb : /\ qcb[q].waiters.head = Null <=> Listed(q) = {}
                           /\ qcb[q].waiters.head # Null => qcb[q].waiters.head \in Listed(q)
<1>0. Null \notin Thread
  BY NoThreads
<1>1. \A i \in Lists : Q!Linked(QueueAt[i], link, Walk(QueueAt[i], link))
  BY QueuesAreMany DEF Q!ManyQueues, HeldAt
<1>2. ASSUME NEW i \in Lists
      PROVE  /\ QueueAt[i].head = Null <=> Members(QueueAt[i], link) = {}
             /\ QueueAt[i].head # Null => QueueAt[i].head \in Members(QueueAt[i], link)
  <2> DEFINE q == QueueAt[i]
  <2>1. Q!Linked(q, link, Q!Walk(q, link))
    BY <1>1, SameWalks
  <2> HIDE DEF q
  <2>2. /\ q.head = Null <=> Q!Members(q, link) = {}
        /\ q.head # Null => q.head \in Q!Members(q, link)
    BY <1>0, <2>1, Q!SearchFinds
  <2> QED BY <2>2, SameWalks DEF q
<1> QED BY <1>2, QueueNames DEF Ready, Listed

\* A step that leaves all pointers of the queues alone.
LEMMA QueuesRest ==
  ASSUME MqQueues, UNCHANGED << readyQ, waitQ, link >>,
         \A q \in Qcb : qcb'[q].waiters = qcb[q].waiters
  PROVE  /\ Ready' = Ready /\ \A q \in Qcb : Listed(q)' = Listed(q) /\ Waiters(q)' = Waiters(q)
         /\ parked' = parked => MqQueues'
<1>1. Ready' = Ready /\ \A q \in Qcb : Listed(q)' = Listed(q) /\ Waiters(q)' = Waiters(q)
  BY DEF Ready, Listed, Waiters
<1> QED BY <1>1 DEF MqQueues

\* rq_push of a thread that is in no list.
LEMMA ReadyPushed ==
  ASSUME MqTypeOK, MqQueues, NEW n \in Thread \ (Ready \cup parked), rq_push(n),
         waitQ' = waitQ, parked' = parked, \A q \in Qcb : qcb'[q].waiters = qcb[q].waiters
  PROVE  /\ MqQueues' /\ readyQ' \in QueueType /\ link' \in LinkType
         /\ Ready' = Ready \cup {n} /\ \A q \in Qcb : Listed(q)' = Listed(q)
<1> DEFINE T == [HeldAt EXCEPT ![Null] = Append(HeldAt[Null], n)]
<1>0. Null \notin Thread
  BY NoThreads
<1>1. /\ Q!ManyQueues(Lists, QueueAt, link, HeldAt)
      /\ Ready = NodesOf(HeldAt[Null]) /\ \A q \in Qcb : Listed(q) = NodesOf(HeldAt[q])
  BY QueuesAreMany
<1>2. \A i \in Lists : n \notin Q!NodesOf(HeldAt[i])
  BY <1>1, SameOperators DEF MqQueues, Lists
<1>3. /\ Q!Replaced(Lists, Null, HeldAt, T, Append(HeldAt[Null], n))
      /\ Q!Replaced(Lists, Null, QueueAt, QueueAt', Q!Push(QueueAt[Null], link, n).q)
      /\ link' = Q!Push(QueueAt[Null], link, n).l
  BY QueueNames, SameOperators DEF rq_push, QueueAt, HeldAt, Lists, Q!Replaced
<1> HIDE DEF T
<1>4. /\ Q!ManyQueues(Lists, QueueAt', Q!Push(QueueAt[Null], link, n).l, T)
      /\ Q!NodesOf(T[Null]) = Q!NodesOf(HeldAt[Null]) \cup {n}
  <2>1. Q!ManyQueues(Lists, QueueAt', Q!Push(QueueAt[Null], link, n).l, T)
    BY <1>0, <1>1, <1>2, <1>3, QueueNames, Q!PushToOne
  <2>2. Q!NodesOf(T[Null]) = Q!NodesOf(HeldAt[Null]) \cup {n}
    BY <1>0, <1>1, <1>3, QueueNames, Q!NodesOfAppend DEF Q!ManyQueues, Q!Linked, Q!Replaced
  <2> QED BY <2>1, <2>2
<1>5. Q!ManyQueues(Lists, QueueAt', link', T) /\ waitQ' = EmptyQueue
  BY <1>3, <1>4 DEF MqQueues
<1>6. /\ Ready' = NodesOf(T[Null]) /\ \A q \in Qcb : Listed(q)' = NodesOf(T[q])
      /\ readyQ' \in QueueType /\ link' \in LinkType
      /\ parked' = UNION {Listed(q)' : q \in Qcb} => MqQueues'
  BY <1>5, ManyAreQueues
<1>7. Ready' = Ready \cup {n} /\ \A q \in Qcb : Listed(q)' = Listed(q)
  BY <1>1, <1>3, <1>4, <1>6, QueueNames, SameOperators DEF Q!Replaced
<1> QED BY <1>6, <1>7, ParkedAre

\* rq_pop of a queue that is not empty.
LEMMA ReadyPopped ==
  ASSUME MqTypeOK, MqQueues, readyQ.head # Null, rq_pop,
         waitQ' = waitQ, parked' = parked, \A q \in Qcb : qcb'[q].waiters = qcb[q].waiters
  PROVE  /\ MqQueues' /\ readyQ' \in QueueType /\ link' \in LinkType
         /\ Ready' = Ready \ {readyQ.head} /\ \A q \in Qcb : Listed(q)' = Listed(q)
<1> DEFINE T == [HeldAt EXCEPT ![Null] = Tail(HeldAt[Null])]
<1>0. Null \notin Thread
  BY NoThreads
<1>1. /\ Q!ManyQueues(Lists, QueueAt, link, HeldAt)
      /\ Ready = NodesOf(HeldAt[Null]) /\ \A q \in Qcb : Listed(q) = NodesOf(HeldAt[q])
  BY QueuesAreMany
<1>3. /\ Q!Replaced(Lists, Null, HeldAt, T, Tail(HeldAt[Null]))
      /\ Q!Replaced(Lists, Null, QueueAt, QueueAt', Q!Pop(QueueAt[Null], link).q)
      /\ QueueAt[Null] = readyQ
      /\ link' = Q!Pop(QueueAt[Null], link).l
  BY QueueNames, SameOperators DEF rq_pop, QueueAt, HeldAt, Lists, Q!Replaced
<1> HIDE DEF T
<1>4. /\ Q!ManyQueues(Lists, QueueAt', Q!Pop(QueueAt[Null], link).l, T)
      /\ Q!NodesOf(T[Null]) = Q!NodesOf(HeldAt[Null]) \ {QueueAt[Null].head}
  <2>1. Q!ManyQueues(Lists, QueueAt', Q!Pop(QueueAt[Null], link).l, T)
    BY <1>0, <1>1, <1>3, QueueNames, Q!PopFromOne
  <2>2. Q!Linked(QueueAt[Null], link, HeldAt[Null]) /\ QueueAt[Null].head # Null
    BY <1>1, QueueNames DEF Q!ManyQueues
  <2>3. Q!NodesOf(Tail(HeldAt[Null])) = Q!NodesOf(HeldAt[Null]) \ {QueueAt[Null].head}
    BY <1>0, <2>2, Q!PopShared
  <2> QED BY <1>3, <2>1, <2>3 DEF Q!Replaced
<1>5. Q!ManyQueues(Lists, QueueAt', link', T) /\ waitQ' = EmptyQueue
  BY <1>3, <1>4 DEF MqQueues
<1>6. /\ Ready' = NodesOf(T[Null]) /\ \A q \in Qcb : Listed(q)' = NodesOf(T[q])
      /\ readyQ' \in QueueType /\ link' \in LinkType
      /\ parked' = UNION {Listed(q)' : q \in Qcb} => MqQueues'
  BY <1>5, ManyAreQueues
<1>7. Ready' = Ready \ {readyQ.head} /\ \A q \in Qcb : Listed(q)' = Listed(q)
  BY <1>1, <1>3, <1>4, <1>6, QueueNames, SameOperators DEF Q!Replaced
<1> QED BY <1>6, <1>7, ParkedAre

\* The waiting list of one Qcb changes to the sequence s.
LEMMA OneListed ==
  ASSUME MqTypeOK, MqQueues, NEW k \in Qcb, NEW s, NEW S, NEW r,
         qcb' = [qcb EXCEPT ![k].waiters = r.q], readyQ' = readyQ, waitQ' = waitQ, link' = r.l,
         Q!ManyQueues(Lists, [QueueAt EXCEPT ![k] = r.q], r.l, [HeldAt EXCEPT ![k] = s]),
         NodesOf(s) = S,
         parked' = UNION {Listed(q)' : q \in Qcb}
  PROVE  /\ MqQueues' /\ readyQ' \in QueueType /\ link' \in LinkType
         /\ \A q \in Qcb : qcb'[q].waiters \in QueueType
         /\ Ready' = Ready /\ Listed(k)' = S /\ Waiters(k)' = s
         /\ \A q \in Qcb \ {k} : Listed(q)' = Listed(q)
         /\ parked' = (parked \ Listed(k)) \cup S
<1> DEFINE T == [HeldAt EXCEPT ![k] = s]
<1>1. /\ Ready = NodesOf(HeldAt[Null]) /\ \A q \in Qcb : Listed(q) = NodesOf(HeldAt[q])
  BY QueuesAreMany
<1>2. T[k] = s /\ \A i \in Lists \ {k} : T[i] = HeldAt[i]
  BY QueueNames DEF HeldAt
<1>3. QueueAt' = [QueueAt EXCEPT ![k] = r.q]
  <2>1. qcb'[k].waiters = r.q /\ \A q \in Qcb \ {k} : qcb'[q].waiters = qcb[q].waiters
    BY DEF MqTypeOK
  <2> QED BY <2>1, QueueNames DEF QueueAt, Lists
<1> HIDE DEF T
<1>5. Q!ManyQueues(Lists, QueueAt', link', T) /\ waitQ' = EmptyQueue
  BY <1>3 DEF MqQueues, T
<1>6. /\ Ready' = NodesOf(T[Null])
      /\ \A q \in Qcb : /\ qcb'[q].waiters \in QueueType
                        /\ Listed(q)' = NodesOf(T[q]) /\ Waiters(q)' = T[q]
      /\ readyQ' \in QueueType /\ link' \in LinkType
      /\ parked' = UNION {Listed(q)' : q \in Qcb} => MqQueues'
  BY <1>5, ManyAreQueues
<1>7. Ready' = Ready /\ Listed(k)' = S /\ \A q \in Qcb \ {k} : Listed(q)' = Listed(q)
  BY <1>1, <1>2, <1>6, QueueNames
<1>8. parked' = (parked \ Listed(k)) \cup S
  <2>1. parked = UNION {Listed(q) : q \in Qcb}
    BY ParkedAre
  <2>2. \A q \in Qcb \ {k} : Listed(q) \cap Listed(k) = {}
    BY DEF MqQueues
  <2> QED BY <1>7, <2>1, <2>2
<1> QED BY <1>2, <1>6, <1>7, <1>8

\* tq_push of a thread that is in no list.
LEMMA ListPushed ==
  ASSUME MqTypeOK, MqQueues, NEW k \in Qcb, NEW n \in Thread \ (Ready \cup parked),
         tq_push(k, n), UNCHANGED << readyQ, waitQ >>, parked' = UNION {Listed(q)' : q \in Qcb}
  PROVE  /\ MqQueues' /\ readyQ' \in QueueType /\ link' \in LinkType
         /\ \A q \in Qcb : qcb'[q].waiters \in QueueType
         /\ Ready' = Ready /\ Listed(k)' = Listed(k) \cup {n}
         /\ \A q \in Qcb \ {k} : Listed(q)' = Listed(q)
         /\ parked' = parked \cup {n}
<1> DEFINE r == Q!Push(QueueAt[k], link, n)
           s == Append(HeldAt[k], n)
           G == [QueueAt EXCEPT ![k] = r.q]
           T == [HeldAt EXCEPT ![k] = s]
<1>0. Null \notin Thread
  BY NoThreads
<1>1. /\ Q!ManyQueues(Lists, QueueAt, link, HeldAt)
      /\ Ready = NodesOf(HeldAt[Null]) /\ \A q \in Qcb : Listed(q) = NodesOf(HeldAt[q])
  BY QueuesAreMany
<1>2. \A i \in Lists : n \notin Q!NodesOf(HeldAt[i])
  BY <1>1, SameOperators DEF MqQueues, Lists
<1>3. /\ Q!Replaced(Lists, k, QueueAt, G, Q!Push(QueueAt[k], link, n).q)
      /\ Q!Replaced(Lists, k, HeldAt, T, Append(HeldAt[k], n))
  BY QueueNames DEF QueueAt, HeldAt, Q!Replaced
<1>4. qcb' = [qcb EXCEPT ![k].waiters = r.q] /\ link' = r.l
  BY QueueNames, SameOperators DEF tq_push
<1> HIDE DEF G, T
<1>5. /\ Q!ManyQueues(Lists, G, Q!Push(QueueAt[k], link, n).l, T)
      /\ Q!NodesOf(T[k]) = Q!NodesOf(HeldAt[k]) \cup {n}
  <2>1. Q!ManyQueues(Lists, G, Q!Push(QueueAt[k], link, n).l, T)
    BY <1>0, <1>1, <1>2, <1>3, QueueNames, Q!PushToOne
  <2>2. Q!NodesOf(T[k]) = Q!NodesOf(HeldAt[k]) \cup {n}
    BY <1>0, <1>1, <1>3, QueueNames, Q!NodesOfAppend DEF Q!ManyQueues, Q!Linked, Q!Replaced
  <2> QED BY <2>1, <2>2
<1>6. NodesOf(s) = Listed(k) \cup {n}
  BY <1>1, <1>3, <1>5, SameOperators DEF Q!Replaced
<1>7. Q!ManyQueues(Lists, [QueueAt EXCEPT ![k] = r.q], r.l, [HeldAt EXCEPT ![k] = s])
  BY <1>5 DEF G, T
<1> HIDE DEF r, s
<1>8. /\ MqQueues' /\ readyQ' \in QueueType /\ link' \in LinkType
      /\ \A q \in Qcb : qcb'[q].waiters \in QueueType
      /\ Ready' = Ready /\ Listed(k)' = Listed(k) \cup {n}
      /\ \A q \in Qcb \ {k} : Listed(q)' = Listed(q)
      /\ parked' = (parked \ Listed(k)) \cup (Listed(k) \cup {n})
  BY <1>4, <1>6, <1>7, OneListed
<1> QED BY <1>8 DEF MqQueues

\* tq_pop of a list that is not empty.
LEMMA ListPopped ==
  ASSUME MqTypeOK, MqQueues, NEW k \in Qcb, NEW h, h = qcb[k].waiters.head, h # Null,
         tq_pop(k), UNCHANGED << readyQ, waitQ >>, parked' = UNION {Listed(q)' : q \in Qcb}
  PROVE  /\ MqQueues' /\ readyQ' \in QueueType /\ link' \in LinkType
         /\ \A q \in Qcb : qcb'[q].waiters \in QueueType
         /\ Ready' = Ready /\ Listed(k)' = Listed(k) \ {h}
         /\ \A q \in Qcb \ {k} : Listed(q)' = Listed(q)
         /\ parked' = parked \ {h}
<1> DEFINE r == Q!Pop(QueueAt[k], link)
           s == Tail(HeldAt[k])
           G == [QueueAt EXCEPT ![k] = r.q]
           T == [HeldAt EXCEPT ![k] = s]
<1>0. Null \notin Thread
  BY NoThreads
<1>1. /\ Q!ManyQueues(Lists, QueueAt, link, HeldAt)
      /\ Ready = NodesOf(HeldAt[Null]) /\ \A q \in Qcb : Listed(q) = NodesOf(HeldAt[q])
  BY QueuesAreMany
<1>3. /\ Q!Replaced(Lists, k, QueueAt, G, Q!Pop(QueueAt[k], link).q)
      /\ Q!Replaced(Lists, k, HeldAt, T, Tail(HeldAt[k]))
      /\ QueueAt[k].head = h
  BY QueueNames DEF QueueAt, HeldAt, Q!Replaced
<1>4. qcb' = [qcb EXCEPT ![k].waiters = r.q] /\ link' = r.l
  BY QueueNames, SameOperators DEF tq_pop
<1> HIDE DEF G, T
<1>5. /\ Q!ManyQueues(Lists, G, Q!Pop(QueueAt[k], link).l, T)
      /\ Q!NodesOf(T[k]) = Q!NodesOf(HeldAt[k]) \ {QueueAt[k].head}
      /\ QueueAt[k].head \in Q!NodesOf(HeldAt[k])
  <2>1. Q!ManyQueues(Lists, G, Q!Pop(QueueAt[k], link).l, T)
    BY <1>0, <1>1, <1>3, QueueNames, Q!PopFromOne
  <2>2. Q!Linked(QueueAt[k], link, HeldAt[k]) /\ QueueAt[k].head # Null
    BY <1>1, QueueNames DEF Q!ManyQueues
  <2>3. /\ Q!NodesOf(Tail(HeldAt[k])) = Q!NodesOf(HeldAt[k]) \ {QueueAt[k].head}
        /\ QueueAt[k].head \in Q!NodesOf(HeldAt[k])
    BY <1>0, <2>2, Q!PopShared
  <2> QED BY <1>3, <2>1, <2>3 DEF Q!Replaced
<1>6. NodesOf(s) = Listed(k) \ {h} /\ h \in Listed(k)
  BY <1>1, <1>3, <1>5, SameOperators DEF Q!Replaced
<1>7. Q!ManyQueues(Lists, [QueueAt EXCEPT ![k] = r.q], r.l, [HeldAt EXCEPT ![k] = s])
  BY <1>5 DEF G, T
<1> HIDE DEF r, s
<1>8. /\ MqQueues' /\ readyQ' \in QueueType /\ link' \in LinkType
      /\ \A q \in Qcb : qcb'[q].waiters \in QueueType
      /\ Ready' = Ready /\ Listed(k)' = Listed(k) \ {h}
      /\ \A q \in Qcb \ {k} : Listed(q)' = Listed(q)
      /\ parked' = (parked \ Listed(k)) \cup (Listed(k) \ {h})
  BY <1>4, <1>6, <1>7, OneListed
<1> QED BY <1>6, <1>8 DEF MqQueues

\* tq_remove where the code is right.
LEMMA ListRemoved ==
  ASSUME MqTypeOK, MqQueues, NEW k \in Qcb, NEW i \in 1..Len(Waiters(k)),
         RemovablePosition(Waiters(k), i), NEW n, n = Waiters(k)[i],
         tq_remove(k, n), UNCHANGED << readyQ, waitQ >>, parked' = UNION {Listed(q)' : q \in Qcb}
  PROVE  /\ MqQueues' /\ readyQ' \in QueueType /\ link' \in LinkType
         /\ \A q \in Qcb : qcb'[q].waiters \in QueueType
         /\ Ready' = Ready /\ n \in Listed(k) /\ Listed(k)' = Listed(k) \ {n}
         /\ \A q \in Qcb \ {k} : Listed(q)' = Listed(q)
         /\ parked' = parked \ {n}
<1> DEFINE r == Q!Remove(QueueAt[k], link, n)
           s == Q!Without(HeldAt[k], i)
           G == [QueueAt EXCEPT ![k] = r.q]
           T == [HeldAt EXCEPT ![k] = s]
<1>0. Null \notin Thread
  BY NoThreads
<1>1. /\ Q!ManyQueues(Lists, QueueAt, link, HeldAt)
      /\ Ready = NodesOf(HeldAt[Null]) /\ \A q \in Qcb : Listed(q) = NodesOf(HeldAt[q])
  BY QueuesAreMany
<1>2. i \in 1..Len(HeldAt[k]) /\ Q!RemovablePosition(HeldAt[k], i) /\ n = HeldAt[k][i]
  BY QueueNames, SameOperators
<1>3. /\ Q!Replaced(Lists, k, QueueAt, G, Q!Remove(QueueAt[k], link, n).q)
      /\ Q!Replaced(Lists, k, HeldAt, T, Q!Without(HeldAt[k], i))
  BY QueueNames DEF QueueAt, HeldAt, Q!Replaced
<1>4. qcb' = [qcb EXCEPT ![k].waiters = r.q] /\ link' = r.l
  BY QueueNames, SameOperators DEF tq_remove
<1> HIDE DEF G, T
<1>5. /\ Q!ManyQueues(Lists, G, Q!Remove(QueueAt[k], link, n).l, T)
      /\ Q!NodesOf(T[k]) = Q!NodesOf(HeldAt[k]) \ {n}
      /\ n \in Q!NodesOf(HeldAt[k])
  <2>1. Q!ManyQueues(Lists, G, Q!Remove(QueueAt[k], link, n).l, T)
    BY <1>0, <1>1, <1>2, <1>3, QueueNames, Q!RemoveFromOne
  <2>2. Q!Linked(QueueAt[k], link, HeldAt[k])
    BY <1>1, QueueNames DEF Q!ManyQueues
  <2>3. Q!TakenOut(QueueAt[k], link, HeldAt[k], i, n)
    BY <1>0, <1>2, <2>2, Q!RemoveShared
  <2>4. n \in Q!NodesOf(HeldAt[k])
    BY <1>2, <2>2 DEF Q!Linked, Q!NodesOf
  <2> QED BY <1>3, <2>1, <2>3, <2>4 DEF Q!Replaced, Q!TakenOut
<1>6. NodesOf(s) = Listed(k) \ {n} /\ n \in Listed(k)
  BY <1>1, <1>3, <1>5, SameOperators DEF Q!Replaced
<1>7. Q!ManyQueues(Lists, [QueueAt EXCEPT ![k] = r.q], r.l, [HeldAt EXCEPT ![k] = s])
  BY <1>5 DEF G, T
<1> HIDE DEF r, s
<1>8. /\ MqQueues' /\ readyQ' \in QueueType /\ link' \in LinkType
      /\ \A q \in Qcb : qcb'[q].waiters \in QueueType
      /\ Ready' = Ready /\ Listed(k)' = Listed(k) \ {n}
      /\ \A q \in Qcb \ {k} : Listed(q)' = Listed(q)
      /\ parked' = (parked \ Listed(k)) \cup (Listed(k) \ {n})
  BY <1>4, <1>6, <1>7, OneListed
<1> QED BY <1>6, <1>8 DEF MqQueues

-----------------------------------------------------------------------------
(* What a thread knows when it executes *)

\* The statements at which a thread need not hold the processor.
IdlePc == WrapPc \cup WaitPc \cup {"none", "done"}

\* A thread takes its own steps between two ticks.
LEMMA MqModes ==
  ASSUME MqDisciplined, MqInv, NEW t \in Thread, Executes(t)
  PROVE  /\ ~ crashed /\ sched.pc = "tick" /\ Popped = {}
         /\ \A u \in Thread : ~ sig[u]
         /\ ~ inHandler[t]
BY DEF MqDisciplined, Executes, SignalsArrived, Popped

\* A thread that executes its program or a call is the only one to do so.
LEMMA ActsAlone ==
  ASSUME MqDisciplined, MqInv, NEW t \in Thread, Executes(t), pc[t] \notin IdlePc
  PROVE  /\ MqHolder = {t} /\ t \in Live
         /\ pc[t] \notin ReceivingPc =>
              Receiving = {} /\ runQ = t /\ t \notin Ready \cup parked
         /\ pc[t] \in ReceivingPc => Receiving = {t} /\ runQ = Null
         /\ \A u \in Thread \ {t} : pc[u] \in RestPc \cup WrapPc
<1>1. t \in MqHolder
  BY MqModes DEF MqInv, MqTurns, IdlePc
<1>2. Popped = {} /\ sched.pc = "tick" /\ Running \subseteq {runQ} \ {Null}
  BY MqModes DEF Running
<1>3. MqHolder = {t}
  BY <1>1, <1>2 DEF MqInv, MqTurns, MqHolder
<1>4. t \in Live
  BY DEF MqInv, MqQuiet, Live, IdlePc, WaitPc, WrapPc
<1>5. ASSUME pc[t] \notin ReceivingPc
      PROVE  Receiving = {} /\ runQ = t /\ t \notin Ready \cup parked
  <2>1. Receiving = {} /\ t \in Running
    BY <1>2, <1>3, <1>5 DEF MqHolder, Receiving
  <2> QED BY <1>2, <2>1 DEF Running, MqInv, MqLoop
<1>6. ASSUME pc[t] \in ReceivingPc
      PROVE  Receiving = {t} /\ runQ = Null
  BY <1>6 DEF MqInv, MqTurns, Receiving
<1>7. \A u \in Thread \ {t} : pc[u] \in RestPc \cup WrapPc
  BY <1>3, MqModes DEF MqInv, MqTurns, MqQuiet, RestPc
<1> QED BY <1>3, <1>4, <1>5, <1>6, <1>7

\* Nobody is being created while a thread is elsewhere in a call.
LEMMA NobodyCreates ==
  ASSUME MqDisciplined, MqInv, NEW t \in Thread, Executes(t), pc[t] \notin IdlePc \cup CreatePc
  PROVE  /\ ~ isPushed
         /\ \A u \in Thread : pc[u] \notin CreatePc \cup {"wrap_tcb", "wrap_jcb", "wrap_flag"}
<1>1. \A u \in Thread : pc[u] \notin CreatePc
  BY ActsAlone DEF RestPc, WaitPc, WrapPc, CreatePc
<1> QED BY <1>1 DEF MqInv, MqCreating

\* A search of all queues finds a live thread that is in nobody's hands.
LEMMA MqFound ==
  ASSUME MqDisciplined, MqInv, NEW x \in Live, Popped = {},
         \A t \in Thread : ~ Hands(t, x)
  PROVE  getThread(x) # Null
<1>1. x \in Thread /\ x # Null
  BY NoThreads DEF Live
<1>2. x \in Ready \cup parked \cup {runQ}
  BY DEF MqInv, MqPlaces
<1> QED BY <1>1, <1>2 DEF getThread

\* What u does is its own business: it goes between statements that neither
\* give up the processor nor hold somebody.
OwnMove(u) ==
  /\ pc[u] \notin {"snd_ready", "ctl_push"} \cup ReceivingPc
  /\ pc'[u] \notin {"snd_ready", "ctl_push", "rcv_wait"} \cup ReceivingPc
  /\ pc[u] = "rcv_wait" \/ pc'[u] \notin IdlePc => u \in MqHolder
  /\ u = Root => pc'[u] \notin RcvPc

\* Such steps keep places and turns.
LEMMA OwnMovesKeep ==
  ASSUME MqInv, UNCHANGED << runQ, parked, sched, mem, sig, inHandler >>, Ready' = Ready,
         \A u \in Thread : tcb'[u].bRunnable = tcb[u].bRunnable,
         \A u \in Thread : OwnMove(u) \/ (pc'[u] = pc[u] /\ loc'[u] = loc[u])
  PROVE  MqPlaces' /\ MqLoop' /\ MqTurns'
<1>1. /\ Running' = Running /\ Popped' = Popped /\ Live' = Live /\ Receiving' = Receiving
      /\ MqHolder' = MqHolder
  BY DEF Running, Popped, Live, Receiving, MqHolder, OwnMove, ReceivingPc
<1>2. \A u, x \in Thread : Hands(u, x)' <=> Hands(u, x)
  BY DEF Hands, OwnMove, ReceivingPc
<1>3. MqPlaces'
  <2>1. \A x \in Live : \/ x \in Ready \cup parked \cup Popped \cup {runQ}
                        \/ \E u \in Thread : Hands(u, x)'
    <3>1. Live \subseteq Thread
      BY DEF Live
    <3> QED BY <1>2, <3>1 DEF MqInv, MqPlaces
  <2>2. \A u, x \in Thread : Hands(u, x)' => x \in Live \ (Ready \cup parked \cup Popped \cup {runQ})
    BY <1>2 DEF MqInv, MqPlaces
  <2>3. \A u \in Thread : pc'[u] \in {"snd_ready", "ctl_push"} =>
          loc'[u].what \in Thread /\ pc'[loc'[u].what] = "rcv_wait"
    <3> SUFFICES ASSUME NEW u \in Thread, pc'[u] \in {"snd_ready", "ctl_push"}
                 PROVE  loc'[u].what \in Thread /\ pc'[loc'[u].what] = "rcv_wait"
      OBVIOUS
    <3> DEFINE x == loc[u].what
    <3>1. pc'[u] = pc[u] /\ loc'[u] = loc[u]
      BY DEF OwnMove
    <3>2. x \in Thread /\ pc[x] = "rcv_wait" /\ Hands(u, x)
      BY <3>1 DEF MqInv, MqPlaces, Hands
    <3>3. x \notin Popped \cup {runQ} /\ x \notin Receiving
      BY <3>2 DEF MqInv, MqPlaces, Receiving, ReceivingPc
    <3>4. ~ OwnMove(x)
      BY <3>2, <3>3 DEF OwnMove, MqHolder, Running
    <3> QED BY <3>1, <3>2, <3>4
  <2>4. \A u \in parked : pc'[u] \in {"rcv_type", "rcv_enter", "rcv_wait"}
    <3> SUFFICES ASSUME NEW u \in parked PROVE pc'[u] = pc[u]
      BY DEF MqInv, MqPlaces
    <3>1. u \in Thread /\ pc[u] \in {"rcv_type", "rcv_enter", "rcv_wait"} /\ u \notin Popped
      BY DEF MqInv, MqPlaces, MqTypeOK
    <3>2. u \notin Running
      BY DEF Running, MqInv, MqLoop, MqTypeOK
    <3>3. ~ OwnMove(u)
      BY <3>1, <3>2 DEF OwnMove, MqHolder, Receiving, ReceivingPc
    <3> QED BY <3>1, <3>3
  <2>5. \A u \in Thread : pc'[u] \in {"rcv_type", "rcv_enter"} => u \in parked
    BY DEF MqInv, MqPlaces, OwnMove, ReceivingPc
  <2>6. pc'[Root] \notin RcvPc \cup {"rcv_wait"}
    <3>1. Root \in Thread
      BY SchedulerAssumption
    <3> QED BY <3>1 DEF MqInv, MqPlaces, OwnMove
  <2> QED BY <1>1, <2>1, <2>2, <2>3, <2>4, <2>5, <2>6 DEF MqInv, MqPlaces
<1>4. MqLoop'
  BY <1>1 DEF MqInv, MqLoop
<1>5. MqTurns'
  <2>1. \A u \in Thread \ MqHolder : sig[u] \/ inHandler[u] \/ pc'[u] \in IdlePc
    BY DEF MqInv, MqTurns, OwnMove, IdlePc
  <2>2. \A u \in Thread : tcb'[u].bRunnable => u \in MqHolder /\ pc'[u] # "rcv_enter"
    BY DEF MqInv, MqTurns, OwnMove, ReceivingPc
  <2> QED BY <1>1, <2>1, <2>2 DEF MqInv, MqTurns, IdlePc
<1> QED BY <1>3, <1>4, <1>5

\* Only t does something, and t is at a statement of a call between ticks.
LEMMA MqQuietKept ==
  ASSUME MqDisciplined, MqInv, NEW t \in Thread, Executes(t),
         UNCHANGED << sched, sig, inHandler, mem >>,
         pc[t] \notin {"none", "wrap_tcb"},
         pc'[t] \notin JoinPc \cup ExitPc \cup SuspendPc \cup {"join_wait", "none", "wrap_tcb"},
         \A u \in Thread \ {t} : pc'[u] = pc[u]
  PROVE  MqQuiet'
<1>1. /\ sched'.pc = "tick"
      /\ \A u \in Thread : sig'[u] \/ inHandler'[u] => u # t /\ pc'[u] \in RestPc \ {"none"}
  BY MqModes DEF MqInv, MqQuiet
<1>2. \A u \in Thread : mem'[u] = IF pc'[u] \in {"none", "wrap_tcb"} THEN "none" ELSE "live"
  BY DEF MqInv, MqQuiet
<1> QED BY <1>1, <1>2 DEF MqInv, MqQuiet

\* Nobody creates, before or after.
LEMMA CreatingNobody ==
  ASSUME MqDisciplined, MqInv, NEW t \in Thread, Executes(t), pc[t] \notin IdlePc \cup CreatePc,
         isPushed' = isPushed,
         pc'[t] \notin CreatePc \cup {"wrap_tcb", "wrap_jcb", "wrap_flag"},
         \A u \in Thread \ {t} : pc'[u] = pc[u]
  PROVE  MqCreating'
BY NobodyCreates DEF MqCreating

\* The table and the free Qcbs are left alone.
LEMMA TableKept ==
  ASSUME MqInv, tbl' = tbl,
         \A q \in Qcb : qcb'[q].used = qcb[q].used /\ (qcb[q].used \/ qcb'[q] = qcb[q])
  PROVE  Table'
BY DEF MqInv, Table

\* Who does nothing knows what it knew, if no Qcb with waiting threads leaves
\* the table.
LEMMA OthersKnow ==
  ASSUME MqDisciplined, MqInv, NEW t \in Thread, Executes(t), pc[t] \notin IdlePc,
         \A s \in Slot : \/ tbl'[s].pQcb = tbl[s].pQcb \/ tbl[s].pQcb \notin Qcb
                         \/ Listed(tbl[s].pQcb) = {},
         \A q \in Qcb : Listed(q)' \subseteq Listed(q) \cup {t},
         \A u \in Thread \ {t} : pc'[u] = pc[u] /\ loc'[u] = loc[u],
         Knows(t)'
  PROVE  CallsKnow'
<1> SUFFICES ASSUME NEW u \in Thread \ {t} PROVE Knows(u)'
  BY DEF CallsKnow
<1>1. pc[u] \in RestPc \cup WrapPc
  BY ActsAlone
<1>2. Knows(u)
  BY DEF MqInv, CallsKnow
<1>3. /\ pc'[u] = pc[u] /\ loc'[u] = loc[u]
      /\ LookedUp(u) /\ Listed(loc[u].q) # {} => LookedUp(u)'
  BY DEF LookedUp
<1>4. \A q \in Qcb : u \in Listed(q)' => u \in Listed(q)
  OBVIOUS
<1>5. pc[u] \notin {"get_store"} \cup SendPc \cup CtlPc \cup RcvPc
  BY <1>1 DEF RestPc, WaitPc, WrapPc, SendPc, CtlPc, RcvPc
<1>6. pc[u] \in RcvPc \cup {"rcv_wait"} =>
        u \in Receivers /\ loc[u].slot \in Slot /\ loc[u].what \in Type
  BY <1>2 DEF Knows
<1>7. \A q \in Qcb : u \in Listed(q) => LookedUp(u) /\ loc[u].q = q
  BY <1>2 DEF Knows
<1>8. pc[u] \notin {"snd_push", "snd_wake", "ctl_free"}
  BY <1>5 DEF SendPc, CtlPc
<1> QED BY <1>3, <1>4, <1>5, <1>6, <1>7, <1>8 DEF Knows

-----------------------------------------------------------------------------
(* What searches find *)

\* The library's minimum is one.
LEMMA LeastIsFirst ==
  ASSUME NEW I, I \subseteq Nat, I # {}
  PROVE  Seqs!Min(I) \in I /\ \A y \in I : Seqs!Min(I) <= y
<1>0. Null \notin Thread
  BY NoThreads
<1>1. PICK x \in I : \A y \in I : x <= y
  BY <1>0, Q!LeastNatural
<1> QED BY <1>1 DEF Seqs!Min

\* mq_search returns the position of the first message of the type, or 0.
LEMMA MessageFound ==
  ASSUME MqTypeOK, NEW q \in Qcb, NEW k, NEW j, j = mq_search(q, k)
  PROVE  LET s == qcb[q].msgs
         IN \/ j = 0 /\ \A i \in 1..Len(s) : s[i].type # k
            \/ j \in 1..Len(s) /\ s[j].type = k /\ \A i \in 1..Len(s) : s[i].type = k => j <= i
<1> DEFINE s == qcb[q].msgs
           I == {i \in 1..Len(s) : s[i].type = k}
<1>1. j = IF I # {} THEN Seqs!Min(I) ELSE 0
  BY DEF mq_search, Seqs!SelectInSeq
<1>2. CASE I = {}
  BY <1>1, <1>2
<1>3. CASE I # {}
  <2>1. I \subseteq Nat
    OBVIOUS
  <2>2. j \in I /\ \A i \in I : j <= i
    BY <1>1, <1>3, <2>1, LeastIsFirst
  <2> QED BY <2>2
<1> QED BY <1>2, <1>3

\* tq_search returns the position of the first thread that waits for the type,
\* or 0.
LEMMA WaiterFound ==
  ASSUME NEW q \in Qcb, NEW k, NEW j, j = tq_search(q, k)
  PROVE  LET s == Waiters(q)
         IN \/ j = 0 /\ \A i \in 1..Len(s) : type[s[i]] # k
            \/ j \in 1..Len(s) /\ type[s[j]] = k /\ \A i \in 1..Len(s) : type[s[i]] = k => j <= i
<1> DEFINE s == Waiters(q)
           I == {i \in 1..Len(s) : type[s[i]] = k}
<1>1. j = IF I # {} THEN Seqs!Min(I) ELSE 0
  BY DEF tq_search, Seqs!SelectInSeq
<1> HIDE DEF s
<1>2. CASE I = {}
  BY <1>1, <1>2 DEF s
<1>3. CASE I # {}
  <2>1. I \subseteq Nat
    OBVIOUS
  <2>2. j \in I /\ \A i \in I : j <= i
    BY <1>1, <1>3, <2>1, LeastIsFirst
  <2> QED BY <2>2 DEF s
<1> QED BY <1>2, <1>3

-----------------------------------------------------------------------------
(* Steps of message calls that move nobody but their caller *)

\* The statements they lead to.
PlainPc == {"user", "get_store", "snd_push", "snd_wake", "rcv_remove", "rcv_leave", "rcv_retry",
            "ctl_pop", "ctl_free"}

\* If only its caller moves, and no list changes, places and turns stay right.
LEMMA PlainMoves ==
  ASSUME MqDisciplined, MqInv, NEW t \in Thread, Executes(t), pc[t] \notin IdlePc \cup CreatePc,
         pc[t] \notin {"snd_ready", "ctl_push"} \cup ReceivingPc,
         SameButQueues, UNCHANGED << readyQ, link, runQ, tcb >>, parked' = parked,
         NEW l \in PlainPc, Goto(t, l), t = Root => l \notin RcvPc,
         \A u \in Thread \ {t} : loc'[u] = loc[u]
  PROVE  /\ MqPlaces' /\ MqLoop' /\ MqTurns' /\ MqQuiet' /\ MqCreating'
         /\ pc'[t] = l /\ \A u \in Thread \ {t} : pc'[u] = pc[u]
<1>1. pc'[t] = l /\ \A u \in Thread \ {t} : pc'[u] = pc[u]
  BY DEF Goto, MqInv, MqTypeOK
<1>2. Ready' = Ready
  BY DEF Ready
<1>3. UNCHANGED << runQ, parked, sched, mem, sig, inHandler, tcb, isPushed >>
  BY DEF SameButQueues, sigVars
<1>4. \A u \in Thread : OwnMove(u) \/ (pc'[u] = pc[u] /\ loc'[u] = loc[u])
  <2>1. t \in MqHolder
    BY ActsAlone
  <2>2. OwnMove(t)
    BY <1>1, <2>1 DEF OwnMove, PlainPc, ReceivingPc
  <2> QED BY <1>1, <2>2
<1>5. MqPlaces' /\ MqLoop' /\ MqTurns'
  BY <1>2, <1>3, <1>4, OwnMovesKeep
<1>6. MqQuiet'
  <2>1. pc'[t] \notin JoinPc \cup ExitPc \cup SuspendPc \cup {"join_wait", "none", "wrap_tcb"}
    BY <1>1 DEF PlainPc, JoinPc, ExitPc, SuspendPc
  <2>2. pc[t] \notin {"none", "wrap_tcb"}
    BY DEF IdlePc, WrapPc
  <2> QED BY <1>1, <1>3, <2>1, <2>2, MqQuietKept
<1>7. MqCreating'
  <2>1. pc'[t] \notin CreatePc \cup {"wrap_tcb", "wrap_jcb", "wrap_flag"}
    BY <1>1 DEF PlainPc, CreatePc
  <2> QED BY <1>1, <1>3, <2>1, CreatingNobody
<1> QED BY <1>1, <1>5, <1>6, <1>7

\* The same with the lists themselves, whatever happens to messages.
LEMMA PlainStep ==
  ASSUME MqDisciplined, MqInv, NEW t \in Thread, Executes(t), pc[t] \notin IdlePc \cup CreatePc,
         pc[t] \notin {"snd_ready", "ctl_push"} \cup ReceivingPc,
         SameButQueues, UNCHANGED << readyQ, link, runQ, tcb >>, parked' = parked,
         \A q \in Qcb : qcb'[q].waiters = qcb[q].waiters,
         NEW l \in PlainPc, Goto(t, l), t = Root => l \notin RcvPc,
         \A u \in Thread \ {t} : loc'[u] = loc[u]
  PROVE  /\ MqQueues' /\ MqPlaces' /\ MqLoop' /\ MqTurns' /\ MqQuiet' /\ MqCreating'
         /\ \A q \in Qcb : Listed(q)' = Listed(q)
         /\ pc'[t] = l /\ \A u \in Thread \ {t} : pc'[u] = pc[u]
<1>1. MqQueues' /\ \A q \in Qcb : Listed(q)' = Listed(q)
  BY QueuesRest DEF MqInv, SameButQueues
<1>2. /\ MqPlaces' /\ MqLoop' /\ MqTurns' /\ MqQuiet' /\ MqCreating'
      /\ pc'[t] = l /\ \A u \in Thread \ {t} : pc'[u] = pc[u]
  BY PlainMoves
<1> QED BY <1>1, <1>2

\* The types of what message calls store.
QcbType == [used : BOOLEAN, msgs : Seq(Message), waiters : QueueType, sent : Seq(Sending)]
LocType == [slot : Slot \cup {Null}, q : Qcb \cup {Null},
            what : Key \cup Type \cup Message \cup Thread \cup {Null}]
TblType == [key : Key \cup {NoKey}, pQcb : Qcb \cup {Null}]

\* A step of a call keeps the types if what it stores has them.
LEMMA CallTypes ==
  ASSUME MqInv, SameButQueues,
         readyQ' \in QueueType, link' \in LinkType, runQ' \in Pointer,
         tcb' \in [Thread -> TcbType], type' \in [Thread -> Type \cup {Garbage}],
         parked' \subseteq Thread,
         NEW t \in Thread, NEW l \in MqPc \cup RestPc, Goto(t, l),
         tbl' \in [Slot -> TblType], qcb' \in [Qcb -> QcbType], loc' \in [Thread -> LocType]
  PROVE  MqTypeOK'
<1>1. pc' \in [Thread -> PcType \cup MqPc]
  BY DEF MqInv, MqTypeOK, Goto, PcType
<1> QED BY <1>1 DEF MqInv, MqTypeOK, SameButQueues, sigVars, QcbType, LocType, TblType

\* The same for steps that only see messages and the table.
LEMMA MessageTypes ==
  ASSUME MqInv, SameButQueues, UNCHANGED << readyQ, link, runQ, tcb, type >>, parked' \subseteq Thread,
         NEW t \in Thread, NEW l \in PlainPc, Goto(t, l),
         tbl' \in [Slot -> TblType], qcb' \in [Qcb -> QcbType], loc' \in [Thread -> LocType]
  PROVE  MqTypeOK'
<1>1. l \in MqPc \cup RestPc
  BY DEF PlainPc, RestPc, MqPc, SendPc, RcvPc, CtlPc
<1> QED BY <1>1, CallTypes DEF MqInv, MqTypeOK

\* What is in the memory for Qcbs.
LEMMA QcbTyped ==
  ASSUME MqInv
  PROVE  \A q \in Qcb : /\ qcb[q] \in QcbType /\ qcb[q].msgs \in Seq(Message)
                        /\ qcb[q].sent \in Seq(Sending) /\ qcb[q].waiters \in QueueType
BY DEF MqInv, MqTypeOK, QcbType

\* What is in local variables.
LEMMA LocTyped ==
  ASSUME MqInv
  PROVE  \A t \in Thread : loc[t] \in LocType
BY DEF MqInv, MqTypeOK, LocType

\* A store to one Qcb.
LEMMA QcbStored ==
  ASSUME MqInv, NEW q \in Qcb, NEW v \in QcbType, qcb' = [qcb EXCEPT ![q] = v]
  PROVE  qcb' \in [Qcb -> QcbType] /\ qcb'[q] = v /\ \A r \in Qcb \ {q} : qcb'[r] = qcb[r]
BY DEF MqInv, MqTypeOK, QcbType

\* If it keeps what the table and the lists look at, so do all Qcbs.
LEMMA OneQcbChanged ==
  ASSUME MqInv, NEW q \in Qcb, qcb[q].used, qcb' \in [Qcb -> QcbType],
         qcb'[q].used, qcb'[q].waiters = qcb[q].waiters, \A r \in Qcb \ {q} : qcb'[r] = qcb[r]
  PROVE  \A r \in Qcb : /\ qcb'[r].used = qcb[r].used /\ qcb'[r].waiters = qcb[r].waiters
                        /\ qcb[r].used \/ qcb'[r] = qcb[r]
<1>1. \A r \in Qcb : qcb[r].used \in BOOLEAN /\ qcb'[r].used \in BOOLEAN
  BY DEF MqInv, MqTypeOK, QcbType
<1>2. qcb'[q].used = qcb[q].used
  BY <1>1
<1> QED BY <1>2

\* A store to one thread's local variables.
LEMMA LocStored ==
  ASSUME MqInv, NEW t \in Thread, NEW v \in LocType, loc' = [loc EXCEPT ![t] = v]
  PROVE  loc' \in [Thread -> LocType] /\ loc'[t] = v /\ \A u \in Thread \ {t} : loc'[u] = loc[u]
BY DEF MqInv, MqTypeOK, LocType

\* A thread outside of calls has local variables, too.
LEMMA NoLocalsTyped == NoLocals \in LocType
BY DEF NoLocals, LocType

\* A call that returns knows nothing any more.
LEMMA BackInProgram ==
  ASSUME NEW t \in Thread, pc'[t] = "user", \A q \in Qcb : t \notin Listed(q)'
  PROVE  Knows(t)'
<1>1. pc'[t] \notin {"get_store"} \cup SendPc \cup CtlPc \cup RcvPc \cup {"rcv_wait"}
  BY DEF SendPc, CtlPc, RcvPc
<1> QED BY <1>1 DEF Knows, SendPc, CtlPc, RcvPc

\* Who acts in no waiting list is in none.
LEMMA NotListed ==
  ASSUME MqInv, NEW t \in Thread, t \notin parked
  PROVE  \A q \in Qcb : t \notin Listed(q)
BY DEF MqInv, MqQueues

-----------------------------------------------------------------------------
(* mymsgget, mymsgsnd *)

\* mymsgget finds an unused entry.
LEMMA GetKeeps ==
  ASSUME MqDisciplined, MqInv, NEW t \in Thread, NEW k \in Key, Get(t, k)
  PROVE  MqInv'
<1>1. PICK s \in Slot :
        /\ tbl[s].key = NoKey
        /\ loc' = [loc EXCEPT ![t] = [@ EXCEPT !.slot = s, !.what = k]]
  BY DEF Get
<1>2. /\ Executes(t) /\ pc[t] = "user" /\ Goto(t, "get_store") /\ SameButQueues
      /\ UNCHANGED << readyQ, link, runQ, tcb, parked, tbl, qcb, type >>
      /\ \A r \in Slot : tbl[r].key # k
  BY DEF Get, AtCall
<1>3. pc[t] \notin IdlePc \cup CreatePc \cup {"snd_ready", "ctl_push"} \cup ReceivingPc
  BY <1>2 DEF IdlePc, WrapPc, WaitPc, CreatePc, ReceivingPc
<1>4. /\ loc' \in [Thread -> LocType] /\ \A u \in Thread \ {t} : loc'[u] = loc[u]
      /\ loc'[t].slot = s /\ loc'[t].what = k
  <2> DEFINE v == [loc[t] EXCEPT !.slot = s, !.what = k]
  <2>1. v \in LocType /\ v.slot = s /\ v.what = k
    <3>1. loc[t] \in LocType
      BY LocTyped
    <3> QED BY <3>1 DEF LocType
  <2>2. loc' = [loc EXCEPT ![t] = v]
    BY <1>1
  <2> HIDE DEF v
  <2> QED BY <2>1, <2>2, LocStored
<1>5. /\ MqQueues' /\ MqPlaces' /\ MqLoop' /\ MqTurns' /\ MqQuiet' /\ MqCreating'
      /\ \A q \in Qcb : Listed(q)' = Listed(q)
      /\ pc'[t] = "get_store" /\ \A u \in Thread \ {t} : pc'[u] = pc[u]
  <2>1. "get_store" \in PlainPc /\ "get_store" \notin RcvPc
    BY DEF PlainPc, RcvPc
  <2> QED BY <1>2, <1>3, <1>4, <2>1, PlainStep
<1>6. MqTypeOK'
  <2>1. "get_store" \in PlainPc
    BY DEF PlainPc
  <2>2. qcb' \in [Qcb -> QcbType] /\ tbl' = tbl /\ parked' \subseteq Thread
    BY <1>2 DEF MqInv, MqTypeOK, QcbType
  <2> QED BY <1>2, <1>4, <2>1, <2>2, MessageTypes DEF MqInv, MqTypeOK, TblType
<1>7. Table'
  BY <1>2, TableKept DEF MqInv, MqTypeOK
<1>8. CallsKnow'
  <2>1. t \notin parked
    BY <1>2, <1>3, ActsAlone
  <2>2. Knows(t)'
    BY <1>1, <1>2, <1>4, <1>5, <2>1, NotListed DEF Knows, SendPc, CtlPc, RcvPc
  <2> QED BY <1>2, <1>3, <1>4, <1>5, <2>2, OthersKnow
<1> QED BY <1>5, <1>6, <1>7, <1>8 DEF MqInv

\* The Qcb of a slot in use is in use.
LEMMA SlotUsed ==
  ASSUME MqInv, NEW s \in Slot, tbl[s].pQcb # Null
  PROVE  tbl[s].pQcb \in Qcb /\ qcb[tbl[s].pQcb].used
BY DEF MqInv, MqTypeOK, Table

\* mymsgsnd looks up the Qcb.
LEMMA SendKeeps ==
  ASSUME MqDisciplined, MqInv, NEW t \in Thread, NEW s \in Slot, NEW k \in Type, Send(t, s, k)
  PROVE  MqInv'
<1> DEFINE q == tbl[s].pQcb
           m == [type |-> k, id |-> Len(qcb[q].sent) + 1]
           v == [qcb[q] EXCEPT !.sent = Append(@, [type |-> k, by |-> {}])]
<1>1. /\ qcb' = [qcb EXCEPT ![q] = v]
      /\ loc' = [loc EXCEPT ![t] = [slot |-> s, q |-> q, what |-> m]]
  BY DEF Send
<1>2. /\ Executes(t) /\ pc[t] = "user" /\ Goto(t, "snd_push") /\ SameButQueues
      /\ UNCHANGED << readyQ, link, runQ, tcb, parked, tbl, type >>
      /\ q \in Qcb /\ qcb[q].used
  BY SlotUsed DEF Send, AtCall
<1>3. pc[t] \notin IdlePc \cup CreatePc \cup {"snd_ready", "ctl_push"} \cup ReceivingPc
  BY <1>2 DEF IdlePc, WrapPc, WaitPc, CreatePc, ReceivingPc
<1>4. m \in Message
  BY <1>2 DEF MqInv, MqTypeOK, Message
<1>5. v \in QcbType /\ v.waiters = qcb[q].waiters /\ v.used
  <2>1. [type |-> k, by |-> {}] \in Sending
    BY DEF Sending
  <2> DEFINE r == qcb[q]
             x == Append(r.sent, [type |-> k, by |-> {}])
  <2>2. r \in QcbType /\ x \in Seq(Sending) /\ r.used
    BY <1>2, <2>1, QcbTyped
  <2>3. v = [r EXCEPT !.sent = x]
    OBVIOUS
  <2> HIDE DEF r, x, v
  <2>4. v \in QcbType /\ v.waiters = r.waiters /\ v.used
    BY <2>2, <2>3 DEF QcbType
  <2> QED BY <2>4 DEF r
<1> HIDE DEF m, v
<1>6. /\ loc' \in [Thread -> LocType] /\ \A u \in Thread \ {t} : loc'[u] = loc[u]
      /\ loc'[t].slot = s /\ loc'[t].what = m /\ loc'[t].q = q
  <2>1. [slot |-> s, q |-> q, what |-> m] \in LocType
    BY <1>2, <1>4 DEF LocType
  <2> QED BY <1>1, <2>1, LocStored
<1>7. /\ qcb' \in [Qcb -> QcbType] /\ qcb'[q] = v /\ \A r \in Qcb \ {q} : qcb'[r] = qcb[r]
  BY <1>1, <1>2, <1>5, QcbStored
<1> HIDE DEF q
<1>8. /\ MqQueues' /\ MqPlaces' /\ MqLoop' /\ MqTurns' /\ MqQuiet' /\ MqCreating'
      /\ \A r \in Qcb : Listed(r)' = Listed(r)
      /\ pc'[t] = "snd_push" /\ \A u \in Thread \ {t} : pc'[u] = pc[u]
  <2>1. "snd_push" \in PlainPc /\ "snd_push" \notin RcvPc
    BY DEF PlainPc, RcvPc
  <2>2. \A r \in Qcb : qcb'[r].waiters = qcb[r].waiters
    BY <1>5, <1>7
  <2> QED BY <1>2, <1>3, <1>6, <2>1, <2>2, PlainStep
<1>9. MqTypeOK'
  <2>1. "snd_push" \in PlainPc
    BY DEF PlainPc
  <2>2. tbl' = tbl /\ parked' \subseteq Thread
    BY <1>2 DEF MqInv, MqTypeOK
  <2> QED BY <1>2, <1>6, <1>7, <2>1, <2>2, MessageTypes DEF MqInv, MqTypeOK, TblType
<1>10. Table'
  <2>1. \A r \in Qcb : qcb'[r].used = qcb[r].used /\ (qcb[r].used \/ qcb'[r] = qcb[r])
    BY <1>2, <1>5, <1>7, OneQcbChanged
  <2> QED BY <1>2, <2>1, TableKept
<1>11. CallsKnow'
  <2>1. t \notin parked
    BY <1>2, <1>3, ActsAlone
  <2>2. LookedUp(t)'
    BY <1>2, <1>6 DEF LookedUp, q
  <2>3. Knows(t)'
    BY <1>4, <1>6, <1>8, <2>1, <2>2, NotListed DEF Knows, SendPc, CtlPc, RcvPc
  <2> QED BY <1>2, <1>3, <1>6, <1>8, <2>3, OthersKnow
<1> QED BY <1>8, <1>9, <1>10, <1>11 DEF MqInv

\* The message is queued.
LEMMA SendPushKeeps ==
  ASSUME MqDisciplined, MqInv, NEW t \in Thread, SendPush(t)
  PROVE  MqInv'
<1> DEFINE q == loc[t].q
           v == [qcb[q] EXCEPT !.msgs = Append(@, loc[t].what)]
<1>1. qcb' = [qcb EXCEPT ![q] = v] /\ loc' = loc
  BY DEF SendPush, mq_push
<1>2. /\ Executes(t) /\ pc[t] = "snd_push" /\ Goto(t, "snd_wake") /\ SameButQueues
      /\ UNCHANGED << readyQ, link, runQ, tcb, parked, tbl, type >>
  BY DEF SendPush, At
<1>3. pc[t] \notin IdlePc \cup CreatePc \cup {"snd_ready", "ctl_push"} \cup ReceivingPc
  BY <1>2 DEF IdlePc, WrapPc, WaitPc, CreatePc, ReceivingPc
<1>4. q \in Qcb /\ LookedUp(t) /\ loc[t].what \in Message /\ qcb[q].used
  <2>1. LookedUp(t) /\ loc[t].what \in Message
    BY <1>2 DEF MqInv, CallsKnow, Knows, SendPc
  <2>2. loc[t].slot \in Slot /\ q \in Qcb /\ tbl[loc[t].slot].pQcb = q /\ q # Null
    BY <2>1, MsgQueueAssumption DEF LookedUp
  <2> QED BY <2>1, <2>2, SlotUsed
<1>5. v \in QcbType /\ v.waiters = qcb[q].waiters /\ v.used
  <2> DEFINE r == qcb[q]
             x == Append(r.msgs, loc[t].what)
  <2>1. r \in QcbType /\ x \in Seq(Message) /\ r.used
    BY <1>4, QcbTyped
  <2>2. v = [r EXCEPT !.msgs = x]
    OBVIOUS
  <2> HIDE DEF r, x, v
  <2>3. v \in QcbType /\ v.waiters = r.waiters /\ v.used
    BY <2>1, <2>2 DEF QcbType
  <2> QED BY <2>3 DEF r
<1> HIDE DEF v
<1>7. qcb' \in [Qcb -> QcbType] /\ qcb'[q] = v /\ \A r \in Qcb \ {q} : qcb'[r] = qcb[r]
  BY <1>1, <1>4, <1>5, QcbStored
<1>8. /\ MqQueues' /\ MqPlaces' /\ MqLoop' /\ MqTurns' /\ MqQuiet' /\ MqCreating'
      /\ \A r \in Qcb : Listed(r)' = Listed(r)
      /\ pc'[t] = "snd_wake" /\ \A u \in Thread \ {t} : pc'[u] = pc[u]
  <2>1. "snd_wake" \in PlainPc /\ "snd_wake" \notin RcvPc
    BY DEF PlainPc, RcvPc
  <2>2. \A r \in Qcb : qcb'[r].waiters = qcb[r].waiters
    BY <1>5, <1>7
  <2> QED BY <1>1, <1>2, <1>3, <2>1, <2>2, PlainStep
<1>9. MqTypeOK'
  <2>1. "snd_wake" \in PlainPc
    BY DEF PlainPc
  <2>2. tbl' = tbl /\ parked' \subseteq Thread /\ loc' \in [Thread -> LocType]
    BY <1>1, <1>2 DEF MqInv, MqTypeOK, LocType
  <2> QED BY <1>2, <1>7, <2>1, <2>2, MessageTypes DEF MqInv, MqTypeOK, TblType
<1>10. Table'
  <2>1. \A r \in Qcb : qcb'[r].used = qcb[r].used /\ (qcb[r].used \/ qcb'[r] = qcb[r])
    <3> HIDE DEF q
    <3> QED BY <1>4, <1>5, <1>7, OneQcbChanged
  <2> QED BY <1>2, <2>1, TableKept
<1>11. CallsKnow'
  <2>1. t \notin parked
    BY <1>2, <1>3, ActsAlone
  <2>2. LookedUp(t)' /\ loc'[t].what \in Message
    BY <1>1, <1>2, <1>4 DEF LookedUp
  <2>3. \A r \in Qcb : t \notin Listed(r)'
    BY <1>8, <2>1, NotListed
  <2>4. /\ pc'[t] \notin {"get_store", "ctl_free", "rcv_wait"}
        /\ pc'[t] \notin CtlPc /\ pc'[t] \notin RcvPc
    BY <1>8 DEF CtlPc, RcvPc
  <2>5. Knows(t)'
    BY <2>2, <2>3, <2>4 DEF Knows
  <2> QED BY <1>1, <1>2, <1>3, <1>8, <2>5, OthersKnow
<1> QED BY <1>8, <1>9, <1>10, <1>11 DEF MqInv

-----------------------------------------------------------------------------
(* mymsgrcv: what does not give up the processor *)

\* A name is entered with one message.
LEMMA NameEntered ==
  ASSUME NEW s \in Seq(Sending), NEW id, NEW t \in Thread,
         NEW x, x = [s EXCEPT ![id] = [s[id] EXCEPT !.by = s[id].by \cup {t}]]
  PROVE  /\ x \in Seq(Sending) /\ Len(x) = Len(s) /\ DOMAIN x = DOMAIN s
         /\ \A j \in DOMAIN s : /\ x[j].type = s[j].type
                               /\ x[j].by = IF j = id THEN s[j].by \cup {t} ELSE s[j].by
<1> DEFINE n == Len(s)
           w == [s[id] EXCEPT !.by = s[id].by \cup {t}]
<1>1. n \in Nat /\ DOMAIN s = 1..n /\ s \in [1..n -> Sending]
  OBVIOUS
<1>2. id \in 1..n => /\ w \in Sending /\ w.type = s[id].type
                     /\ w.by = s[id].by \cup {t}
  <2> DEFINE o == s[id]
  <2>1. id \in 1..n => o \in Sending
    BY <1>1
  <2> HIDE DEF o
  <2>2. o \in Sending => LET p == [o EXCEPT !.by = o.by \cup {t}]
                         IN p \in Sending /\ p.type = o.type /\ p.by = o.by \cup {t}
    BY DEF Sending
  <2> QED BY <2>1, <2>2 DEF o
<1>3. x = [s EXCEPT ![id] = w]
  OBVIOUS
<1> HIDE DEF n, w
<1>4. /\ x \in [1..n -> Sending] /\ DOMAIN x = 1..n
      /\ \A j \in 1..n : x[j] = IF j = id THEN w ELSE s[j]
  BY <1>1, <1>2, <1>3
<1>5. x \in Seq(Sending)
  BY <1>1, <1>4
<1>6. Len(x) = n
  BY <1>1, <1>4, <1>5
<1> QED BY <1>1, <1>2, <1>4, <1>5, <1>6 DEF n

\* A store to what is noted of the messages sent to a Qcb.
LEMMA EntryStored ==
  ASSUME MqInv, NEW q \in Qcb, NEW x \in Seq(Sending), qcb[q].used,
         qcb' = [qcb EXCEPT ![q] = [qcb[q] EXCEPT !.sent = x]]
  PROVE  /\ qcb' \in [Qcb -> QcbType] /\ \A r \in Qcb \ {q} : qcb'[r] = qcb[r]
         /\ qcb'[q].used /\ qcb'[q].waiters = qcb[q].waiters
         /\ qcb'[q].msgs = qcb[q].msgs /\ qcb'[q].sent = x
<1> DEFINE r == qcb[q]
           v == [r EXCEPT !.sent = x]
<1>1. r \in QcbType /\ r.used
  BY QcbTyped
<1>2. qcb' = [qcb EXCEPT ![q] = v]
  OBVIOUS
<1> HIDE DEF r
<1>3. v \in QcbType /\ v.waiters = r.waiters /\ v.used /\ v.msgs = r.msgs /\ v.sent = x
  BY <1>1 DEF QcbType
<1> HIDE DEF v
<1>4. qcb' \in [Qcb -> QcbType] /\ qcb'[q] = v /\ \A u \in Qcb \ {q} : qcb'[u] = qcb[u]
  BY <1>2, <1>3, QcbStored
<1> QED BY <1>3, <1>4 DEF r

\* A copy enters the receiver's name with the message and changes nothing else.
LEMMA CopyStores ==
  ASSUME MqInv, NEW t \in Thread, NEW q \in Qcb, qcb[q].used, NEW i \in 1..Len(qcb[q].msgs),
         Copy(t, q, i)
  PROVE  /\ qcb' \in [Qcb -> QcbType] /\ \A r \in Qcb \ {q} : qcb'[r] = qcb[r]
         /\ qcb'[q].used /\ qcb'[q].waiters = qcb[q].waiters /\ qcb'[q].msgs = qcb[q].msgs
<1> DEFINE s == qcb[q].sent
           id == qcb[q].msgs[i].id
           x == [s EXCEPT ![id] = [s[id] EXCEPT !.by = s[id].by \cup {t}]]
<1>1. qcb' = [qcb EXCEPT ![q] = [qcb[q] EXCEPT !.sent = x]]
  BY DEF Copy
<1>2. s \in Seq(Sending)
  BY QcbTyped
<1>3. x \in Seq(Sending)
  <2> HIDE DEF s, id
  <2> QED BY <1>2, NameEntered
<1> HIDE DEF x
<1> QED BY <1>1, <1>3, EntryStored

\* A removal takes messages away and changes nothing else.
LEMMA RemoveStores ==
  ASSUME MqInv, NEW q \in Qcb, qcb[q].used, NEW k, mq_remove(q, k)
  PROVE  /\ qcb' \in [Qcb -> QcbType] /\ \A r \in Qcb \ {q} : qcb'[r] = qcb[r]
         /\ qcb'[q].used /\ qcb'[q].waiters = qcb[q].waiters /\ qcb'[q].sent = qcb[q].sent
<1> DEFINE r == qcb[q]
           x == Seqs!RemoveFirstMatch(r.msgs, LAMBDA m : m.type = k)
           v == [r EXCEPT !.msgs = x]
<1>1. r \in QcbType /\ r.msgs \in Seq(Message) /\ r.used
  BY QcbTyped
<1>2. qcb' = [qcb EXCEPT ![q] = v]
  BY DEF mq_remove
<1>3. x \in Seq(Message)
  <2> DEFINE s == r.msgs
  <2>1. s \in Seq(Message)
    BY <1>1
  <2> HIDE DEF r, s
  <2>2. CASE \E i \in 1..Len(s) : s[i].type = k
    <3> DEFINE I == {i \in 1..Len(s) : s[i].type = k}
               j == Seqs!Min(I)
    <3>1. I \subseteq Nat /\ I # {}
      BY <2>2
    <3>2. j \in 1..Len(s)
      BY <3>1, LeastIsFirst
    <3>3. Seqs!RemoveFirstMatch(s, LAMBDA m : m.type = k) = SubSeq(s, 1, j - 1) \o SubSeq(s, j + 1, Len(s))
      BY <2>2, <3>1 DEF Seqs!RemoveFirstMatch, Seqs!RemoveAt, Seqs!SelectInSeq
    <3> HIDE DEF j
    <3> DEFINE a == SubSeq(s, 1, j - 1)
               b == SubSeq(s, j + 1, Len(s))
    <3>4. a \in Seq(Message) /\ b \in Seq(Message)
      BY <2>1, <3>2
    <3> HIDE DEF a, b
    <3>5. a \o b \in Seq(Message)
      BY <3>4
    <3>6. Seqs!RemoveFirstMatch(s, LAMBDA m : m.type = k) \in Seq(Message)
      BY <3>3, <3>5 DEF a, b
    <3> QED BY <3>6 DEF s
  <2>3. CASE ~ \E i \in 1..Len(s) : s[i].type = k
    <3>1. Seqs!RemoveFirstMatch(s, LAMBDA m : m.type = k) = s
      BY <2>3 DEF Seqs!RemoveFirstMatch
    <3> QED BY <2>1, <3>1 DEF s
  <2> QED BY <2>2, <2>3
<1> HIDE DEF r, x
<1>4. v \in QcbType /\ v.waiters = r.waiters /\ v.used /\ v.sent = r.sent
  BY <1>1, <1>3 DEF QcbType
<1> HIDE DEF v
<1> QED BY <1>2, <1>4, QcbStored DEF r

\* Where it leads.
LEMMA CopyGoes ==
  ASSUME NEW t, NEW q, NEW i, Copy(t, q, i)
  PROVE  Goto(t, "rcv_remove") /\ "rcv_remove" \in PlainPc
<1>1. Goto(t, "rcv_remove")
  BY Zenon DEF Copy
<1> QED BY <1>1 DEF PlainPc

\* What remains of a step of one call that stays with the Qcb q.
LEMMA QcbStep ==
  ASSUME MqDisciplined, MqInv, NEW t \in Thread, Executes(t), pc[t] \notin IdlePc \cup CreatePc,
         pc[t] \notin {"snd_ready", "ctl_push"} \cup ReceivingPc,
         SameButQueues, UNCHANGED << readyQ, link, runQ, tcb, parked, tbl, type >>,
         NEW l \in PlainPc, Goto(t, l), t = Root => l \notin RcvPc,
         loc' \in [Thread -> LocType], \A u \in Thread \ {t} : loc'[u] = loc[u],
         qcb' \in [Qcb -> QcbType],
         \A q \in Qcb : /\ qcb'[q].used = qcb[q].used /\ qcb'[q].waiters = qcb[q].waiters
                        /\ qcb[q].used \/ qcb'[q] = qcb[q],
         l # "user" => t \in Receivers /\ LookedUp(t)' /\ loc'[t].what \in Type,
         l \in {"user", "rcv_remove", "rcv_leave"}
  PROVE  MqInv'
<1>1. /\ MqQueues' /\ MqPlaces' /\ MqLoop' /\ MqTurns' /\ MqQuiet' /\ MqCreating'
      /\ \A r \in Qcb : Listed(r)' = Listed(r)
      /\ pc'[t] = l /\ \A u \in Thread \ {t} : pc'[u] = pc[u]
  BY PlainStep
<1>2. MqTypeOK'
  BY MessageTypes DEF MqInv, MqTypeOK, TblType
<1>3. Table'
  BY TableKept DEF MqInv, MqTypeOK
<1>4. CallsKnow'
  <2>1. t \notin parked
    BY ActsAlone
  <2>2. \A r \in Qcb : t \notin Listed(r)'
    BY <1>1, <2>1, NotListed
  <2>3. Knows(t)'
    BY <1>1, <2>2 DEF Knows, SendPc, CtlPc, RcvPc, LookedUp
  <2> QED BY <1>1, <2>3, OthersKnow
<1> QED BY <1>1, <1>2, <1>3, <1>4 DEF MqInv

\* mymsgrcv finds a message, or none.
LEMMA ReceiveKeeps ==
  ASSUME MqDisciplined, MqInv, NEW t \in Thread, NEW s \in Slot, NEW k \in Type, Receive(t, s, k)
  PROVE  MqInv'
<1> DEFINE q == tbl[s].pQcb
           i == mq_search(q, k)
<1>1. /\ Executes(t) /\ pc[t] = "user" /\ SameButQueues /\ t # Root /\ t \in Receivers
      /\ UNCHANGED << readyQ, link, runQ, tcb, parked, tbl, type >>
      /\ q \in Qcb /\ qcb[q].used
      /\ loc' = [loc EXCEPT ![t] = [slot |-> s, q |-> q, what |-> k]]
      /\ IF i = 0 THEN Goto(t, "rcv_leave") /\ qcb' = qcb ELSE Copy(t, q, i)
  BY SlotUsed DEF Receive, AtCall, MqDisciplined
<1>2. pc[t] \notin IdlePc \cup CreatePc \cup {"snd_ready", "ctl_push"} \cup ReceivingPc
  BY <1>1 DEF IdlePc, WrapPc, WaitPc, CreatePc, ReceivingPc
<1>3. /\ loc' \in [Thread -> LocType] /\ \A u \in Thread \ {t} : loc'[u] = loc[u]
      /\ loc'[t].slot = s /\ loc'[t].what = k /\ loc'[t].q = q
  <2>1. [slot |-> s, q |-> q, what |-> k] \in LocType
    BY <1>1 DEF LocType
  <2> QED BY <1>1, <2>1, LocStored
<1>4. LookedUp(t)'
  BY <1>1, <1>3 DEF LookedUp
<1>5. i = 0 \/ i \in 1..Len(qcb[q].msgs)
  <2>1. MqTypeOK
    BY DEF MqInv
  <2> HIDE DEF q
  <2> QED BY <1>1, <2>1, MessageFound
<1> HIDE DEF q, i
<1>6. CASE i = 0
  <2>1. Goto(t, "rcv_leave") /\ qcb' = qcb /\ "rcv_leave" \in PlainPc
    BY <1>1, <1>6 DEF PlainPc
  <2>2. qcb' \in [Qcb -> QcbType]
    BY <2>1 DEF MqInv, MqTypeOK, QcbType
  <2> QED BY <1>1, <1>2, <1>3, <1>4, <2>1, <2>2, QcbStep
<1>7. CASE i # 0
  <2>0. Copy(t, q, i)
    BY <1>1, <1>7
  <2>1. Goto(t, "rcv_remove") /\ "rcv_remove" \in PlainPc /\ Copy(t, q, i)
    BY <2>0, CopyGoes
  <2>2. /\ qcb' \in [Qcb -> QcbType] /\ \A r \in Qcb \ {q} : qcb'[r] = qcb[r]
        /\ qcb'[q].used /\ qcb'[q].waiters = qcb[q].waiters
    BY <1>1, <1>5, <1>7, <2>1, CopyStores
  <2>3. \A r \in Qcb : /\ qcb'[r].used = qcb[r].used /\ qcb'[r].waiters = qcb[r].waiters
                       /\ qcb[r].used \/ qcb'[r] = qcb[r]
    BY <1>1, <2>2, OneQcbChanged
  <2> QED BY <1>1, <1>2, <1>3, <1>4, <2>1, <2>2, <2>3, QcbStep
<1> QED BY <1>6, <1>7

\* The message that was copied leaves the queue.
LEMMA ReceiveRemoveKeeps ==
  ASSUME MqDisciplined, MqInv, NEW t \in Thread, ReceiveRemove(t)
  PROVE  MqInv'
<1> DEFINE q == loc[t].q
<1>1. /\ Executes(t) /\ pc[t] = "rcv_remove" /\ SameButQueues
      /\ UNCHANGED << readyQ, link, runQ, tcb, parked, tbl, type >>
      /\ mq_remove(q, loc[t].what)
      /\ Goto(t, "user") /\ loc' = [loc EXCEPT ![t] = NoLocals]
  BY DEF ReceiveRemove, At, Done
<1>2. pc[t] \notin IdlePc \cup CreatePc \cup {"snd_ready", "ctl_push"} \cup ReceivingPc
  BY <1>1 DEF IdlePc, WrapPc, WaitPc, CreatePc, ReceivingPc
<1>3. q \in Qcb /\ qcb[q].used
  <2>1. LookedUp(t)
    BY <1>1 DEF MqInv, CallsKnow, Knows, RcvPc
  <2> QED BY <2>1, SlotUsed, MsgQueueAssumption DEF LookedUp
<1>4. loc' \in [Thread -> LocType] /\ \A u \in Thread \ {t} : loc'[u] = loc[u]
  BY <1>1, NoLocalsTyped, LocStored
<1> HIDE DEF q
<1>5. /\ qcb' \in [Qcb -> QcbType] /\ \A r \in Qcb \ {q} : qcb'[r] = qcb[r]
      /\ qcb'[q].used /\ qcb'[q].waiters = qcb[q].waiters
  BY <1>1, <1>3, RemoveStores
<1>6. \A r \in Qcb : /\ qcb'[r].used = qcb[r].used /\ qcb'[r].waiters = qcb[r].waiters
                     /\ qcb[r].used \/ qcb'[r] = qcb[r]
  BY <1>3, <1>5, OneQcbChanged
<1>7. "user" \in PlainPc /\ "user" \notin RcvPc
  BY DEF PlainPc, RcvPc
<1> QED BY <1>1, <1>2, <1>4, <1>5, <1>6, <1>7, QcbStep

\* A receiver that was woken searches again, in the Qcb its slot has now.
LEMMA ReceiveRetryKeeps ==
  ASSUME MqDisciplined, MqInv, NEW t \in Thread, ReceiveRetry(t)
  PROVE  MqInv'
<1>0. MqTypeOK
  BY DEF MqInv
<1> DEFINE s == loc[t].slot
           k == loc[t].what
           q == tbl[s].pQcb
           i == IF q = Null THEN 0 ELSE mq_search(q, k)
<1>1. /\ Executes(t) /\ pc[t] = "rcv_retry" /\ SameButQueues
      /\ UNCHANGED << readyQ, link, runQ, tcb, parked, tbl, type >>
  BY DEF ReceiveRetry, At
<1>2. pc[t] \notin IdlePc \cup CreatePc \cup {"snd_ready", "ctl_push"} \cup ReceivingPc
  BY <1>1 DEF IdlePc, WrapPc, WaitPc, CreatePc, ReceivingPc
<1>3. s \in Slot /\ k \in Type /\ t # Root /\ t \in Receivers
  BY <1>1 DEF MqInv, CallsKnow, Knows, MqPlaces, RcvPc
<1>4. IF i = 0 THEN Done(t) /\ qcb' = qcb ELSE Copy(t, q, i) /\ loc' = [loc EXCEPT ![t].q = q]
  BY DEF ReceiveRetry
<1>5. CASE i = 0
  <2>1. /\ Goto(t, "user") /\ loc' = [loc EXCEPT ![t] = NoLocals] /\ qcb' = qcb
        /\ "user" \in PlainPc /\ "user" \notin RcvPc
    BY <1>4, <1>5 DEF Done, PlainPc, RcvPc
  <2>2. loc' \in [Thread -> LocType] /\ \A u \in Thread \ {t} : loc'[u] = loc[u]
    BY <2>1, NoLocalsTyped, LocStored
  <2>3. qcb' \in [Qcb -> QcbType]
    BY <2>1 DEF MqInv, MqTypeOK, QcbType
  <2> QED BY <1>1, <1>2, <2>1, <2>2, <2>3, QcbStep
<1>6. CASE i # 0
  <2>1. q # Null /\ q \in Qcb /\ qcb[q].used /\ i = mq_search(q, k)
    BY <1>3, <1>6, SlotUsed
  <2>2. i \in 1..Len(qcb[q].msgs)
    <3> HIDE DEF q, k, i
    <3> QED BY <1>0, <1>6, <2>1, MessageFound
  <2> HIDE DEF i
  <2>3. Copy(t, q, i) /\ loc' = [loc EXCEPT ![t].q = q]
    BY <1>4, <1>6
  <2>4. Goto(t, "rcv_remove") /\ "rcv_remove" \in PlainPc
    BY <2>3, CopyGoes
  <2>5. /\ qcb' \in [Qcb -> QcbType] /\ \A r \in Qcb \ {q} : qcb'[r] = qcb[r]
        /\ qcb'[q].used /\ qcb'[q].waiters = qcb[q].waiters
    <3> HIDE DEF q, k
    <3> QED BY <2>1, <2>2, <2>3, CopyStores
  <2>6. \A r \in Qcb : /\ qcb'[r].used = qcb[r].used /\ qcb'[r].waiters = qcb[r].waiters
                       /\ qcb[r].used \/ qcb'[r] = qcb[r]
    <3> HIDE DEF q
    <3> QED BY <2>1, <2>5, OneQcbChanged
  <2>7. /\ loc' \in [Thread -> LocType] /\ \A u \in Thread \ {t} : loc'[u] = loc[u]
        /\ loc'[t].slot = s /\ loc'[t].what = k /\ loc'[t].q = q
    <3> DEFINE o == loc[t]
               v == [o EXCEPT !.q = q]
    <3>1. o \in LocType /\ loc' = [loc EXCEPT ![t] = v]
      BY <2>3, LocTyped
    <3> HIDE DEF o
    <3>2. v \in LocType /\ v.slot = o.slot /\ v.what = o.what /\ v.q = q
      BY <2>1, <3>1 DEF LocType
    <3> HIDE DEF v
    <3> QED BY <3>1, <3>2, LocStored DEF o
  <2>8. LookedUp(t)'
    BY <1>1, <1>3, <2>1, <2>7 DEF LookedUp
  <2> HIDE DEF q, k, s
  <2> QED BY <1>1, <1>2, <1>3, <2>3, <2>4, <2>5, <2>6, <2>7, <2>8, QcbStep
<1> QED BY <1>5, <1>6

-----------------------------------------------------------------------------
(* mymsgget and mymsgctl: what changes the table *)

\* The empty queue, under any links.
LEMMA NobodyInEmpty ==
  ASSUME NEW l \in LinkType
  PROVE  /\ Q!Linked(EmptyQueue, l, << >>) /\ Members(EmptyQueue, l) = {}
         /\ Walk(EmptyQueue, l) = << >> /\ Represents(EmptyQueue, l, << >>)
<1>0. Null \notin Thread
  BY NoThreads
<1> DEFINE e == EmptyQueue
<1>1. Q!Linked(e, l, << >>)
  BY SameOperators DEF EmptyQueue, Q!Linked, Represents, Distinct, QueueType, Pointer
<1> HIDE DEF e
<1>2. e \in QueueType /\ Q!Represents(e, l, << >>) /\ << >> \in Seq(Thread)
  BY <1>1, SameOperators DEF Q!Linked
<1>3. Q!Walk(e, l) = << >>
  BY <1>0, <1>2, SameOperators, Assumed, Q!WalkFollows
<1>4. Walk(e, l) = << >>
  BY <1>3, SameWalks
<1>5. Members(e, l) = {}
  BY <1>4 DEF Members
<1>6. Represents(e, l, << >>)
  BY <1>2, SameOperators
<1> QED BY <1>1, <1>4, <1>5, <1>6 DEF e

\* The waiting lists that the table leads to are all there are.
LEMMA ParkedByTable ==
  ASSUME Table', Park, link' \in LinkType, tbl' \in [Slot -> TblType]
  PROVE  parked' = UNION {Listed(q)' : q \in Qcb}
<1>1. \A q \in Qcb : ~ qcb'[q].used => Listed(q)' = {}
  BY NobodyInEmpty DEF Table, FreeQcb, Listed
<1>2. \A q \in Qcb : qcb'[q].used => \E s \in Slot : tbl'[s].pQcb = q
  BY DEF Table
<1>3. \A s \in Slot : tbl'[s].pQcb # Null => tbl'[s].pQcb \in Qcb
  BY DEF TblType
<1>4. \A q \in Qcb : q # Null
  BY MsgQueueAssumption
<1> DEFINE L(q) == Members(qcb'[q].waiters, link')
           p(s) == tbl'[s].pQcb
<1>5. parked' = UNION {L(p(s)) : s \in {r \in Slot : p(r) # Null}}
  BY DEF Park
<1>6. \A q \in Qcb : L(q) = Listed(q)'
  BY DEF Listed
<1>7. \A s \in Slot : p(s) # Null => p(s) \in Qcb
  BY <1>3
<1>8. \A q \in Qcb : L(q) # {} => \E s \in Slot : p(s) = q
  BY <1>1, <1>2, <1>6
<1> HIDE DEF L, p
<1>9. parked' = UNION {L(q) : q \in Qcb}
  BY <1>4, <1>5, <1>7, <1>8
<1> QED BY <1>6, <1>9

\* A step after which every list holds what it held, even if an empty one was
\* made anew.
LEMMA ListsRest ==
  ASSUME MqTypeOK, MqQueues, UNCHANGED << readyQ, waitQ, link >>,
         \A q \in Qcb : \/ qcb'[q].waiters = qcb[q].waiters
                        \/ Listed(q) = {} /\ qcb'[q].waiters = EmptyQueue,
         parked' = UNION {Listed(q)' : q \in Qcb}
  PROVE  MqQueues' /\ parked' = parked /\ \A q \in Qcb : Listed(q)' = Listed(q)
<1>1. /\ Q!ManyQueues(Lists, QueueAt, link, HeldAt)
      /\ \A q \in Qcb : Listed(q) = NodesOf(HeldAt[q])
  BY QueuesAreMany
<1>2. ASSUME NEW i \in Lists PROVE Q!Linked(QueueAt'[i], link, HeldAt[i])
  <2>1. Q!Linked(QueueAt[i], link, HeldAt[i])
    BY <1>1 DEF Q!ManyQueues
  <2>2. CASE QueueAt'[i] = QueueAt[i]
    BY <2>1, <2>2
  <2>3. CASE QueueAt'[i] # QueueAt[i]
    <3>1. i \in Qcb /\ Listed(i) = {} /\ QueueAt'[i] = EmptyQueue
      BY <2>3 DEF QueueAt, Lists
    <3>2. HeldAt[i] \in Seq(Thread) /\ NodesOf(HeldAt[i]) = {}
      BY <1>1, <2>1, <3>1 DEF Q!Linked
    <3>3. ASSUME NEW s \in Seq(Thread), s # << >> PROVE NodesOf(s) # {}
      <4>1. Len(s) \in Nat \ {0} /\ DOMAIN s = 1..Len(s)
        BY <3>3, EmptySeq
      <4>2. 1 \in DOMAIN s
        BY <4>1
      <4> QED BY <4>2 DEF NodesOf
    <3>4. HeldAt[i] = << >>
      BY <3>2, <3>3
    <3>5. Q!Linked(EmptyQueue, link, << >>)
      BY NobodyInEmpty DEF MqTypeOK
    <3> QED BY <3>1, <3>4, <3>5
  <2> QED BY <2>2, <2>3
<1> DEFINE T == HeldAt
<1>3. Q!ManyQueues(Lists, QueueAt', link', T) /\ waitQ' = EmptyQueue
  BY <1>1, <1>2 DEF Q!ManyQueues, MqQueues
<1>4. \A q \in Qcb : Listed(q) = NodesOf(T[q])
  BY <1>1
<1> HIDE DEF T
<1>5. /\ \A q \in Qcb : Listed(q)' = NodesOf(T[q])
      /\ parked' = UNION {Listed(q)' : q \in Qcb} => MqQueues'
  BY <1>3, ManyAreQueues
<1>6. parked' = parked
  BY <1>4, <1>5, ParkedAre
<1> QED BY <1>4, <1>5, <1>6

\* The entry is filled: nobody else has seen it unused in between.
LEMMA GetStoreKeeps ==
  ASSUME MqDisciplined, MqInv, NEW t \in Thread, GetStore(t)
  PROVE  MqInv'
<1> DEFINE s == loc[t].slot
           k == loc[t].what
<1>1. PICK q \in Qcb : /\ ~ qcb[q].used
                       /\ qcb' = [qcb EXCEPT ![q].used = TRUE]
                       /\ tbl' = [tbl EXCEPT ![s] = [key |-> k, pQcb |-> q]]
  BY DEF GetStore
<1>2. /\ Executes(t) /\ pc[t] = "get_store" /\ Goto(t, "user") /\ SameButQueues /\ Park
      /\ UNCHANGED << readyQ, link, runQ, tcb, type >>
      /\ loc' = [loc EXCEPT ![t] = NoLocals]
  BY DEF GetStore, At, Done
<1>3. pc[t] \notin IdlePc \cup CreatePc \cup {"snd_ready", "ctl_push"} \cup ReceivingPc
  BY <1>2 DEF IdlePc, WrapPc, WaitPc, CreatePc, ReceivingPc
<1>4. /\ s \in Slot /\ tbl[s].key = NoKey /\ tbl[s].pQcb = Null
      /\ k \in Key /\ k # NoKey /\ \A r \in Slot : tbl[r].key # k
  <2>1. s \in Slot /\ tbl[s].key = NoKey /\ k \in Key /\ \A r \in Slot : tbl[r].key # k
    BY <1>2 DEF MqInv, CallsKnow, Knows
  <2> QED BY <2>1, MsgQueueAssumption DEF MqInv, Table
<1>5. loc' \in [Thread -> LocType] /\ \A u \in Thread \ {t} : loc'[u] = loc[u]
  BY <1>2, NoLocalsTyped, LocStored
<1>6. /\ tbl' \in [Slot -> TblType] /\ tbl'[s].key = k /\ tbl'[s].pQcb = q
      /\ \A r \in Slot \ {s} : tbl'[r] = tbl[r]
  <2>1. tbl \in [Slot -> TblType]
    BY DEF MqInv, MqTypeOK, TblType
  <2> DEFINE v == [key |-> k, pQcb |-> q]
  <2>2. v \in TblType /\ v.key = k /\ v.pQcb = q
    BY <1>4 DEF TblType
  <2> HIDE DEF v, s
  <2>3. tbl' = [tbl EXCEPT ![s] = v]
    BY <1>1 DEF v, s
  <2> QED BY <1>4, <2>1, <2>2, <2>3
<1>7. /\ qcb' \in [Qcb -> QcbType] /\ \A r \in Qcb \ {q} : qcb'[r] = qcb[r]
      /\ qcb'[q].used /\ qcb'[q].waiters = qcb[q].waiters
  <2> DEFINE r == qcb[q]
             v == [r EXCEPT !.used = TRUE]
  <2>1. r \in QcbType
    BY QcbTyped
  <2> HIDE DEF r
  <2>2. v \in QcbType /\ v.waiters = r.waiters /\ v.used
    BY <2>1 DEF QcbType
  <2>3. qcb' = [qcb EXCEPT ![q] = v]
    BY <1>1 DEF r
  <2> HIDE DEF v
  <2> QED BY <2>2, <2>3, QcbStored DEF r
<1> HIDE DEF s, k
<1>8. Table'
  <2>1. \A r \in Slot : tbl[r].pQcb # q /\ tbl[r].key # k
    BY <1>1, <1>4 DEF MqInv, Table
  <2>2. q # Null
    BY MsgQueueAssumption
  <2>3. \A r, u \in Slot : tbl'[r].pQcb # Null /\
          (tbl'[r].key = tbl'[u].key \/ tbl'[r].pQcb = tbl'[u].pQcb) => r = u
    BY <1>6, <2>1 DEF MqInv, Table
  <2>4. \A r \in Slot : tbl'[r].key = NoKey <=> tbl'[r].pQcb = Null
    BY <1>4, <1>6, <2>2 DEF MqInv, Table
  <2>5. \A r \in Qcb : IF qcb'[r].used THEN \E u \in Slot : tbl'[u].pQcb = r
                       ELSE qcb'[r] = FreeQcb /\ \A u \in Slot : tbl'[u].pQcb # r
    <3> SUFFICES ASSUME NEW r \in Qcb
                 PROVE  IF qcb'[r].used THEN \E u \in Slot : tbl'[u].pQcb = r
                        ELSE qcb'[r] = FreeQcb /\ \A u \in Slot : tbl'[u].pQcb # r
      OBVIOUS
    <3>1. CASE r = q
      BY <1>4, <1>6, <1>7, <3>1
    <3>2. CASE r # q
      <4>1. /\ qcb'[r] = qcb[r]
            /\ IF qcb[r].used THEN \E u \in Slot : tbl[u].pQcb = r
               ELSE qcb[r] = FreeQcb /\ \A u \in Slot : tbl[u].pQcb # r
        BY <1>7, <3>2 DEF MqInv, Table
      <4>2. tbl[s].pQcb # r
        BY <1>4, MsgQueueAssumption
      <4> QED BY <1>4, <1>6, <3>2, <4>1, <4>2
    <3> QED BY <3>1, <3>2
  <2> QED BY <2>3, <2>4, <2>5 DEF Table
<1>9. parked' = UNION {Listed(r)' : r \in Qcb}
  BY <1>2, <1>6, <1>8, ParkedByTable DEF MqInv, MqTypeOK
<1>10. MqQueues' /\ parked' = parked /\ \A r \in Qcb : Listed(r)' = Listed(r)
  <2>1. \A r \in Qcb : qcb'[r].waiters = qcb[r].waiters
    BY <1>7
  <2> QED BY <1>2, <1>9, <2>1, ListsRest DEF MqInv, SameButQueues
<1>11. "user" \in PlainPc /\ "user" \notin RcvPc
  BY DEF PlainPc, RcvPc
<1>12. /\ MqPlaces' /\ MqLoop' /\ MqTurns' /\ MqQuiet' /\ MqCreating'
       /\ pc'[t] = "user" /\ \A u \in Thread \ {t} : pc'[u] = pc[u]
  BY <1>2, <1>3, <1>5, <1>10, <1>11, PlainMoves
<1>13. MqTypeOK'
  BY <1>2, <1>5, <1>6, <1>7, <1>10, <1>11, MessageTypes DEF MqInv, MqTypeOK
<1>14. CallsKnow'
  <2>1. \A r \in Qcb : t \notin Listed(r)'
    BY <1>2, <1>3, <1>10, ActsAlone, NotListed
  <2>2. Knows(t)'
    BY <1>12, <2>1, BackInProgram
  <2>3. \A r \in Slot : tbl'[r].pQcb = tbl[r].pQcb \/ tbl[r].pQcb \notin Qcb
    BY <1>4, <1>6, MsgQueueAssumption
  <2> QED BY <1>2, <1>3, <1>5, <1>10, <1>12, <2>2, <2>3, OthersKnow
<1> QED BY <1>8, <1>10, <1>12, <1>13, <1>14 DEF MqInv

\* mymsgctl looks up a Qcb without messages.
LEMMA ControlKeeps ==
  ASSUME MqDisciplined, MqInv, NEW t \in Thread, NEW s \in Slot, Control(t, s)
  PROVE  MqInv'
<1> DEFINE q == tbl[s].pQcb
<1>1. loc' = [loc EXCEPT ![t] = [@ EXCEPT !.slot = s, !.q = q]] /\ qcb[q].msgs = << >>
  BY DEF Control
<1>2. /\ Executes(t) /\ pc[t] = "user" /\ Goto(t, "ctl_pop") /\ SameButQueues
      /\ UNCHANGED << readyQ, link, runQ, tcb, parked, tbl, qcb, type >>
      /\ q \in Qcb
  BY SlotUsed DEF Control, AtCall
<1>3. pc[t] \notin IdlePc \cup CreatePc \cup {"snd_ready", "ctl_push"} \cup ReceivingPc
  BY <1>2 DEF IdlePc, WrapPc, WaitPc, CreatePc, ReceivingPc
<1>4. /\ loc' \in [Thread -> LocType] /\ \A u \in Thread \ {t} : loc'[u] = loc[u]
      /\ loc'[t].slot = s /\ loc'[t].q = q
  <2> DEFINE v == [loc[t] EXCEPT !.slot = s, !.q = q]
  <2>1. v \in LocType /\ v.slot = s /\ v.q = q
    <3>1. loc[t] \in LocType
      BY LocTyped
    <3> QED BY <1>2, <3>1 DEF LocType
  <2>2. loc' = [loc EXCEPT ![t] = v]
    BY <1>1
  <2> HIDE DEF v
  <2> QED BY <2>1, <2>2, LocStored
<1>5. /\ MqQueues' /\ MqPlaces' /\ MqLoop' /\ MqTurns' /\ MqQuiet' /\ MqCreating'
      /\ \A r \in Qcb : Listed(r)' = Listed(r)
      /\ pc'[t] = "ctl_pop" /\ \A u \in Thread \ {t} : pc'[u] = pc[u]
  <2>1. "ctl_pop" \in PlainPc /\ "ctl_pop" \notin RcvPc
    BY DEF PlainPc, RcvPc
  <2> QED BY <1>2, <1>3, <1>4, <2>1, PlainStep
<1>6. MqTypeOK'
  <2>1. "ctl_pop" \in PlainPc
    BY DEF PlainPc
  <2>2. qcb' \in [Qcb -> QcbType] /\ tbl' = tbl /\ parked' \subseteq Thread
    BY <1>2 DEF MqInv, MqTypeOK, QcbType
  <2> QED BY <1>2, <1>4, <2>1, <2>2, MessageTypes DEF MqInv, MqTypeOK, TblType
<1>7. Table'
  BY <1>2, TableKept DEF MqInv, MqTypeOK
<1>8. CallsKnow'
  <2>1. t \notin parked
    BY <1>2, <1>3, ActsAlone
  <2>2. LookedUp(t)' /\ qcb'[loc'[t].q].msgs = << >>
    BY <1>1, <1>2, <1>4 DEF LookedUp
  <2> HIDE DEF q
  <2>3. Knows(t)'
    BY <1>5, <2>1, <2>2, NotListed DEF Knows, SendPc, CtlPc, RcvPc
  <2> QED BY <1>2, <1>3, <1>4, <1>5, <2>3, OthersKnow
<1> QED BY <1>5, <1>6, <1>7, <1>8 DEF MqInv

\* The Qcb is freed: nobody waits in it and no call in progress has it.
LEMMA ControlFreeKeeps ==
  ASSUME MqDisciplined, MqInv, NEW t \in Thread, ControlFree(t)
  PROVE  MqInv'
<1> DEFINE s == loc[t].slot
           q == loc[t].q
<1>1. /\ Executes(t) /\ pc[t] = "ctl_free" /\ Goto(t, "user") /\ SameButQueues /\ Park
      /\ UNCHANGED << readyQ, link, runQ, tcb, type >>
      /\ qcb' = [qcb EXCEPT ![tbl[s].pQcb] = FreeQcb]
      /\ tbl' = [tbl EXCEPT ![s] = [key |-> NoKey, pQcb |-> Null]]
      /\ loc' = [loc EXCEPT ![t] = NoLocals]
  BY DEF ControlFree, At, Done
<1>2. pc[t] \notin IdlePc \cup CreatePc \cup {"snd_ready", "ctl_push"} \cup ReceivingPc
  BY <1>1 DEF IdlePc, WrapPc, WaitPc, CreatePc, ReceivingPc
<1>3. s \in Slot /\ q \in Qcb /\ tbl[s].pQcb = q /\ Listed(q) = {}
  BY <1>1 DEF MqInv, CallsKnow, Knows, CtlPc, LookedUp
<1>4. loc' \in [Thread -> LocType] /\ \A u \in Thread \ {t} : loc'[u] = loc[u]
  BY <1>1, NoLocalsTyped, LocStored
<1>5. /\ tbl' \in [Slot -> TblType] /\ tbl'[s].key = NoKey /\ tbl'[s].pQcb = Null
      /\ \A r \in Slot \ {s} : tbl'[r] = tbl[r]
  <2>1. tbl \in [Slot -> TblType]
    BY DEF MqInv, MqTypeOK, TblType
  <2> DEFINE v == [key |-> NoKey, pQcb |-> Null]
  <2>2. v \in TblType /\ v.key = NoKey /\ v.pQcb = Null
    BY DEF TblType
  <2> HIDE DEF v, s
  <2>3. tbl' = [tbl EXCEPT ![s] = v]
    BY <1>1 DEF v, s
  <2> QED BY <1>3, <2>1, <2>2, <2>3
<1>6. /\ qcb' \in [Qcb -> QcbType] /\ qcb'[q] = FreeQcb
      /\ \A r \in Qcb \ {q} : qcb'[r] = qcb[r]
  <2>1. FreeQcb \in QcbType
    BY DEF FreeQcb, QcbType, EmptyQueue, QueueType, Pointer
  <2>2. qcb' = [qcb EXCEPT ![q] = FreeQcb]
    BY <1>1, <1>3
  <2> QED BY <1>3, <2>1, <2>2, QcbStored
<1> HIDE DEF s, q
<1>7. Table'
  <2>1. \A r \in Slot \ {s} : tbl[r].pQcb # q
    BY <1>3, MsgQueueAssumption DEF MqInv, Table
  <2>2. \A r, u \in Slot : tbl'[r].pQcb # Null /\
          (tbl'[r].key = tbl'[u].key \/ tbl'[r].pQcb = tbl'[u].pQcb) => r = u
    BY <1>5 DEF MqInv, Table
  <2>3. \A r \in Slot : tbl'[r].key = NoKey <=> tbl'[r].pQcb = Null
    BY <1>5 DEF MqInv, Table
  <2>4. \A r \in Qcb : IF qcb'[r].used THEN \E u \in Slot : tbl'[u].pQcb = r
                       ELSE qcb'[r] = FreeQcb /\ \A u \in Slot : tbl'[u].pQcb # r
    <3> SUFFICES ASSUME NEW r \in Qcb
                 PROVE  IF qcb'[r].used THEN \E u \in Slot : tbl'[u].pQcb = r
                        ELSE qcb'[r] = FreeQcb /\ \A u \in Slot : tbl'[u].pQcb # r
      OBVIOUS
    <3>0. r # Null
      BY MsgQueueAssumption
    <3>1. CASE r = q
      BY <1>5, <1>6, <2>1, <3>0, <3>1 DEF FreeQcb
    <3>2. CASE r # q
      <4>1. /\ qcb'[r] = qcb[r]
            /\ IF qcb[r].used THEN \E u \in Slot : tbl[u].pQcb = r
               ELSE qcb[r] = FreeQcb /\ \A u \in Slot : tbl[u].pQcb # r
        BY <1>6, <3>2 DEF MqInv, Table
      <4> QED BY <1>3, <1>5, <3>0, <3>2, <4>1
    <3> QED BY <3>1, <3>2
  <2> QED BY <2>2, <2>3, <2>4 DEF Table
<1>8. parked' = UNION {Listed(r)' : r \in Qcb}
  BY <1>1, <1>5, <1>7, ParkedByTable DEF MqInv, MqTypeOK
<1>9. MqQueues' /\ parked' = parked /\ \A r \in Qcb : Listed(r)' = Listed(r)
  <2>1. \A r \in Qcb : \/ qcb'[r].waiters = qcb[r].waiters
                       \/ Listed(r) = {} /\ qcb'[r].waiters = EmptyQueue
    BY <1>3, <1>6 DEF FreeQcb
  <2> QED BY <1>1, <1>8, <2>1, ListsRest DEF MqInv, SameButQueues
<1>10. "user" \in PlainPc /\ "user" \notin RcvPc
  BY DEF PlainPc, RcvPc
<1>11. /\ MqPlaces' /\ MqLoop' /\ MqTurns' /\ MqQuiet' /\ MqCreating'
       /\ pc'[t] = "user" /\ \A u \in Thread \ {t} : pc'[u] = pc[u]
  BY <1>1, <1>2, <1>4, <1>9, <1>10, PlainMoves
<1>12. MqTypeOK'
  BY <1>1, <1>4, <1>5, <1>6, <1>9, <1>10, MessageTypes DEF MqInv, MqTypeOK
<1>13. CallsKnow'
  <2>1. \A r \in Qcb : t \notin Listed(r)'
    BY <1>1, <1>2, <1>9, ActsAlone, NotListed
  <2>2. Knows(t)'
    BY <1>11, <2>1, BackInProgram
  <2>3. \A r \in Slot : tbl'[r].pQcb = tbl[r].pQcb \/ Listed(tbl[r].pQcb) = {}
    BY <1>3, <1>5
  <2> QED BY <1>1, <1>2, <1>4, <1>9, <1>11, <2>2, <2>3, OthersKnow
<1> QED BY <1>7, <1>9, <1>11, <1>12, <1>13 DEF MqInv

-----------------------------------------------------------------------------
(* From a waiting list to the ready queue *)

\* Linking and unlinking leaves pointers in links.
LEMMA LinksTyped ==
  ASSUME NEW q \in QueueType, NEW l \in LinkType, NEW n \in Thread
  PROVE  /\ Push(q, l, n).q \in QueueType /\ Push(q, l, n).l \in LinkType
         /\ Remove(q, l, n).q \in QueueType /\ Remove(q, l, n).l \in LinkType
         /\ q.head # Null => Pop(q, l).q \in QueueType /\ Pop(q, l).l \in LinkType
<1>1. QueueIn(q, Pointer) /\ LinksIn(l, Pointer) /\ Null \in Pointer /\ Thread \subseteq Pointer
  BY DEF QueueIn, LinksIn, QueueType, LinkType, Pointer
<1>2. Push(q, l, n).q \in QueueType /\ Push(q, l, n).l \in LinkType
  BY <1>1, PushKeeps
<1>3. Remove(q, l, n).q \in QueueType /\ Remove(q, l, n).l \in LinkType
  BY <1>1, RemoveKeeps
<1>4. q.head # Null => Pop(q, l).q \in QueueType /\ Pop(q, l).l \in LinkType
  BY <1>1, PopKeeps
<1> QED BY <1>2, <1>3, <1>4

\* The waiting list of a Qcb in use is stored, and nothing else of it.
LEMMA WaitersStored ==
  ASSUME MqInv, NEW k \in Qcb, qcb[k].used, NEW w \in QueueType,
         qcb' = [qcb EXCEPT ![k].waiters = w], tbl' = tbl
  PROVE  /\ qcb' \in [Qcb -> QcbType] /\ Table'
         /\ \A q \in Qcb : qcb'[q].msgs = qcb[q].msgs
<1> DEFINE r == qcb[k]
           v == [r EXCEPT !.waiters = w]
<1>1. r \in QcbType
  BY QcbTyped
<1>2. qcb' = [qcb EXCEPT ![k] = v]
  OBVIOUS
<1> HIDE DEF r
<1>3. v \in QcbType /\ v.used = r.used /\ v.msgs = r.msgs
  BY <1>1 DEF QcbType
<1> HIDE DEF v
<1>4. qcb' \in [Qcb -> QcbType] /\ qcb'[k] = v /\ \A q \in Qcb \ {k} : qcb'[q] = qcb[q]
  BY <1>2, <1>3, QcbStored
<1>5. Table'
  <2>1. \A q \in Qcb : qcb'[q].used = qcb[q].used /\ (qcb[q].used \/ qcb'[q] = qcb[q])
    BY <1>3, <1>4 DEF r
  <2> QED BY <2>1, TableKept
<1>6. \A q \in Qcb : qcb'[q].msgs = qcb[q].msgs
  BY <1>3, <1>4 DEF r
<1> QED BY <1>4, <1>5, <1>6

\* t takes the waiting thread x out of its list.
LEMMA TakenInHand ==
  ASSUME MqDisciplined, MqInv, NEW t \in Thread, Executes(t), pc[t] \in {"snd_wake", "ctl_pop"},
         NEW l \in {"snd_ready", "ctl_push"}, Goto(t, l),
         NEW x \in parked, loc'[t].what = x, \A u \in Thread \ {t} : loc'[u] = loc[u],
         SameButQueues, UNCHANGED << runQ, tcb >>, Ready' = Ready, parked' = parked \ {x}
  PROVE  /\ MqPlaces' /\ MqLoop' /\ MqTurns' /\ MqQuiet' /\ MqCreating'
         /\ pc'[t] = l /\ \A u \in Thread \ {t} : pc'[u] = pc[u]
<1>1. pc'[t] = l /\ \A u \in Thread \ {t} : pc'[u] = pc[u]
  BY DEF Goto, MqInv, MqTypeOK
<1>2. pc[t] \notin IdlePc \cup CreatePc \cup {"snd_ready", "ctl_push"} \cup ReceivingPc
  BY DEF IdlePc, WrapPc, WaitPc, CreatePc, ReceivingPc
<1>3. /\ MqHolder = {t} /\ t \in Live /\ Receiving = {} /\ runQ = t /\ t \notin Ready \cup parked
      /\ \A u \in Thread \ {t} : pc[u] \in RestPc \cup WrapPc
  BY <1>2, ActsAlone
<1>4. sched.pc = "tick" /\ Popped = {} /\ \A u \in Thread : ~ sig[u]
  BY MqModes
<1>5. x \in Thread /\ x # t /\ pc[x] = "rcv_wait" /\ x \notin Ready
  <2>1. x \in Thread /\ x # t
    BY <1>3 DEF MqInv, MqTypeOK
  <2>2. pc[x] = "rcv_wait"
    BY <1>3, <2>1 DEF MqInv, MqPlaces, RestPc, WaitPc, WrapPc
  <2>3. x \notin Ready
    BY DEF MqInv, MqQueues
  <2> QED BY <2>1, <2>2, <2>3
<1>6. UNCHANGED << runQ, sched, mem, sig, inHandler, tcb, isPushed >>
  BY DEF SameButQueues, sigVars
<1>7. /\ Popped' = {} /\ Live' = Live /\ Receiving' = {}
      /\ Running' = Running /\ MqHolder' = {t}
  <2>1. Popped' = {} /\ Live' = Live /\ Running' = Running
    BY <1>4, <1>6 DEF Popped, Live, Running
  <2>2. Receiving' = {}
    BY <1>1, <1>3 DEF Receiving, ReceivingPc, RestPc, WaitPc, WrapPc
  <2> QED BY <1>3, <1>4, <2>1, <2>2 DEF MqHolder
<1>8. \A u, y \in Thread : /\ ~ Hands(u, y)
                           /\ Hands(u, y)' <=> u = t /\ y = x
  <2>1. \A u \in Thread : pc[u] \notin {"snd_ready", "ctl_push", "rcv_park"}
    BY <1>3 DEF RestPc, WaitPc, WrapPc
  <2>2. \A u \in Thread \ {t} : pc'[u] \notin {"snd_ready", "ctl_push", "rcv_park"}
    BY <1>1, <2>1
  <2> QED BY <1>1, <2>1, <2>2 DEF Hands
<1>9. MqPlaces'
  <2>1. \A y \in Live : \/ y \in Ready \cup parked' \cup {runQ}
                        \/ \E u \in Thread : Hands(u, y)'
    <3> SUFFICES ASSUME NEW y \in Live, y \notin Ready \cup parked' \cup {runQ}
                 PROVE  \E u \in Thread : Hands(u, y)'
      OBVIOUS
    <3>1. y \in Thread
      BY DEF Live
    <3>2. y \in parked
      BY <1>4, <1>8, <3>1 DEF MqInv, MqPlaces
    <3> QED BY <1>8, <3>1, <3>2
  <2>2. Ready \cup parked' \subseteq Live /\ (runQ # Null => runQ \in Live)
    BY DEF MqInv, MqPlaces
  <2>3. \A u, y \in Thread : Hands(u, y)' => y \in Live \ (Ready \cup parked' \cup {runQ})
    BY <1>3, <1>5, <1>8 DEF MqInv, MqPlaces
  <2>4. \A u \in Thread : pc'[u] \in {"snd_ready", "ctl_push"} =>
          loc'[u].what \in Thread /\ pc'[loc'[u].what] = "rcv_wait"
    BY <1>1, <1>3, <1>5 DEF RestPc, WaitPc, WrapPc
  <2>5. \A u \in Thread : pc'[u] \notin {"rcv_type", "rcv_enter"}
    BY <1>7 DEF Receiving, ReceivingPc
  <2>6. \A u \in parked' : pc'[u] \in {"rcv_type", "rcv_enter", "rcv_wait"}
    BY <1>1, <1>3 DEF MqInv, MqPlaces, MqTypeOK
  <2>7. Root \in Live /\ pc'[Root] \notin RcvPc \cup {"rcv_wait"}
    BY <1>1, SchedulerAssumption DEF MqInv, MqPlaces, RcvPc
  <2> QED BY <1>6, <1>7, <2>1, <2>2, <2>3, <2>4, <2>5, <2>6, <2>7 DEF MqPlaces
<1>10. MqLoop'
  BY <1>4, <1>6, <1>7 DEF MqInv, MqLoop
<1>11. MqTurns'
  <2>1. \A u \in Thread \ {t} : sig[u] \/ inHandler[u] \/ pc'[u] \in IdlePc
    BY <1>1, <1>3 DEF MqInv, MqTurns, IdlePc
  <2>2. \A u \in Thread : tcb[u].bRunnable => u = t /\ pc'[u] # "rcv_enter"
    BY <1>1, <1>3 DEF MqInv, MqTurns
  <2> QED BY <1>4, <1>6, <1>7, <2>1, <2>2 DEF MqTurns, IdlePc
<1>12. MqQuiet'
  <2>1. pc'[t] \notin JoinPc \cup ExitPc \cup SuspendPc \cup {"join_wait", "none", "wrap_tcb"}
    BY <1>1 DEF JoinPc, ExitPc, SuspendPc
  <2>2. pc[t] \notin {"none", "wrap_tcb"}
    OBVIOUS
  <2> QED BY <1>1, <1>6, <2>1, <2>2, MqQuietKept
<1>13. MqCreating'
  <2>1. pc'[t] \notin CreatePc \cup {"wrap_tcb", "wrap_jcb", "wrap_flag"}
    BY <1>1 DEF CreatePc
  <2>2. pc[t] \notin IdlePc \cup CreatePc
    BY <1>2
  <2> QED BY <1>1, <1>6, <2>1, <2>2, CreatingNobody
<1> QED BY <1>1, <1>9, <1>10, <1>11, <1>12, <1>13

\* t puts the thread in its hands into the ready queue.
LEMMA HandedOver ==
  ASSUME MqDisciplined, MqInv, NEW t \in Thread, Executes(t), pc[t] \in {"snd_ready", "ctl_push"},
         NEW l \in {"user", "ctl_pop"}, Goto(t, l), NEW x, x = loc[t].what, rq_push(x),
         SameButQueues, UNCHANGED << runQ, tcb, parked, qcb >>,
         \A u \in Thread \ {t} : loc'[u] = loc[u]
  PROVE  /\ MqQueues' /\ MqPlaces' /\ MqLoop' /\ MqTurns' /\ MqQuiet' /\ MqCreating'
         /\ readyQ' \in QueueType /\ link' \in LinkType
         /\ \A q \in Qcb : Listed(q)' = Listed(q)
         /\ pc'[t] = l /\ \A u \in Thread \ {t} : pc'[u] = pc[u]
<1>1. pc'[t] = l /\ \A u \in Thread \ {t} : pc'[u] = pc[u]
  BY DEF Goto, MqInv, MqTypeOK
<1>2. pc[t] \notin IdlePc \cup CreatePc \cup ReceivingPc
  BY DEF IdlePc, WrapPc, WaitPc, CreatePc, ReceivingPc
<1>3. /\ MqHolder = {t} /\ t \in Live /\ Receiving = {} /\ runQ = t /\ t \notin Ready \cup parked
      /\ \A u \in Thread \ {t} : pc[u] \in RestPc \cup WrapPc
  BY <1>2, ActsAlone
<1>4. sched.pc = "tick" /\ Popped = {} /\ \A u \in Thread : ~ sig[u]
  BY MqModes
<1>5. x \in Live \ (Ready \cup parked \cup {runQ}) /\ x \in Thread
  <2>1. x \in Thread
    BY DEF MqInv, MqPlaces
  <2>2. Hands(t, x)
    BY DEF Hands
  <2> QED BY <2>1, <2>2 DEF MqInv, MqPlaces
<1>6. UNCHANGED << waitQ, runQ, sched, mem, sig, inHandler, tcb, isPushed >>
  BY DEF SameButQueues, sigVars
<1>7. /\ MqQueues' /\ readyQ' \in QueueType /\ link' \in LinkType
      /\ Ready' = Ready \cup {x} /\ \A q \in Qcb : Listed(q)' = Listed(q)
  BY <1>5, <1>6, ReadyPushed DEF MqInv
<1>8. /\ Popped' = {} /\ Live' = Live /\ Receiving' = {} /\ MqHolder' = {t}
  <2>1. Popped' = {} /\ Live' = Live
    BY <1>4, <1>6 DEF Popped, Live
  <2>2. Receiving' = {}
    BY <1>1, <1>3 DEF Receiving, ReceivingPc, RestPc, WaitPc, WrapPc
  <2>3. Running' = {t}
    BY <1>3, <1>4, <1>5, <1>6, <1>7, NoThreads DEF Running
  <2> QED BY <2>1, <2>2, <2>3 DEF MqHolder
<1>9. \A u, y \in Thread : /\ Hands(u, y) <=> u = t /\ y = x
                           /\ ~ Hands(u, y)'
  <2>1. \A u \in Thread \ {t} : pc[u] \notin {"snd_ready", "ctl_push", "rcv_park"}
    BY <1>3 DEF RestPc, WaitPc, WrapPc
  <2>2. \A u \in Thread : pc'[u] \notin {"snd_ready", "ctl_push", "rcv_park"}
    BY <1>1, <2>1
  <2> QED BY <2>1, <2>2 DEF Hands
<1>10. MqPlaces'
  <2>1. \A y \in Live : y \in Ready' \cup parked \cup {runQ}
    <3> SUFFICES ASSUME NEW y \in Live PROVE y \in Ready' \cup parked \cup {runQ}
      OBVIOUS
    <3>1. y \in Thread
      BY DEF Live
    <3> QED BY <1>4, <1>7, <1>9, <3>1 DEF MqInv, MqPlaces
  <2>2. Ready' \cup parked \subseteq Live /\ (runQ # Null => runQ \in Live)
    BY <1>5, <1>7 DEF MqInv, MqPlaces
  <2>3. \A u \in Thread : pc'[u] \notin {"snd_ready", "ctl_push"}
    BY <1>1, <1>3 DEF RestPc, WaitPc, WrapPc
  <2>4. \A u \in Thread : pc'[u] \notin {"rcv_type", "rcv_enter"}
    BY <1>8 DEF Receiving, ReceivingPc
  <2>5. \A u \in parked : pc'[u] \in {"rcv_type", "rcv_enter", "rcv_wait"}
    BY <1>1, <1>3 DEF MqInv, MqPlaces, MqTypeOK
  <2>6. Root \in Live /\ pc'[Root] \notin RcvPc \cup {"rcv_wait"}
    BY <1>1, SchedulerAssumption DEF MqInv, MqPlaces, RcvPc
  <2> QED BY <1>6, <1>8, <1>9, <2>1, <2>2, <2>3, <2>4, <2>5, <2>6 DEF MqPlaces
<1>11. MqLoop'
  BY <1>3, <1>4, <1>5, <1>6, <1>7, <1>8 DEF MqInv, MqLoop
<1>12. MqTurns'
  <2>1. \A u \in Thread \ {t} : sig[u] \/ inHandler[u] \/ pc'[u] \in IdlePc
    BY <1>1, <1>3 DEF MqInv, MqTurns, IdlePc
  <2>2. \A u \in Thread : tcb[u].bRunnable => u = t /\ pc'[u] # "rcv_enter"
    BY <1>1, <1>3 DEF MqInv, MqTurns
  <2> QED BY <1>4, <1>6, <1>8, <2>1, <2>2 DEF MqTurns, IdlePc
<1>13. MqQuiet'
  <2>1. pc'[t] \notin JoinPc \cup ExitPc \cup SuspendPc \cup {"join_wait", "none", "wrap_tcb"}
    BY <1>1 DEF JoinPc, ExitPc, SuspendPc
  <2>2. pc[t] \notin {"none", "wrap_tcb"}
    OBVIOUS
  <2> QED BY <1>1, <1>6, <2>1, <2>2, MqQuietKept
<1>14. MqCreating'
  <2>1. pc'[t] \notin CreatePc \cup {"wrap_tcb", "wrap_jcb", "wrap_flag"}
    BY <1>1 DEF CreatePc
  <2>2. pc[t] \notin IdlePc \cup CreatePc
    BY <1>2
  <2> QED BY <1>1, <1>6, <2>1, <2>2, CreatingNobody
<1> QED BY <1>1, <1>7, <1>10, <1>11, <1>12, <1>13, <1>14

\* A Qcb that a call works on is in use.
LEMMA QcbInUse ==
  ASSUME MqInv, NEW t \in Thread, LookedUp(t)
  PROVE  loc[t].slot \in Slot /\ loc[t].q \in Qcb /\ qcb[loc[t].q].used
<1>1. /\ loc[t].slot \in Slot /\ loc[t].q \in Qcb
      /\ tbl[loc[t].slot].pQcb = loc[t].q /\ loc[t].q # Null
  BY MsgQueueAssumption DEF LookedUp
<1> QED BY <1>1, SlotUsed

\* What follows for types and calls when a waiting thread goes on its way.
LEMMA TakenKnow ==
  ASSUME MqDisciplined, MqInv, NEW t \in Thread, Executes(t), pc[t] \in {"snd_wake", "ctl_pop"},
         NEW l \in {"snd_ready", "ctl_push"}, Goto(t, l), l = "ctl_push" <=> pc[t] = "ctl_pop",
         NEW x \in Thread, loc' = [loc EXCEPT ![t].what = x],
         SameButQueues, UNCHANGED << readyQ, runQ, tcb, tbl, type >>,
         link' \in LinkType, qcb' \in [Qcb -> QcbType], parked' \subseteq Thread,
         \A q \in Qcb : Listed(q)' \subseteq Listed(q) /\ qcb'[q].msgs = qcb[q].msgs
  PROVE  /\ MqTypeOK' /\ CallsKnow'
         /\ loc'[t].what = x /\ \A u \in Thread \ {t} : loc'[u] = loc[u]
<1>1. pc'[t] = l /\ \A u \in Thread \ {t} : pc'[u] = pc[u]
  BY DEF Goto, MqInv, MqTypeOK
<1>2. pc[t] \notin IdlePc \cup CreatePc \cup {"snd_ready", "ctl_push"} \cup ReceivingPc
  BY DEF IdlePc, WrapPc, WaitPc, CreatePc, ReceivingPc
<1>3. /\ loc' \in [Thread -> LocType] /\ \A u \in Thread \ {t} : loc'[u] = loc[u]
      /\ loc'[t].slot = loc[t].slot /\ loc'[t].q = loc[t].q /\ loc'[t].what = x
  <2> DEFINE v == [loc[t] EXCEPT !.what = x]
  <2>1. v \in LocType /\ v.slot = loc[t].slot /\ v.q = loc[t].q /\ v.what = x
    <3>1. loc[t] \in LocType
      BY LocTyped
    <3> QED BY <3>1 DEF LocType
  <2>2. loc' = [loc EXCEPT ![t] = v]
    OBVIOUS
  <2> HIDE DEF v
  <2> QED BY <2>1, <2>2, LocStored
<1>4. MqTypeOK'
  <2>1. l \in MqPc \cup RestPc
    BY DEF MqPc, SendPc, CtlPc
  <2> QED BY <1>3, <2>1, CallTypes DEF MqInv, MqTypeOK, TblType
<1>5. CallsKnow'
  <2>1. LookedUp(t) /\ (pc[t] = "ctl_pop" => qcb[loc[t].q].msgs = << >>)
    BY DEF MqInv, CallsKnow, Knows, SendPc, CtlPc
  <2>2. LookedUp(t)' /\ (l = "ctl_push" => qcb'[loc'[t].q].msgs = << >>)
    BY <1>3, <2>1 DEF LookedUp
  <2>3. \A q \in Qcb : t \notin Listed(q)'
    BY <1>2, ActsAlone, NotListed
  <2>4. Knows(t)'
    BY <1>1, <2>2, <2>3 DEF Knows, SendPc, CtlPc, RcvPc
  <2> QED BY <1>1, <1>2, <1>3, <2>4, OthersKnow
<1> QED BY <1>3, <1>4, <1>5

\* A sender takes the first thread waiting for its type in hand.
LEMMA SendWakeKeeps ==
  ASSUME MqDisciplined, MqInv, WaitersRemovedExactly, NEW t \in Thread, SendWake(t)
  PROVE  MqInv'
<1>0. PICK q : q = loc[t].q
  OBVIOUS
<1> DEFINE i == tq_search(q, loc[t].what.type)
           x == Waiters(q)[i]
<1>1. /\ Executes(t) /\ pc[t] = "snd_wake" /\ SameButQueues /\ Park
      /\ UNCHANGED << readyQ, runQ, tcb, tbl, type >>
      /\ IF i = 0 THEN Done(t) /\ UNCHANGED << qcb, link >>
         ELSE /\ tq_remove(q, x) /\ Goto(t, "snd_ready")
              /\ loc' = [loc EXCEPT ![t].what = x]
  BY <1>0 DEF SendWake, At
<1>2. pc[t] \notin IdlePc \cup CreatePc \cup {"snd_ready", "ctl_push"} \cup ReceivingPc
  BY <1>1 DEF IdlePc, WrapPc, WaitPc, CreatePc, ReceivingPc
<1>3. LookedUp(t) /\ q \in Qcb /\ qcb[q].used
  <2>1. LookedUp(t)
    BY <1>1 DEF MqInv, CallsKnow, Knows, SendPc
  <2> QED BY <1>0, <2>1, QcbInUse
<1>4. /\ i = 0 \/ i \in 1..Len(Waiters(q))
      /\ i # 0 => RemovablePosition(Waiters(q), i)
  BY <1>0, <1>3, WaiterFound DEF WaitersRemovedExactly
<1>5. tbl' \in [Slot -> TblType]
  BY <1>1 DEF MqInv, MqTypeOK, TblType
<1>6. CASE i = 0
  <2>1. Goto(t, "user") /\ loc' = [loc EXCEPT ![t] = NoLocals] /\ UNCHANGED << qcb, link >>
    BY <1>1, <1>6 DEF Done
  <2>2. Table' /\ link' \in LinkType
    BY <1>1, <2>1, TableKept DEF MqInv, MqTypeOK
  <2>3. parked' = UNION {Listed(r)' : r \in Qcb}
    BY <1>1, <1>5, <2>2, ParkedByTable
  <2>4. parked' = parked
    BY <1>1, <2>1, <2>3, ListsRest DEF MqInv, SameButQueues
  <2>5. "user" \in PlainPc /\ "user" \notin RcvPc
    BY DEF PlainPc, RcvPc
  <2>6. loc' \in [Thread -> LocType] /\ \A u \in Thread \ {t} : loc'[u] = loc[u]
    BY <2>1, NoLocalsTyped, LocStored
  <2>7. qcb' \in [Qcb -> QcbType]
    BY <2>1 DEF MqInv, MqTypeOK, QcbType
  <2> QED BY <1>1, <1>2, <2>1, <2>4, <2>5, <2>6, <2>7, QcbStep
<1>7. CASE i # 0
  <2> DEFINE r == Remove(qcb[q].waiters, link, x)
  <2>1. x \in Thread /\ i \in 1..Len(Waiters(q)) /\ RemovablePosition(Waiters(q), i)
    BY <1>3, <1>4, <1>7 DEF MqInv, MqQueues
  <2>2. /\ Goto(t, "snd_ready") /\ loc' = [loc EXCEPT ![t].what = x] /\ tq_remove(q, x)
        /\ qcb' = [qcb EXCEPT ![q].waiters = r.q] /\ link' = r.l
    BY <1>1, <1>7 DEF tq_remove
  <2>3. r.q \in QueueType /\ r.l \in LinkType
    BY <1>3, <2>1, QcbTyped, LinksTyped DEF MqInv, MqTypeOK
  <2> HIDE DEF i, x, r
  <2>4. /\ qcb' \in [Qcb -> QcbType] /\ Table' /\ link' \in LinkType
        /\ \A p \in Qcb : qcb'[p].msgs = qcb[p].msgs
    BY <1>1, <1>3, <2>2, <2>3, WaitersStored
  <2>5. parked' = UNION {Listed(p)' : p \in Qcb}
    BY <1>1, <1>5, <2>4, ParkedByTable
  <2>6. /\ MqQueues' /\ Ready' = Ready /\ x \in Listed(q) /\ parked' = parked \ {x}
        /\ Listed(q)' = Listed(q) \ {x} /\ \A p \in Qcb \ {q} : Listed(p)' = Listed(p)
    <3>1. UNCHANGED << readyQ, waitQ >>
      BY <1>1 DEF SameButQueues
    <3>2. x = Waiters(q)[i]
      BY DEF x
    <3> QED BY <1>3, <2>1, <2>2, <2>5, <3>1, <3>2, ListRemoved DEF MqInv
  <2>7. x \in parked /\ parked' \subseteq Thread
    BY <1>3, <2>6 DEF MqInv, MqQueues, MqTypeOK
  <2>8. \A p \in Qcb : Listed(p)' \subseteq Listed(p) /\ qcb'[p].msgs = qcb[p].msgs
    BY <2>4, <2>6
  <2>9. /\ MqTypeOK' /\ CallsKnow'
        /\ loc'[t].what = x /\ \A u \in Thread \ {t} : loc'[u] = loc[u]
    BY <1>1, <2>1, <2>2, <2>4, <2>7, <2>8, TakenKnow
  <2>10. MqPlaces' /\ MqLoop' /\ MqTurns' /\ MqQuiet' /\ MqCreating'
    BY <1>1, <2>2, <2>6, <2>7, <2>9, TakenInHand
  <2> QED BY <2>4, <2>6, <2>9, <2>10 DEF MqInv
<1> QED BY <1>6, <1>7

\* mymsgctl takes the first waiting thread in hand.
LEMMA ControlPopKeeps ==
  ASSUME MqDisciplined, MqInv, NEW t \in Thread, ControlPop(t)
  PROVE  MqInv'
<1>0. PICK q : q = loc[t].q
  OBVIOUS
<1> DEFINE x == qcb[q].waiters.head
<1>1. /\ Executes(t) /\ pc[t] = "ctl_pop" /\ SameButQueues /\ Park
      /\ UNCHANGED << readyQ, runQ, tcb, tbl, type >>
      /\ IF x = Null THEN Goto(t, "ctl_free") /\ UNCHANGED << qcb, link, loc >>
         ELSE tq_pop(q) /\ Goto(t, "ctl_push") /\ loc' = [loc EXCEPT ![t].what = x]
  BY <1>0 DEF ControlPop, At
<1>2. pc[t] \notin IdlePc \cup CreatePc \cup {"snd_ready", "ctl_push"} \cup ReceivingPc
  BY <1>1 DEF IdlePc, WrapPc, WaitPc, CreatePc, ReceivingPc
<1>3. LookedUp(t) /\ q \in Qcb /\ qcb[q].used /\ qcb[q].msgs = << >>
  <2>1. LookedUp(t) /\ qcb[q].msgs = << >>
    BY <1>0, <1>1 DEF MqInv, CallsKnow, Knows, CtlPc
  <2> QED BY <1>0, <2>1, QcbInUse
<1>4. /\ x = Null <=> Listed(q) = {}
      /\ x # Null => x \in Listed(q)
  BY <1>3, ReadyHead DEF MqInv
<1>5. tbl' \in [Slot -> TblType]
  BY <1>1 DEF MqInv, MqTypeOK, TblType
<1>6. CASE x = Null
  <2>1. Goto(t, "ctl_free") /\ UNCHANGED << qcb, link, loc >>
    BY <1>1, <1>6
  <2>2. Table' /\ link' \in LinkType
    BY <1>1, <2>1, TableKept DEF MqInv, MqTypeOK
  <2>3. parked' = UNION {Listed(r)' : r \in Qcb}
    BY <1>1, <1>5, <2>2, ParkedByTable
  <2>4. parked' = parked
    BY <1>1, <2>1, <2>3, ListsRest DEF MqInv, SameButQueues
  <2>5. "ctl_free" \in PlainPc /\ "ctl_free" \notin RcvPc
    BY DEF PlainPc, RcvPc
  <2>6. /\ MqQueues' /\ MqPlaces' /\ MqLoop' /\ MqTurns' /\ MqQuiet' /\ MqCreating'
        /\ \A r \in Qcb : Listed(r)' = Listed(r)
        /\ pc'[t] = "ctl_free" /\ \A u \in Thread \ {t} : pc'[u] = pc[u]
    BY <1>1, <1>2, <2>1, <2>4, <2>5, PlainStep
  <2>7. MqTypeOK'
    <3>1. qcb' \in [Qcb -> QcbType] /\ loc' \in [Thread -> LocType] /\ parked' \subseteq Thread
      BY <2>1, <2>4 DEF MqInv, MqTypeOK, QcbType, LocType
    <3> QED BY <1>1, <1>5, <2>1, <2>5, <3>1, MessageTypes
  <2>8. CallsKnow'
    <3>1. \A r \in Qcb : t \notin Listed(r)'
      BY <1>1, <1>2, <2>6, ActsAlone, NotListed
    <3>2. LookedUp(t)' /\ loc'[t].q = q /\ qcb'[q].msgs = << >> /\ Listed(q)' = {}
      <4>1. LookedUp(t)' /\ loc'[t].q = q /\ qcb'[q].msgs = << >>
        BY <1>0, <1>1, <1>3, <2>1 DEF LookedUp
      <4> QED BY <1>3, <1>4, <1>6, <2>6, <4>1
    <3>3. Knows(t)'
      BY <2>6, <3>1, <3>2 DEF Knows, SendPc, CtlPc, RcvPc, Listed
    <3> QED BY <1>1, <1>2, <2>1, <2>6, <3>3, OthersKnow
  <2> QED BY <2>2, <2>6, <2>7, <2>8 DEF MqInv
<1>7. CASE x # Null
  <2> DEFINE r == Pop(qcb[q].waiters, link)
  <2>1. x \in Listed(q) /\ x \in Thread /\ x \in parked
    BY <1>3, <1>4, <1>7 DEF MqInv, MqQueues, MqTypeOK
  <2>2. /\ Goto(t, "ctl_push") /\ loc' = [loc EXCEPT ![t].what = x] /\ tq_pop(q)
        /\ qcb' = [qcb EXCEPT ![q].waiters = r.q] /\ link' = r.l
    BY <1>1, <1>7 DEF tq_pop
  <2>3. r.q \in QueueType /\ r.l \in LinkType
    BY <1>3, <1>7, <2>1, QcbTyped, LinksTyped DEF MqInv, MqTypeOK
  <2>4. x = qcb[q].waiters.head
    OBVIOUS
  <2> HIDE DEF x, r
  <2>5. /\ qcb' \in [Qcb -> QcbType] /\ Table' /\ link' \in LinkType
        /\ \A p \in Qcb : qcb'[p].msgs = qcb[p].msgs
    BY <1>1, <1>3, <2>2, <2>3, WaitersStored
  <2>6. parked' = UNION {Listed(p)' : p \in Qcb}
    BY <1>1, <1>5, <2>5, ParkedByTable
  <2>7. /\ MqQueues' /\ Ready' = Ready /\ parked' = parked \ {x}
        /\ Listed(q)' = Listed(q) \ {x} /\ \A p \in Qcb \ {q} : Listed(p)' = Listed(p)
    <3>1. UNCHANGED << readyQ, waitQ >>
      BY <1>1 DEF SameButQueues
    <3> QED BY <1>3, <1>7, <2>2, <2>4, <2>6, <3>1, ListPopped DEF MqInv
  <2>8. parked' \subseteq Thread /\ \A p \in Qcb : Listed(p)' \subseteq Listed(p) /\ qcb'[p].msgs = qcb[p].msgs
    BY <2>5, <2>7 DEF MqInv, MqTypeOK
  <2>9. /\ MqTypeOK' /\ CallsKnow'
        /\ loc'[t].what = x /\ \A u \in Thread \ {t} : loc'[u] = loc[u]
    BY <1>1, <2>1, <2>2, <2>5, <2>8, TakenKnow
  <2>10. MqPlaces' /\ MqLoop' /\ MqTurns' /\ MqQuiet' /\ MqCreating'
    BY <1>1, <2>1, <2>2, <2>7, <2>9, TakenInHand
  <2> QED BY <2>5, <2>7, <2>9, <2>10 DEF MqInv
<1> QED BY <1>6, <1>7

\* The sender makes it ready.
LEMMA SendReadyKeeps ==
  ASSUME MqDisciplined, MqInv, NEW t \in Thread, SendReady(t)
  PROVE  MqInv'
<1>1. /\ Executes(t) /\ pc[t] = "snd_ready" /\ Goto(t, "user") /\ SameButQueues
      /\ rq_push(loc[t].what) /\ loc' = [loc EXCEPT ![t] = NoLocals]
      /\ UNCHANGED << runQ, tcb, parked, tbl, qcb, type >>
  BY DEF SendReady, At, Done
<1>2. loc' \in [Thread -> LocType] /\ \A u \in Thread \ {t} : loc'[u] = loc[u]
  BY <1>1, NoLocalsTyped, LocStored
<1>3. /\ MqQueues' /\ MqPlaces' /\ MqLoop' /\ MqTurns' /\ MqQuiet' /\ MqCreating'
      /\ readyQ' \in QueueType /\ link' \in LinkType
      /\ \A q \in Qcb : Listed(q)' = Listed(q)
      /\ pc'[t] = "user" /\ \A u \in Thread \ {t} : pc'[u] = pc[u]
  BY <1>1, <1>2, HandedOver
<1>4. MqTypeOK'
  <2>1. "user" \in MqPc \cup RestPc
    BY DEF RestPc
  <2> QED BY <1>1, <1>2, <1>3, <2>1, CallTypes DEF MqInv, MqTypeOK, TblType, QcbType
<1>5. Table'
  BY <1>1, TableKept DEF MqInv, MqTypeOK
<1>6. CallsKnow'
  <2>1. pc[t] \notin IdlePc \cup ReceivingPc
    BY <1>1 DEF IdlePc, WrapPc, WaitPc, ReceivingPc
  <2>2. \A q \in Qcb : t \notin Listed(q)'
    BY <1>1, <1>3, <2>1, ActsAlone, NotListed
  <2>3. Knows(t)'
    BY <1>3, <2>2, BackInProgram
  <2> QED BY <1>1, <1>2, <1>3, <2>1, <2>3, OthersKnow
<1> QED BY <1>3, <1>4, <1>5, <1>6 DEF MqInv

\* mymsgctl makes it ready.
LEMMA ControlPushKeeps ==
  ASSUME MqDisciplined, MqInv, NEW t \in Thread, ControlPush(t)
  PROVE  MqInv'
<1>1. /\ Executes(t) /\ pc[t] = "ctl_push" /\ Goto(t, "ctl_pop") /\ SameButQueues
      /\ rq_push(loc[t].what)
      /\ UNCHANGED << runQ, tcb, parked, tbl, qcb, type, loc >>
  BY DEF ControlPush, At, mqVars
<1>2. /\ MqQueues' /\ MqPlaces' /\ MqLoop' /\ MqTurns' /\ MqQuiet' /\ MqCreating'
      /\ readyQ' \in QueueType /\ link' \in LinkType
      /\ \A q \in Qcb : Listed(q)' = Listed(q)
      /\ pc'[t] = "ctl_pop" /\ \A u \in Thread \ {t} : pc'[u] = pc[u]
  BY <1>1, HandedOver
<1>3. MqTypeOK'
  <2>1. "ctl_pop" \in MqPc \cup RestPc
    BY DEF MqPc, CtlPc
  <2> QED BY <1>1, <1>2, <2>1, CallTypes DEF MqInv, MqTypeOK, TblType, QcbType, LocType
<1>4. Table'
  BY <1>1, TableKept DEF MqInv, MqTypeOK
<1>5. CallsKnow'
  <2>1. pc[t] \notin IdlePc \cup ReceivingPc
    BY <1>1 DEF IdlePc, WrapPc, WaitPc, ReceivingPc
  <2>2. \A q \in Qcb : t \notin Listed(q)'
    BY <1>1, <1>2, <2>1, ActsAlone, NotListed
  <2>3. LookedUp(t) /\ qcb[loc[t].q].msgs = << >>
    BY <1>1 DEF MqInv, CallsKnow, Knows, CtlPc
  <2>4. LookedUp(t)' /\ qcb'[loc'[t].q].msgs = << >>
    BY <1>1, <2>3 DEF LookedUp
  <2>5. Knows(t)'
    BY <1>2, <2>2, <2>4 DEF Knows, SendPc, CtlPc, RcvPc
  <2> QED BY <1>1, <1>2, <2>1, <2>5, OthersKnow
<1> QED BY <1>2, <1>3, <1>4, <1>5 DEF MqInv

-----------------------------------------------------------------------------
(* mymsgrcv: giving up the processor, waiting and coming back *)

\* A store to bRunnable stores nothing else.
LEMMA RunnableFlag ==
  ASSUME MqTypeOK, NEW u \in Thread, NEW b \in BOOLEAN, tcb' = [tcb EXCEPT ![u].bRunnable = b]
  PROVE  /\ tcb' \in [Thread -> TcbType] /\ tcb'[u].bRunnable = b
         /\ \A v \in Thread \ {u} : tcb'[v].bRunnable = tcb[v].bRunnable
<1>1. tcb \in [Thread -> TcbType]
  BY DEF MqTypeOK
<1>2. tcb' \in [Thread -> TcbType]
  BY <1>1, StoreRunnable
<1> DEFINE v == [tcb[u] EXCEPT !.bRunnable = b]
<1>3. v.bRunnable = b
  BY <1>1 DEF TcbType
<1>4. tcb' = [tcb EXCEPT ![u] = v]
  OBVIOUS
<1> HIDE DEF v
<1> QED BY <1>1, <1>2, <1>3, <1>4

\* t gives up RunQHead, joins the list and is stopped, in this order.
LEMMA ReceivingStep ==
  ASSUME MqDisciplined, MqInv, NEW t \in Thread, Executes(t),
         pc[t] \in {"rcv_leave", "rcv_park", "rcv_type"},
         NEW l \in ReceivingPc, Goto(t, l), l = "rcv_park" <=> pc[t] = "rcv_leave",
         SameButQueues, runQ' = Null, Ready' = Ready, loc' = loc,
         parked' = IF l = "rcv_park" THEN parked ELSE parked \cup {t},
         \A u \in Thread \ {t} : tcb'[u].bRunnable = tcb[u].bRunnable,
         l = "rcv_enter" => ~ tcb'[t].bRunnable
  PROVE  /\ MqPlaces' /\ MqLoop' /\ MqTurns' /\ MqQuiet' /\ MqCreating'
         /\ pc'[t] = l /\ \A u \in Thread \ {t} : pc'[u] = pc[u]
<1>1. pc'[t] = l /\ \A u \in Thread \ {t} : pc'[u] = pc[u]
  BY DEF Goto, MqInv, MqTypeOK
<1>2. pc[t] \notin IdlePc \cup CreatePc \cup {"snd_ready", "ctl_push"}
  BY DEF IdlePc, WrapPc, WaitPc, CreatePc
<1>3. /\ MqHolder = {t} /\ t \in Live /\ runQ \in {t, Null} /\ t \notin Ready
      /\ \A u \in Thread \ {t} : pc[u] \in RestPc \cup WrapPc
  <2>1. /\ MqHolder = {t} /\ t \in Live /\ \A u \in Thread \ {t} : pc[u] \in RestPc \cup WrapPc
        /\ pc[t] \notin ReceivingPc => runQ = t /\ t \notin Ready \cup parked
        /\ pc[t] \in ReceivingPc => runQ = Null
    BY <1>2, ActsAlone
  <2>2. pc[t] = "rcv_park" => Hands(t, t)
    BY DEF Hands
  <2>3. pc[t] = "rcv_park" => t \notin Ready
    BY <2>2 DEF MqInv, MqPlaces
  <2>4. pc[t] = "rcv_type" => t \notin Ready
    BY DEF MqInv, MqPlaces, MqQueues
  <2> QED BY <2>1, <2>3, <2>4 DEF ReceivingPc
<1>4. sched.pc = "tick" /\ Popped = {} /\ (\A u \in Thread : ~ sig[u]) /\ Null \notin Thread
  BY MqModes, NoThreads
<1>5. pc[t] = "rcv_leave" => t \notin parked
  BY <1>2, ActsAlone DEF ReceivingPc
<1>6. UNCHANGED << sched, mem, sig, inHandler, isPushed >>
  BY DEF SameButQueues, sigVars
<1>7. Popped' = {} /\ Live' = Live /\ Receiving' = {t} /\ MqHolder' = {t}
  <2>1. Popped' = {} /\ Live' = Live /\ Running' = {}
    BY <1>4, <1>6 DEF Popped, Live, Running
  <2>2. Receiving' = {t}
    BY <1>1, <1>3 DEF Receiving, ReceivingPc, RestPc, WaitPc, WrapPc
  <2> QED BY <2>1, <2>2 DEF MqHolder
<1>8. \A u, y \in Thread : /\ Hands(u, y) => u = t /\ y = t
                           /\ Hands(u, y)' <=> u = t /\ y = t /\ l = "rcv_park"
  <2>1. \A u \in Thread \ {t} : pc[u] \notin {"snd_ready", "ctl_push", "rcv_park"}
    BY <1>3 DEF RestPc, WaitPc, WrapPc
  <2>2. \A u \in Thread \ {t} : pc'[u] \notin {"snd_ready", "ctl_push", "rcv_park"}
    BY <1>1, <2>1
  <2>3. l \notin {"snd_ready", "ctl_push"}
    BY DEF ReceivingPc
  <2> QED BY <1>1, <1>2, <2>1, <2>2, <2>3 DEF Hands
<1>9. MqPlaces'
  <2>1. \A y \in Live : \/ y \in Ready \cup parked'
                        \/ \E u \in Thread : Hands(u, y)'
    <3> SUFFICES ASSUME NEW y \in Live PROVE y \in Ready \cup parked' \/ \E u \in Thread : Hands(u, y)'
      OBVIOUS
    <3>1. y \in Thread
      BY DEF Live
    <3>2. y \in Ready \cup parked \cup {t}
      BY <1>3, <1>4, <1>8, <3>1 DEF MqInv, MqPlaces
    <3> QED BY <1>8, <3>1, <3>2
  <2>2. Ready \cup parked' \subseteq Live
    BY <1>3 DEF MqInv, MqPlaces
  <2>3. \A u, y \in Thread : Hands(u, y)' => y \in Live \ (Ready \cup parked' \cup {Null})
    BY <1>3, <1>4, <1>5, <1>8
  <2>4. \A u \in Thread : pc'[u] \notin {"snd_ready", "ctl_push"}
    BY <1>1, <1>3 DEF ReceivingPc, RestPc, WaitPc, WrapPc
  <2>5. \A u \in Thread : pc'[u] \in {"rcv_type", "rcv_enter"} => u \in parked'
    BY <1>1, <1>3 DEF RestPc, WaitPc, WrapPc
  <2>6. \A u \in parked' : pc'[u] \in {"rcv_type", "rcv_enter", "rcv_wait"}
    BY <1>1, <1>5 DEF MqInv, MqPlaces, MqTypeOK, ReceivingPc
  <2>7. Root \in Live /\ pc'[Root] \notin RcvPc \cup {"rcv_wait"}
    BY <1>1, SchedulerAssumption DEF MqInv, MqPlaces, RcvPc
  <2> QED BY <1>7, <2>1, <2>2, <2>3, <2>4, <2>5, <2>6, <2>7 DEF MqPlaces
<1>10. MqLoop'
  <2>1. Null \notin Ready \cup parked'
    BY <1>4 DEF Ready, Members, MqInv, MqTypeOK
  <2> QED BY <1>4, <1>6, <2>1 DEF MqLoop
<1>11. MqTurns'
  <2>1. \A u \in Thread \ {t} : sig[u] \/ inHandler[u] \/ pc'[u] \in IdlePc
    BY <1>1, <1>3 DEF MqInv, MqTurns, IdlePc
  <2>2. \A u \in Thread : tcb'[u].bRunnable => u = t /\ pc'[u] # "rcv_enter"
    BY <1>1, <1>3 DEF MqInv, MqTurns
  <2> QED BY <1>4, <1>6, <1>7, <2>1, <2>2 DEF MqTurns, IdlePc
<1>12. MqQuiet'
  <2>1. pc'[t] \notin JoinPc \cup ExitPc \cup SuspendPc \cup {"join_wait", "none", "wrap_tcb"}
    BY <1>1 DEF JoinPc, ExitPc, SuspendPc, ReceivingPc
  <2>2. pc[t] \notin {"none", "wrap_tcb"}
    OBVIOUS
  <2> QED BY <1>1, <1>6, <2>1, <2>2, MqQuietKept
<1>13. MqCreating'
  <2>1. pc'[t] \notin CreatePc \cup {"wrap_tcb", "wrap_jcb", "wrap_flag"}
    BY <1>1 DEF CreatePc, ReceivingPc
  <2>2. pc[t] \notin IdlePc \cup CreatePc
    BY <1>2
  <2> QED BY <1>1, <1>6, <2>1, <2>2, CreatingNobody
<1> QED BY <1>1, <1>9, <1>10, <1>11, <1>12, <1>13

\* Throughout, t knows what it waits for.
LEMMA ReceivingKnow ==
  ASSUME MqDisciplined, MqInv, NEW t \in Thread, Executes(t),
         pc[t] \in {"rcv_leave", "rcv_park", "rcv_type", "rcv_enter"},
         pc'[t] \in {"rcv_park", "rcv_type", "rcv_enter", "rcv_wait"},
         \A u \in Thread \ {t} : pc'[u] = pc[u], UNCHANGED << tbl, loc >>,
         \A q \in Qcb : Listed(q)' \subseteq Listed(q) \cup {t} /\ (q # loc[t].q => Listed(q)' = Listed(q))
  PROVE  CallsKnow'
<1>1. Knows(t) /\ pc[t] \in RcvPc \ {"rcv_retry"}
  BY DEF MqInv, CallsKnow, RcvPc
<1>2. LookedUp(t) /\ t \in Receivers /\ loc[t].slot \in Slot /\ loc[t].what \in Type
  BY <1>1 DEF Knows
<1>3. LookedUp(t)' /\ \A q \in Qcb : t \in Listed(q)' => loc'[t].q = q
  BY <1>1, <1>2 DEF LookedUp, Knows
<1>4. Knows(t)'
  BY <1>2, <1>3 DEF Knows, SendPc, CtlPc, RcvPc
<1>5. pc[t] \notin IdlePc
  BY DEF IdlePc, WrapPc, WaitPc
<1> QED BY <1>4, <1>5, OthersKnow

\* A receiver gives up RunQHead, and has itself in hand.
LEMMA ReceiveLeaveKeeps ==
  ASSUME MqDisciplined, MqInv, NEW t \in Thread, ReceiveLeave(t)
  PROVE  MqInv'
<1>1. Executes(t) /\ pc[t] = "rcv_leave"
  BY DEF ReceiveLeave, At
<1>2. getThread(t) # Null
  <2>1. pc[t] \notin IdlePc \cup ReceivingPc
    BY <1>1 DEF IdlePc, WrapPc, WaitPc, ReceivingPc
  <2>2. runQ = t /\ t # Null
    BY <1>1, <2>1, ActsAlone, NoThreads
  <2> QED BY <2>2 DEF getThread
<1>3. /\ runQ' = Null /\ Goto(t, "rcv_park") /\ SameButQueues
      /\ UNCHANGED << readyQ, link, tcb, parked, tbl, qcb, type, loc >>
  BY <1>2 DEF ReceiveLeave, mqVars
<1>4. /\ MqQueues' /\ Ready' = Ready /\ \A q \in Qcb : Listed(q)' = Listed(q)
  BY <1>3, QueuesRest DEF MqInv, SameButQueues
<1>5. /\ MqPlaces' /\ MqLoop' /\ MqTurns' /\ MqQuiet' /\ MqCreating'
      /\ pc'[t] = "rcv_park" /\ \A u \in Thread \ {t} : pc'[u] = pc[u]
  <2>1. "rcv_park" \in ReceivingPc
    BY DEF ReceivingPc
  <2> QED BY <1>1, <1>3, <1>4, <2>1, ReceivingStep
<1>6. MqTypeOK'
  <2>1. "rcv_park" \in MqPc \cup RestPc
    BY DEF MqPc, RcvPc
  <2> QED BY <1>3, <2>1, CallTypes DEF MqInv, MqTypeOK, TblType, QcbType, LocType, Pointer
<1>7. Table'
  BY <1>3, TableKept DEF MqInv, MqTypeOK
<1>8. CallsKnow'
  BY <1>1, <1>3, <1>4, <1>5, ReceivingKnow
<1> QED BY <1>4, <1>5, <1>6, <1>7, <1>8 DEF MqInv

\* It joins the waiting list.
LEMMA ReceiveParkKeeps ==
  ASSUME MqDisciplined, MqInv, NEW t \in Thread, ReceivePark(t)
  PROVE  MqInv'
<1>0. PICK q : q = loc[t].q
  OBVIOUS
<1> DEFINE r == Push(qcb[q].waiters, link, t)
<1>1. /\ Executes(t) /\ pc[t] = "rcv_park" /\ Goto(t, "rcv_type") /\ SameButQueues /\ Park
      /\ UNCHANGED << readyQ, runQ, tcb, tbl, type, loc >>
      /\ tq_push(q, t) /\ qcb' = [qcb EXCEPT ![q].waiters = r.q] /\ link' = r.l
  BY <1>0 DEF ReceivePark, At, tq_push
<1>2. LookedUp(t) /\ q \in Qcb /\ qcb[q].used
  <2>1. LookedUp(t)
    BY <1>1 DEF MqInv, CallsKnow, Knows, RcvPc
  <2> QED BY <1>0, <2>1, QcbInUse
<1>3. t \notin Ready \cup parked
  <2>1. Hands(t, t)
    BY <1>1 DEF Hands
  <2> QED BY <2>1 DEF MqInv, MqPlaces
<1>4. r.q \in QueueType /\ r.l \in LinkType
  BY <1>2, QcbTyped, LinksTyped DEF MqInv, MqTypeOK
<1> HIDE DEF r
<1>5. /\ qcb' \in [Qcb -> QcbType] /\ Table' /\ link' \in LinkType
  BY <1>1, <1>2, <1>4, WaitersStored
<1>6. tbl' \in [Slot -> TblType]
  BY <1>1 DEF MqInv, MqTypeOK, TblType
<1>7. parked' = UNION {Listed(p)' : p \in Qcb}
  BY <1>1, <1>5, <1>6, ParkedByTable
<1>8. /\ MqQueues' /\ Ready' = Ready /\ parked' = parked \cup {t}
      /\ Listed(q)' = Listed(q) \cup {t} /\ \A p \in Qcb \ {q} : Listed(p)' = Listed(p)
  <2>1. UNCHANGED << readyQ, waitQ >>
    BY <1>1 DEF SameButQueues
  <2> QED BY <1>1, <1>2, <1>3, <1>7, <2>1, ListPushed DEF MqInv
<1>9. /\ MqPlaces' /\ MqLoop' /\ MqTurns' /\ MqQuiet' /\ MqCreating'
      /\ pc'[t] = "rcv_type" /\ \A u \in Thread \ {t} : pc'[u] = pc[u]
  <2>1. "rcv_type" \in ReceivingPc
    BY DEF ReceivingPc
  <2>2. runQ' = Null
    <3>1. pc[t] \notin IdlePc /\ pc[t] \in ReceivingPc
      BY <1>1 DEF IdlePc, WrapPc, WaitPc, ReceivingPc
    <3> QED BY <1>1, <3>1, ActsAlone
  <2> QED BY <1>1, <1>8, <2>1, <2>2, ReceivingStep
<1>10. MqTypeOK'
  <2>1. "rcv_type" \in MqPc \cup RestPc
    BY DEF MqPc, RcvPc
  <2>2. parked' \subseteq Thread
    BY <1>8 DEF MqInv, MqTypeOK
  <2> QED BY <1>1, <1>5, <2>1, <2>2, CallTypes DEF MqInv, MqTypeOK, TblType, LocType
<1>11. CallsKnow'
  BY <1>0, <1>1, <1>8, <1>9, ReceivingKnow
<1> QED BY <1>5, <1>8, <1>9, <1>10, <1>11 DEF MqInv

\* It says what it waits for.
LEMMA ReceiveTypeKeeps ==
  ASSUME MqDisciplined, MqInv, NEW t \in Thread, ReceiveType(t)
  PROVE  MqInv'
<1>1. /\ Executes(t) /\ pc[t] = "rcv_type" /\ Goto(t, "rcv_enter") /\ SameButQueues
      /\ UNCHANGED << readyQ, link, runQ, parked, tbl, qcb, loc >>
      /\ type' = [type EXCEPT ![t] = loc[t].what]
      /\ tcb' = [tcb EXCEPT ![t].bRunnable = FALSE]
  BY DEF ReceiveType, At
<1>2. /\ MqQueues' /\ Ready' = Ready /\ \A q \in Qcb : Listed(q)' = Listed(q)
  BY <1>1, QueuesRest DEF MqInv, SameButQueues
<1>3. /\ tcb' \in [Thread -> TcbType] /\ ~ tcb'[t].bRunnable
      /\ \A u \in Thread \ {t} : tcb'[u].bRunnable = tcb[u].bRunnable
  BY <1>1, RunnableFlag DEF MqInv
<1>4. t \in parked /\ runQ' = Null
  <2>1. pc[t] \notin IdlePc /\ pc[t] \in ReceivingPc
    BY <1>1 DEF IdlePc, WrapPc, WaitPc, ReceivingPc
  <2>2. t \in parked
    BY <1>1 DEF MqInv, MqPlaces
  <2> QED BY <1>1, <2>1, <2>2, ActsAlone
<1>5. /\ MqPlaces' /\ MqLoop' /\ MqTurns' /\ MqQuiet' /\ MqCreating'
      /\ pc'[t] = "rcv_enter" /\ \A u \in Thread \ {t} : pc'[u] = pc[u]
  <2>1. "rcv_enter" \in ReceivingPc
    BY DEF ReceivingPc
  <2>2. parked' = parked \cup {t}
    BY <1>1, <1>4
  <2> QED BY <1>1, <1>2, <1>3, <1>4, <2>1, <2>2, ReceivingStep
<1>6. MqTypeOK'
  <2>1. "rcv_enter" \in MqPc \cup RestPc
    BY DEF MqPc, RcvPc
  <2>2. loc[t].what \in Type
    BY <1>1 DEF MqInv, CallsKnow, Knows, RcvPc
  <2>3. type' \in [Thread -> Type \cup {Garbage}]
    BY <1>1, <2>2 DEF MqInv, MqTypeOK
  <2> QED BY <1>1, <1>3, <2>1, <2>3, CallTypes DEF MqInv, MqTypeOK, TblType, QcbType, LocType
<1>7. Table'
  BY <1>1, TableKept DEF MqInv, MqTypeOK
<1>8. CallsKnow'
  BY <1>1, <1>2, <1>5, ReceivingKnow
<1> QED BY <1>2, <1>5, <1>6, <1>7, <1>8 DEF MqInv

\* What t creates is elsewhere if t goes from one call's statement to another's
\* or to the program.
LEMMA CreatingKept ==
  ASSUME MqInv, NEW t \in Thread, UNCHANGED << arg, isPushed >>,
         pc[t] \notin CreatePc \cup WrapPc \cup {"start"},
         pc'[t] \notin CreatePc \cup {"wrap_tcb", "wrap_jcb", "wrap_flag"},
         \A u \in Thread \ {t} : pc'[u] = pc[u]
  PROVE  MqCreating'
<1>1. \A u \in Thread : pc'[u] \in CreatePc <=> pc[u] \in CreatePc
  OBVIOUS
<1>2. \A u \in Thread : pc[u] \in CreatePc => arg[u] \in Thread \ {t} /\ pc'[arg[u]] = pc[arg[u]]
  BY DEF MqInv, MqCreating
<1>3. \A u \in Thread : pc'[u] \in {"wrap_tcb", "wrap_jcb", "wrap_flag"} => pc'[u] = pc[u]
  OBVIOUS
<1> QED BY <1>1, <1>2, <1>3 DEF MqInv, MqCreating

\* A step outside of message calls.
LEMMA CallsKept ==
  ASSUME MqInv, UNCHANGED mqVars, \A q \in Qcb : Listed(q)' = Listed(q),
         \A u \in Thread : \/ pc'[u] = pc[u]
                           \/ pc'[u] \notin {"get_store", "rcv_wait"} \cup SendPc \cup CtlPc \cup RcvPc
  PROVE  Table' /\ CallsKnow'
<1>1. Table'
  BY TableKept DEF mqVars
<1>2. ASSUME NEW u \in Thread PROVE Knows(u)'
  <2>1. Knows(u) /\ LookedUp(u)' = LookedUp(u) /\ loc' = loc
    BY DEF MqInv, CallsKnow, LookedUp, mqVars
  <2>2. \A q \in Qcb : u \in Listed(q)' => LookedUp(u)' /\ loc'[u].q = q
    BY <2>1 DEF Knows
  <2>3. CASE pc'[u] = pc[u]
    <3>1. pc'[u] = "ctl_free" => Listed(loc[u].q)' = {}
      <4> SUFFICES ASSUME pc[u] = "ctl_free" PROVE Listed(loc[u].q)' = {}
        BY <2>3
      <4>1. LookedUp(u) /\ Listed(loc[u].q) = {}
        BY <2>1 DEF Knows, CtlPc
      <4>2. UNCHANGED loc
        BY <2>1
      <4> QED BY <4>1, <4>2 DEF LookedUp
    <3> QED BY <2>1, <2>2, <2>3, <3>1 DEF Knows, mqVars, CtlPc
  <2>4. CASE pc'[u] \notin {"get_store", "rcv_wait"} \cup SendPc \cup CtlPc \cup RcvPc
    BY <2>2, <2>4 DEF Knows, SendPc, CtlPc, RcvPc
  <2> QED BY <2>3, <2>4
<1> QED BY <1>1, <1>2 DEF CallsKnow

\* It waits: from now on nobody executes.
LEMMA ReceiveEnterKeeps ==
  ASSUME MqDisciplined, MqInv, NEW t \in Thread, ReceiveEnter(t)
  PROVE  MqInv'
<1>1. Executes(t) /\ pc[t] = "rcv_enter" /\ UNCHANGED mqVars
  BY DEF ReceiveEnter, WaitEnter, At
<1>2. pc[t] \notin IdlePc /\ pc[t] \in ReceivingPc /\ t \in parked
  BY <1>1 DEF MqInv, MqPlaces, IdlePc, WrapPc, WaitPc, ReceivingPc
<1>3. getThread(t) # Null
  BY <1>2, NoThreads DEF getThread
<1>4. /\ Goto(t, "rcv_wait") /\ SameButQueues
      /\ UNCHANGED << readyQ, link, runQ, tcb, parked, tbl, qcb, type, loc, isPushed, arg >>
  BY <1>1, <1>3
     DEF ReceiveEnter, WaitEnter, mqVars, SameButQueues, queueVars, tcbVars, rest
<1>5. pc'[t] = "rcv_wait" /\ \A u \in Thread \ {t} : pc'[u] = pc[u]
  BY <1>4 DEF Goto, MqInv, MqTypeOK
<1>6. /\ MqQueues' /\ Ready' = Ready /\ \A q \in Qcb : Listed(q)' = Listed(q)
  BY <1>4, QueuesRest DEF MqInv, SameButQueues
<1>7. /\ MqHolder = {t} /\ Receiving = {t} /\ runQ = Null
      /\ \A u \in Thread \ {t} : pc[u] \in RestPc \cup WrapPc
  BY <1>1, <1>2, ActsAlone
<1>8. sched.pc = "tick" /\ Popped = {} /\ \A u \in Thread : ~ sig[u]
  BY <1>1, MqModes
<1>9. UNCHANGED << runQ, sched, mem, sig, inHandler, tcb >>
  BY <1>4 DEF SameButQueues, sigVars
<1>10. Popped' = {} /\ Live' = Live /\ Receiving' = {} /\ MqHolder' = {}
  <2>1. Popped' = {} /\ Live' = Live /\ Running' = {}
    BY <1>7, <1>8, <1>9 DEF Popped, Live, Running
  <2>2. Receiving' = {}
    BY <1>5, <1>7 DEF Receiving, ReceivingPc, RestPc, WaitPc, WrapPc
  <2> QED BY <2>1, <2>2 DEF MqHolder
<1>11. \A u \in Thread : /\ pc[u] \notin {"snd_ready", "ctl_push", "rcv_park"}
                         /\ pc'[u] \notin {"snd_ready", "ctl_push", "rcv_park", "rcv_type", "rcv_enter"}
  BY <1>1, <1>5, <1>7 DEF RestPc, WaitPc, WrapPc
<1>12. MqPlaces'
  <2>1. \A u, y \in Thread : ~ Hands(u, y) /\ ~ Hands(u, y)'
    BY <1>11 DEF Hands
  <2>2. \A y \in Live : y \in Ready \cup parked \cup {runQ}
    <3>1. Live \subseteq Thread
      BY DEF Live
    <3> QED BY <1>8, <2>1, <3>1 DEF MqInv, MqPlaces
  <2>3. \A u \in parked : pc'[u] \in {"rcv_type", "rcv_enter", "rcv_wait"}
    BY <1>5 DEF MqInv, MqPlaces, MqTypeOK
  <2>4. Root \in Live /\ pc'[Root] \notin RcvPc \cup {"rcv_wait"}
    BY <1>1, <1>5, SchedulerAssumption DEF MqInv, MqPlaces, RcvPc
  <2> QED BY <1>4, <1>6, <1>8, <1>10, <1>11, <2>1, <2>2, <2>3, <2>4 DEF MqInv, MqPlaces
<1>13. MqLoop'
  BY <1>4, <1>6, <1>8, <1>9 DEF MqInv, MqLoop
<1>14. MqTurns'
  <2>1. \A u \in Thread : sig[u] \/ inHandler[u] \/ pc'[u] \in IdlePc
    BY <1>5, <1>7 DEF MqInv, MqTurns, IdlePc, WaitPc
  <2>2. \A u \in Thread : ~ tcb[u].bRunnable
    BY <1>1, <1>7 DEF MqInv, MqTurns
  <2> QED BY <1>8, <1>9, <1>10, <2>1, <2>2 DEF MqTurns, IdlePc
<1>15. MqQuiet'
  <2>1. pc'[t] \notin JoinPc \cup ExitPc \cup SuspendPc \cup {"join_wait", "none", "wrap_tcb"}
    BY <1>5 DEF JoinPc, ExitPc, SuspendPc
  <2>2. pc[t] \notin {"none", "wrap_tcb"}
    BY <1>1
  <2> QED BY <1>1, <1>5, <1>9, <2>1, <2>2, MqQuietKept
<1>16. MqCreating'
  BY <1>1, <1>4, <1>5, CreatingKept DEF CreatePc, WrapPc
<1>17. MqTypeOK'
  <2>1. "rcv_wait" \in MqPc \cup RestPc
    BY DEF RestPc, WaitPc
  <2> QED BY <1>4, <2>1, CallTypes DEF MqInv, MqTypeOK, TblType, QcbType, LocType
<1>18. Table'
  BY <1>4, TableKept
<1>19. CallsKnow'
  BY <1>1, <1>4, <1>5, <1>6, ReceivingKnow
<1> QED BY <1>6, <1>12, <1>13, <1>14, <1>15, <1>16, <1>17, <1>18, <1>19 DEF MqInv

\* A thread that is let go on returns from its wait.
LEMMA LetGo ==
  ASSUME MqDisciplined, MqInv, NEW t \in Thread, Executes(t), tcb[t].bRunnable, pc[t] \in WaitPc
  PROVE  t \in MqHolder /\ runQ = t /\ t \notin Ready \cup parked
<1>1. t \in MqHolder
  BY DEF MqInv, MqTurns
<1>2. t \in Running
  BY <1>1, MqModes DEF MqHolder, Receiving, ReceivingPc, WaitPc
<1>3. runQ = t /\ sched.pc = "tick"
  BY <1>2, MqModes DEF Running
<1> QED BY <1>1, <1>3 DEF MqInv, MqLoop

\* It has been made ready, and given the processor.
LEMMA ReceiveReturnKeeps ==
  ASSUME MqDisciplined, MqInv, NEW t \in Thread, ReceiveReturn(t)
  PROVE  MqInv'
<1>1. /\ Executes(t) /\ pc[t] = "rcv_wait" /\ tcb[t].bRunnable
      /\ Goto(t, "rcv_retry") /\ SameButQueues
      /\ UNCHANGED << readyQ, link, runQ, tcb, parked, tbl, qcb, type, loc >>
  BY DEF ReceiveReturn, WaitReturn, At, mqVars, SameButQueues, queueVars, tcbVars, rest
<1>2. pc'[t] = "rcv_retry" /\ \A u \in Thread \ {t} : pc'[u] = pc[u]
  BY <1>1 DEF Goto, MqInv, MqTypeOK
<1>3. t \in MqHolder /\ t \notin parked
  BY <1>1, LetGo DEF WaitPc
<1>4. MqQueues' /\ Ready' = Ready /\ \A q \in Qcb : Listed(q)' = Listed(q)
  BY <1>1, QueuesRest DEF MqInv, SameButQueues
<1>5. UNCHANGED << runQ, parked, sched, mem, sig, inHandler, tcb, isPushed, arg >>
  BY <1>1 DEF SameButQueues, sigVars
<1>6. MqPlaces' /\ MqLoop' /\ MqTurns'
  <2>1. t # Root
    BY <1>1 DEF MqInv, MqPlaces
  <2>2. OwnMove(t)
    BY <1>1, <1>2, <1>3, <2>1 DEF OwnMove, ReceivingPc
  <2>3. \A u \in Thread : OwnMove(u) \/ (pc'[u] = pc[u] /\ loc'[u] = loc[u])
    BY <1>1, <1>2, <2>2
  <2>4. \A u \in Thread : tcb'[u].bRunnable = tcb[u].bRunnable
    BY <1>5
  <2> QED BY <1>4, <1>5, <2>3, <2>4, OwnMovesKeep
<1>7. MqQuiet'
  <2>1. pc'[t] \notin JoinPc \cup ExitPc \cup SuspendPc \cup {"join_wait", "none", "wrap_tcb"}
    BY <1>2 DEF JoinPc, ExitPc, SuspendPc
  <2>2. pc[t] \notin {"none", "wrap_tcb"}
    BY <1>1
  <2> QED BY <1>1, <1>2, <1>5, <2>1, <2>2, MqQuietKept
<1>8. MqCreating'
  BY <1>1, <1>2, <1>5, CreatingKept DEF CreatePc, WrapPc
<1>9. MqTypeOK'
  <2>1. "rcv_retry" \in MqPc \cup RestPc
    BY DEF MqPc, RcvPc
  <2> QED BY <1>1, <2>1, CallTypes DEF MqInv, MqTypeOK, TblType, QcbType, LocType
<1>10. Table'
  BY <1>1, TableKept
<1>11. CallsKnow'
  <2>1. ASSUME NEW u \in Thread \ {t} PROVE Knows(u)'
    <3>1. Knows(u)
      BY DEF MqInv, CallsKnow
    <3>2. LookedUp(u) => LookedUp(u)'
      BY <1>1 DEF LookedUp
    <3>3. Listed(loc[u].q)' = Listed(loc[u].q)
      BY <1>1 DEF Listed
    <3> QED BY <1>1, <1>2, <1>4, <3>1, <3>2, <3>3 DEF Knows
  <2>2. Knows(t)'
    <3>1. t \in Receivers /\ loc[t].slot \in Slot /\ loc[t].what \in Type
      BY <1>1 DEF MqInv, CallsKnow, Knows
    <3>2. \A q \in Qcb : t \notin Listed(q)'
      BY <1>3, <1>4, NotListed
    <3> QED BY <1>1, <1>2, <3>1, <3>2 DEF Knows, SendPc, CtlPc, RcvPc
  <2> QED BY <2>1, <2>2 DEF CallsKnow
<1> QED BY <1>4, <1>6, <1>7, <1>8, <1>9, <1>10, <1>11 DEF MqInv

-----------------------------------------------------------------------------
(* The thread library's steps, which message calls do not see *)

\* The lines they lead to.
LibraryPc == {"user", "done"} \cup CreatePc \cup WrapPc \cup {"start"}

\* u goes on in the thread library.
LibraryMove(u) ==
  /\ OwnMove(u) /\ ~ sig[u] /\ ~ inHandler[u] /\ pc'[u] \in LibraryPc
  /\ pc'[u] \in {"none", "wrap_tcb"} <=> pc[u] \in {"none", "wrap_tcb"}

\* Steps of the thread library that move only the threads that take them.
LEMMA LibraryMoves ==
  ASSUME MqDisciplined, MqInv, UNCHANGED mqVars,
         UNCHANGED << readyQ, waitQ, link, runQ, parked, sched, mem, sig, inHandler, crashed >>,
         isPushed' \in BOOLEAN, arg' \in [Thread -> Pointer],
         tcb' \in [Thread -> TcbType], \A u \in Thread : tcb'[u].bRunnable = tcb[u].bRunnable,
         pc' \in [Thread -> PcType \cup MqPc],
         \A u \in Thread : pc'[u] = pc[u] \/ (LibraryMove(u) /\ sched.pc = "tick"),
         MqCreating'
  PROVE  MqInv'
<1>1. UNCHANGED << tbl, qcb, type, loc >>
  BY DEF mqVars
<1>2. MqQueues' /\ Ready' = Ready /\ \A q \in Qcb : Listed(q)' = Listed(q)
  BY <1>1, QueuesRest DEF MqInv
<1>3. MqPlaces' /\ MqLoop' /\ MqTurns'
  <2>1. \A u \in Thread : OwnMove(u) \/ (pc'[u] = pc[u] /\ loc'[u] = loc[u])
    BY <1>1 DEF LibraryMove
  <2> QED BY <1>2, <2>1, OwnMovesKeep
<1>4. MqQuiet'
  <2>1. /\ sched.pc # "tick" => \A u \in Thread : pc'[u] = pc[u]
        /\ \A u \in Thread : sig[u] \/ inHandler[u] => pc'[u] = pc[u]
        /\ \A u \in Thread : pc'[u] \in {"none", "wrap_tcb"} <=> pc[u] \in {"none", "wrap_tcb"}
    BY DEF LibraryMove
  <2>2. \A u \in Thread : pc'[u] \notin JoinPc \cup ExitPc \cup SuspendPc \cup {"join_wait"}
    BY DEF MqInv, MqQuiet, LibraryMove, LibraryPc, CreatePc, WrapPc, JoinPc, ExitPc, SuspendPc
  <2> QED BY <2>1, <2>2 DEF MqInv, MqQuiet
<1>5. MqTypeOK'
  BY <1>1 DEF MqInv, MqTypeOK
<1>6. Table' /\ CallsKnow'
  <2>1. \A u \in Thread : \/ pc'[u] = pc[u]
                          \/ pc'[u] \notin {"get_store", "rcv_wait"} \cup SendPc \cup CtlPc \cup RcvPc
    BY DEF LibraryMove, LibraryPc, CreatePc, WrapPc, SendPc, CtlPc, RcvPc
  <2> QED BY <1>2, <2>1, CallsKept
<1> QED BY <1>2, <1>3, <1>4, <1>5, <1>6 DEF MqInv

\* At most one thread is creating another.
LEMMA OneCreates ==
  ASSUME MqDisciplined, MqInv, NEW c \in Thread, Executes(c)
  PROVE  \A t \in Thread : pc[t] \in CreatePc => t \in MqHolder /\ runQ = t /\ ~ sig[t] /\ ~ inHandler[t]
<1> SUFFICES ASSUME NEW t \in Thread, pc[t] \in CreatePc
             PROVE  t \in MqHolder /\ runQ = t /\ ~ sig[t] /\ ~ inHandler[t]
  OBVIOUS
<1>1. ~ sig[t] /\ Popped = {} /\ sched.pc = "tick"
  BY MqModes
<1>2. ~ inHandler[t] /\ pc[t] \notin WrapPc \cup WaitPc \cup {"none", "done"}
  BY DEF MqInv, MqQuiet, RestPc, WaitPc, WrapPc, CreatePc
<1>3. t \in MqHolder
  BY <1>1, <1>2 DEF MqInv, MqTurns
<1>4. t \notin Receiving
  BY DEF Receiving, ReceivingPc, CreatePc
<1> QED BY <1>1, <1>2, <1>3, <1>4 DEF MqHolder, Running

\* thread_create: c starts.
LEMMA MqCreateKeeps ==
  ASSUME MqDisciplined, MqInv, NEW t \in Thread, NEW c \in Thread, Create(t, c), UNCHANGED mqVars
  PROVE  MqInv'
<1>1. /\ Executes(t) /\ pc[t] = "user" /\ pc[c] = "none" /\ t # c
      /\ pc' = [pc EXCEPT ![t] = "create_check", ![c] = "wrap_tcb"]
      /\ arg' = [arg EXCEPT ![t] = c]
  BY DEF Create, AtCall
<1>2. UNCHANGED << readyQ, waitQ, link, runQ, tcb, mem, isPushed, sched, sig, inHandler, parked, crashed >>
  BY DEF Create, queueVars, tcbVars, sigVars, rest
<1>3. /\ pc'[t] = "create_check" /\ pc'[c] = "wrap_tcb" /\ arg'[t] = c
      /\ \A u \in Thread \ {t, c} : pc'[u] = pc[u]
      /\ pc' \in [Thread -> PcType \cup MqPc] /\ arg' \in [Thread -> Pointer]
  BY <1>1 DEF MqInv, MqTypeOK, PcType, CreatePc, WrapPc, Pointer
<1>4. t \in MqHolder /\ ~ isPushed /\ sched.pc = "tick" /\ (\A u \in Thread : ~ sig[u])
      /\ ~ inHandler[t] /\ ~ inHandler[c]
      /\ \A u \in Thread : pc[u] \notin CreatePc \cup {"wrap_tcb", "wrap_jcb", "wrap_flag"}
  <2>1. pc[t] \notin IdlePc \cup CreatePc
    BY <1>1 DEF IdlePc, WrapPc, WaitPc, CreatePc
  <2>2. ~ inHandler[c]
    BY <1>1 DEF MqInv, MqQuiet
  <2> QED BY <1>1, <2>1, <2>2, ActsAlone, NobodyCreates, MqModes
<1>5. \A u \in Thread : pc'[u] = pc[u] \/ (LibraryMove(u) /\ sched.pc = "tick")
  <2>1. LibraryMove(t)
    BY <1>1, <1>3, <1>4 DEF LibraryMove, LibraryPc, OwnMove, CreatePc, ReceivingPc, RcvPc
  <2>2. LibraryMove(c)
    BY <1>1, <1>3, <1>4 DEF LibraryMove, LibraryPc, OwnMove, IdlePc, WrapPc, ReceivingPc, RcvPc
  <2> QED BY <1>3, <1>4, <2>1, <2>2
<1>6. MqCreating'
  <2>1. \A u \in Thread : /\ pc'[u] \in CreatePc => u = t
                          /\ pc'[u] \in {"wrap_tcb", "wrap_jcb", "wrap_flag"} => u = c
    BY <1>3, <1>4 DEF CreatePc
  <2>2. pc'[t] \in CreatePc /\ pc'[c] \in WrapPc
    BY <1>3 DEF CreatePc, WrapPc
  <2> QED BY <1>1, <1>2, <1>3, <1>4, <2>1, <2>2 DEF MqCreating
<1>7. tcb' \in [Thread -> TcbType] /\ isPushed' \in BOOLEAN
  BY <1>2 DEF MqInv, MqTypeOK
<1> QED BY <1>2, <1>3, <1>5, <1>6, <1>7, LibraryMoves

\* A thread that somebody creates is found once it has a TCB.
LEMMA MadeIsFound ==
  ASSUME MqDisciplined, MqInv, NEW t \in Thread, Executes(t), NEW x \in Thread,
         pc[x] \in (WrapPc \ {"wrap_tcb"}) \cup {"start"}
  PROVE  x \in Live /\ getThread(x) # Null
<1>1. x \in Live
  BY DEF MqInv, MqQuiet, Live, WrapPc
<1>2. \A u \in Thread : ~ Hands(u, x)
  BY DEF MqInv, MqPlaces, Hands, WrapPc
<1>3. Popped = {}
  BY MqModes
<1> QED BY <1>1, <1>2, <1>3, MqFound

\* The creator sleeps, or becomes the parent of its child.
LEMMA MqCreateCheckKeeps ==
  ASSUME MqDisciplined, MqInv, NEW t \in Thread, CreateCheck(t), UNCHANGED mqVars
  PROVE  MqInv'
<1>1. Executes(t) /\ pc[t] = "create_check"
  BY DEF CreateCheck, At
<1>2. t \in MqHolder /\ sched.pc = "tick" /\ ~ sig[t] /\ ~ inHandler[t]
      /\ \A u \in Thread : pc[u] \in CreatePc => u = t
  BY <1>1, OneCreates, MqModes DEF CreatePc
<1>3. arg[t] \in Thread \ {t} /\ pc[arg[t]] \in WrapPc \cup {"start"}
  BY <1>1 DEF MqInv, MqCreating, CreatePc
<1>4. CASE ~ isPushed
  <2>1. pc' = [pc EXCEPT ![t] = "create_sleep"]
    BY <1>4 DEF CreateCheck, Goto
  <2>2. UNCHANGED << readyQ, waitQ, link, runQ, tcb, mem, isPushed, sched, arg, sig, inHandler, parked, crashed >>
    BY <1>4 DEF CreateCheck, queueVars, tcbVars, sigVars, rest
  <2>3. /\ pc'[t] = "create_sleep" /\ \A u \in Thread \ {t} : pc'[u] = pc[u]
        /\ pc' \in [Thread -> PcType \cup MqPc]
    BY <2>1 DEF MqInv, MqTypeOK, PcType, CreatePc
  <2>4. LibraryMove(t)
    BY <1>1, <1>2, <2>3 DEF LibraryMove, LibraryPc, OwnMove, CreatePc, ReceivingPc, RcvPc
  <2>5. MqCreating'
    <3>1. /\ \A u \in Thread : pc'[u] \in CreatePc <=> pc[u] \in CreatePc
          /\ \A u \in Thread : pc[u] \in CreatePc => u = t /\ pc'[arg[u]] = pc[arg[u]]
          /\ \A u \in Thread : pc'[u] \in {"wrap_tcb", "wrap_jcb", "wrap_flag"} => pc'[u] = pc[u]
      BY <1>1, <1>2, <1>3, <2>3 DEF CreatePc
    <3> QED BY <1>3, <1>4, <2>2, <3>1 DEF MqInv, MqCreating
  <2>6. tcb' \in [Thread -> TcbType] /\ isPushed' \in BOOLEAN /\ arg' \in [Thread -> Pointer]
    BY <2>2 DEF MqInv, MqTypeOK
  <2> QED BY <1>2, <2>2, <2>3, <2>4, <2>5, <2>6, LibraryMoves
<1>5. CASE isPushed
  <2> DEFINE x == arg[t]
  <2>0. pc[x] \notin {"wrap_tcb", "wrap_jcb", "wrap_flag"}
        /\ \A u \in Thread : pc[u] \notin {"wrap_tcb", "wrap_jcb", "wrap_flag"}
    BY <1>3, <1>5 DEF MqInv, MqCreating
  <2>1. getThread(x) # Null
    <3>1. pc[x] \in (WrapPc \ {"wrap_tcb"}) \cup {"start"}
      BY <1>3, <2>0
    <3> QED BY <1>1, <1>3, <3>1, MadeIsFound
  <2>2. /\ isPushed' = FALSE /\ tcb' = [tcb EXCEPT ![x].parentTid = t]
        /\ pc' = [pc EXCEPT ![t] = "user"] /\ arg' = [arg EXCEPT ![t] = Null]
        /\ UNCHANGED << readyQ, waitQ, link, runQ, mem, sched, sig, inHandler, parked, crashed >>
    BY <1>5, <2>1 DEF CreateCheck, Goto, Leave, queueVars, sigVars, rest
  <2>3. /\ pc'[t] = "user" /\ \A u \in Thread \ {t} : pc'[u] = pc[u]
        /\ pc' \in [Thread -> PcType \cup MqPc] /\ arg' \in [Thread -> Pointer]
    BY <2>2 DEF MqInv, MqTypeOK, PcType, RestPc, Pointer
  <2>4. LibraryMove(t)
    BY <1>1, <1>2, <2>3 DEF LibraryMove, LibraryPc, OwnMove, CreatePc, ReceivingPc, RcvPc
  <2>5. MqCreating'
    BY <1>2, <2>0, <2>2, <2>3 DEF MqCreating, CreatePc
  <2>6. tcb' \in [Thread -> TcbType] /\ \A u \in Thread : tcb'[u].bRunnable = tcb[u].bRunnable
    <3>1. tcb \in [Thread -> TcbType] /\ x \in Thread
      BY <1>3 DEF MqInv, MqTypeOK
    <3> DEFINE v == [tcb[x] EXCEPT !.parentTid = t]
    <3>2. v.bRunnable = tcb[x].bRunnable
      BY <3>1 DEF TcbType
    <3>3. tcb' = [tcb EXCEPT ![x] = v]
      BY <2>2
    <3> HIDE DEF v
    <3>4. \A u \in Thread : tcb'[u].bRunnable = tcb[u].bRunnable
      BY <3>1, <3>2, <3>3
    <3> QED BY <2>2, <3>1, <3>4, StoreParent
  <2>7. isPushed' \in BOOLEAN
    BY <2>2
  <2>8. \A u \in Thread : pc'[u] = pc[u] \/ (LibraryMove(u) /\ sched.pc = "tick")
    BY <1>2, <2>3, <2>4
  <2> HIDE DEF x
  <2> QED BY <2>2, <2>3, <2>5, <2>6, <2>7, <2>8, LibraryMoves
<1> QED BY <1>4, <1>5

\* __wrapperFunc: c gets its TCB and joins the ready queue.
LEMMA MqWrapTcbKeeps ==
  ASSUME MqDisciplined, MqInv, NEW c \in Thread, WrapTcb(c), UNCHANGED mqVars
  PROVE  MqInv'
<1>1. /\ Executes(c) /\ pc[c] = "wrap_tcb" /\ rq_push(c)
      /\ tcb' = [tcb EXCEPT ![c] = NewTcb] /\ mem' = [mem EXCEPT ![c] = "live"]
      /\ pc' = [pc EXCEPT ![c] = "wrap_jcb"]
  BY DEF WrapTcb, At, Goto
<1>2. /\ UNCHANGED << waitQ, runQ, isPushed, sched, arg, sig, inHandler, parked, crashed >>
      /\ UNCHANGED << tbl, qcb, type, loc >>
  BY DEF WrapTcb, sigVars, rest, mqVars
<1>3. /\ pc'[c] = "wrap_jcb" /\ \A u \in Thread \ {c} : pc'[u] = pc[u]
      /\ pc' \in [Thread -> PcType \cup MqPc]
  BY <1>1 DEF MqInv, MqTypeOK, PcType, WrapPc
<1>4. /\ mem' \in [Thread -> {"none", "live", "freed"}]
      /\ mem'[c] = "live" /\ \A u \in Thread \ {c} : mem'[u] = mem[u]
  BY <1>1 DEF MqInv, MqTypeOK
<1>5. /\ tcb' \in [Thread -> TcbType] /\ ~ tcb'[c].bRunnable
      /\ \A u \in Thread \ {c} : tcb'[u].bRunnable = tcb[u].bRunnable
  <2>1. NewTcb \in TcbType /\ ~ NewTcb.bRunnable
    BY DEF NewTcb, TcbType
  <2> QED BY <1>1, <2>1 DEF MqInv, MqTypeOK
<1>6. c \notin Live /\ Live' = Live \cup {c} /\ sched.pc = "tick" /\ Popped = {} /\ Null \notin Thread
      /\ ~ inHandler[c] /\ \A u \in Thread : ~ sig[u]
  <2>1. c \notin Live
    BY <1>1 DEF MqInv, MqQuiet, Live
  <2> QED BY <1>1, <1>4, <2>1, MqModes, NoThreads DEF Live
<1>7. c \notin Ready \cup parked /\ c # runQ
  BY <1>6 DEF MqInv, MqPlaces
<1>8. /\ MqQueues' /\ readyQ' \in QueueType /\ link' \in LinkType
      /\ Ready' = Ready \cup {c} /\ \A q \in Qcb : Listed(q)' = Listed(q)
  BY <1>1, <1>2, <1>7, ReadyPushed DEF MqInv
<1>9. Running' = Running /\ Popped' = {} /\ Receiving' = Receiving /\ MqHolder' = MqHolder
  <2>1. Running' = Running /\ Popped' = {}
    BY <1>2, <1>6, <1>7, <1>8 DEF Running, Popped
  <2>2. Receiving' = Receiving
    BY <1>1, <1>3 DEF Receiving, ReceivingPc
  <2> QED BY <1>6, <2>1, <2>2 DEF MqHolder
<1>10. \A u, x \in Thread : Hands(u, x)' <=> Hands(u, x)
  BY <1>1, <1>2, <1>3 DEF Hands
<1>11. MqPlaces'
  <2>1. \A x \in Live \cup {c} : \/ x \in Ready \cup {c} \cup parked \cup {runQ}
                                 \/ \E u \in Thread : Hands(u, x)'
    <3>1. Live \subseteq Thread
      BY DEF Live
    <3> QED BY <1>6, <1>10, <3>1 DEF MqInv, MqPlaces
  <2>2. \A u, x \in Thread : Hands(u, x)' =>
          x \in (Live \cup {c}) \ (Ready \cup {c} \cup parked \cup {runQ})
    BY <1>6, <1>10 DEF MqInv, MqPlaces
  <2>3. \A u \in Thread : pc'[u] \in {"snd_ready", "ctl_push"} =>
          loc'[u].what \in Thread /\ pc'[loc'[u].what] = "rcv_wait"
    <3> SUFFICES ASSUME NEW u \in Thread, pc'[u] \in {"snd_ready", "ctl_push"}
                 PROVE  loc'[u].what \in Thread /\ pc'[loc'[u].what] = "rcv_wait"
      OBVIOUS
    <3>1. pc[u] \in {"snd_ready", "ctl_push"} /\ loc' = loc
      BY <1>2, <1>3
    <3>2. loc[u].what \in Thread /\ pc[loc[u].what] = "rcv_wait"
      BY <3>1 DEF MqInv, MqPlaces
    <3>3. loc[u].what # c
      BY <1>1, <3>2
    <3> QED BY <1>3, <3>1, <3>2, <3>3
  <2>4. /\ \A u \in Thread : pc'[u] \in {"rcv_type", "rcv_enter"} => u \in parked
        /\ \A u \in parked : pc'[u] \in {"rcv_type", "rcv_enter", "rcv_wait"}
    BY <1>3, <1>7 DEF MqInv, MqPlaces, MqTypeOK
  <2>5. Root \in Live /\ pc'[Root] \notin RcvPc \cup {"rcv_wait"}
    BY <1>3, NoThreads DEF MqInv, MqPlaces, RcvPc
  <2> QED BY <1>2, <1>6, <1>8, <1>9, <2>1, <2>2, <2>3, <2>4, <2>5 DEF MqInv, MqPlaces
<1>12. MqLoop'
  BY <1>2, <1>6, <1>7, <1>8 DEF MqInv, MqLoop
<1>13. MqTurns'
  <2>1. \A u \in Thread \ MqHolder : sig[u] \/ inHandler[u] \/ pc'[u] \in IdlePc
    BY <1>3 DEF MqInv, MqTurns, IdlePc, WrapPc
  <2>2. \A u \in Thread : tcb'[u].bRunnable => u \in MqHolder /\ pc'[u] # "rcv_enter"
    BY <1>3, <1>5 DEF MqInv, MqTurns
  <2>3. \A u \in Receiving : runQ = Null /\ sched.pc = "tick" /\ \A v \in Receiving : v = u
    BY DEF MqInv, MqTurns
  <2> QED BY <1>2, <1>6, <1>9, <2>1, <2>2, <2>3 DEF MqTurns, IdlePc
<1>14. MqQuiet'
  BY <1>1, <1>2, <1>3, <1>4, <1>6
     DEF MqInv, MqQuiet, JoinPc, ExitPc, SuspendPc
<1>15. MqCreating'
  <2>1. \A u \in Thread : pc'[u] \in CreatePc <=> pc[u] \in CreatePc
    BY <1>1, <1>3 DEF CreatePc
  <2>2. ~ isPushed
    BY <1>1 DEF MqInv, MqCreating
  <2>3. \A u \in Thread : pc[u] \in CreatePc => arg[u] \in Thread \ {u} /\ pc'[arg[u]] \in WrapPc \cup {"start"}
    BY <1>3 DEF MqInv, MqCreating, WrapPc
  <2>4. \A u \in Thread : pc'[u] \in {"wrap_tcb", "wrap_jcb", "wrap_flag"} =>
          pc[u] \in {"wrap_tcb", "wrap_jcb", "wrap_flag"}
    BY <1>1, <1>3
  <2> QED BY <1>2, <2>1, <2>2, <2>3, <2>4 DEF MqInv, MqCreating
<1>16. MqTypeOK'
  BY <1>2, <1>3, <1>4, <1>5, <1>8 DEF MqInv, MqTypeOK
<1>17. Table' /\ CallsKnow'
  <2>1. UNCHANGED mqVars
    OBVIOUS
  <2>2. \A u \in Thread : \/ pc'[u] = pc[u]
                          \/ pc'[u] \notin {"get_store", "rcv_wait"} \cup SendPc \cup CtlPc \cup RcvPc
    BY <1>3 DEF SendPc, CtlPc, RcvPc
  <2> QED BY <1>8, <2>1, <2>2, CallsKept
<1> QED BY <1>8, <1>11, <1>12, <1>13, <1>14, <1>15, <1>16, <1>17 DEF MqInv

\* c goes on to another line of its start.
LEMMA StartMoves ==
  ASSUME MqDisciplined, MqInv, NEW c \in Thread, Executes(c), pc[c] \in WrapPc \ {"wrap_tcb"},
         NEW l \in (WrapPc \ {"wrap_tcb"}) \cup {"start"}, pc' = [pc EXCEPT ![c] = l],
         UNCHANGED << readyQ, waitQ, link, runQ, tcb, mem, sched, arg, sig, inHandler, parked, crashed >>,
         isPushed' \in BOOLEAN, UNCHANGED mqVars, MqCreating'
  PROVE  MqInv'
<1>1. /\ pc'[c] = l /\ \A u \in Thread \ {c} : pc'[u] = pc[u]
      /\ pc' \in [Thread -> PcType \cup MqPc]
  BY DEF MqInv, MqTypeOK, PcType, RestPc, WaitPc
<1>2. sched.pc = "tick" /\ ~ sig[c] /\ ~ inHandler[c]
  BY MqModes
<1>3. LibraryMove(c)
  BY <1>1, <1>2, NoThreads DEF LibraryMove, LibraryPc, OwnMove, ReceivingPc, WrapPc, IdlePc, WaitPc, RcvPc
<1>4. tcb' \in [Thread -> TcbType] /\ arg' \in [Thread -> Pointer]
      /\ \A u \in Thread : tcb'[u].bRunnable = tcb[u].bRunnable
  BY DEF MqInv, MqTypeOK
<1>5. \A u \in Thread : pc'[u] = pc[u] \/ (LibraryMove(u) /\ sched.pc = "tick")
  BY <1>1, <1>2, <1>3
<1> QED BY <1>1, <1>4, <1>5, LibraryMoves

\* The creator of c is still where it was.
LEMMA StartKeepsCreating ==
  ASSUME MqInv, NEW c \in Thread, pc[c] \in WrapPc, pc'[c] \in WrapPc \cup {"start"},
         \A u \in Thread \ {c} : pc'[u] = pc[u], UNCHANGED << arg, isPushed >>,
         pc'[c] \in {"wrap_tcb", "wrap_jcb", "wrap_flag"} <=> pc[c] \in {"wrap_tcb", "wrap_jcb", "wrap_flag"}
  PROVE  MqCreating'
<1>1. \A u \in Thread : pc'[u] \in CreatePc <=> pc[u] \in CreatePc
  BY DEF WrapPc, CreatePc
<1>2. \A u \in Thread : pc[u] \in CreatePc =>
        /\ arg[u] \in Thread \ {u} /\ pc'[arg[u]] \in WrapPc \cup {"start"}
        /\ pc'[arg[u]] \in {"wrap_tcb", "wrap_jcb", "wrap_flag"} <=>
             pc[arg[u]] \in {"wrap_tcb", "wrap_jcb", "wrap_flag"}
  BY DEF MqInv, MqCreating
<1>3. \A u \in Thread : pc'[u] \in {"wrap_tcb", "wrap_jcb", "wrap_flag"} =>
        pc[u] \in {"wrap_tcb", "wrap_jcb", "wrap_flag"}
  OBVIOUS
<1> QED BY <1>1, <1>2, <1>3 DEF MqInv, MqCreating

\* The join structure of c, which no message call looks at.
LEMMA MqWrapJcbKeeps ==
  ASSUME MqDisciplined, MqInv, NEW c \in Thread, WrapJcb(c), UNCHANGED mqVars
  PROVE  MqInv'
<1>1. /\ Executes(c) /\ pc[c] = "wrap_jcb" /\ pc' = [pc EXCEPT ![c] = "wrap_flag"]
      /\ UNCHANGED << readyQ, waitQ, link, runQ, tcb, mem, isPushed, sched, arg, sig, inHandler, parked, crashed >>
  BY DEF WrapJcb, At, Goto, queueVars, tcbVars, sigVars, rest
<1>2. pc'[c] = "wrap_flag" /\ \A u \in Thread \ {c} : pc'[u] = pc[u]
  BY <1>1 DEF MqInv, MqTypeOK
<1>3. MqCreating'
  BY <1>1, <1>2, StartKeepsCreating DEF WrapPc
<1>4. "wrap_jcb" \in WrapPc /\ "wrap_flag" \in WrapPc /\ isPushed' \in BOOLEAN
  BY <1>1 DEF WrapPc, MqInv, MqTypeOK
<1> QED BY <1>1, <1>3, <1>4, StartMoves

\* The flag is set for the one who creates c.
LEMMA MqWrapFlagKeeps ==
  ASSUME MqDisciplined, MqInv, NEW c \in Thread, WrapFlag(c), UNCHANGED mqVars
  PROVE  MqInv'
<1>1. /\ Executes(c) /\ pc[c] = "wrap_flag" /\ pc' = [pc EXCEPT ![c] = "wrap_signal"]
      /\ isPushed' = TRUE
      /\ UNCHANGED << readyQ, waitQ, link, runQ, tcb, mem, sched, arg, sig, inHandler, parked, crashed >>
  BY DEF WrapFlag, At, Goto, queueVars, tcbVars, sigVars, rest
<1>2. pc'[c] = "wrap_signal" /\ \A u \in Thread \ {c} : pc'[u] = pc[u]
  BY <1>1 DEF MqInv, MqTypeOK
<1>3. MqCreating'
  <2>1. PICK t \in Thread : pc[t] \in CreatePc /\ arg[t] = c
    BY <1>1 DEF MqInv, MqCreating
  <2>2. \A u \in Thread : pc[u] \in CreatePc => u = t
    <3>1. \A u \in Thread : pc[u] \in CreatePc => runQ = u
      BY <1>1, OneCreates
    <3> QED BY <2>1, <3>1
  <2>3. t # c /\ \A u \in Thread : pc'[u] \in CreatePc <=> u = t
    BY <1>1, <1>2, <2>1, <2>2 DEF CreatePc
  <2>4. \A u \in Thread : pc'[u] \notin {"wrap_tcb", "wrap_jcb", "wrap_flag"}
    <3> SUFFICES ASSUME NEW u \in Thread, pc'[u] \in {"wrap_tcb", "wrap_jcb", "wrap_flag"} PROVE FALSE
      OBVIOUS
    <3>1. u # c /\ pc[u] \in {"wrap_tcb", "wrap_jcb", "wrap_flag"}
      BY <1>2
    <3>2. \E v \in Thread : pc[v] \in CreatePc /\ arg[v] = u
      BY <3>1 DEF MqInv, MqCreating
    <3> QED BY <2>1, <2>2, <3>1, <3>2
  <2>5. arg'[t] = c /\ pc'[c] \in WrapPc
    BY <1>1, <1>2, <2>1 DEF WrapPc
  <2> QED BY <1>1, <1>2, <2>1, <2>3, <2>4, <2>5 DEF MqCreating
<1>4. "wrap_flag" \in WrapPc /\ "wrap_signal" \in WrapPc /\ isPushed' \in BOOLEAN
  BY <1>1 DEF WrapPc
<1> QED BY <1>1, <1>3, <1>4, StartMoves

\* A sleeping creator checks again.
LEMMA MqWrapSignalKeeps ==
  ASSUME MqDisciplined, MqInv, NEW c \in Thread, WrapSignal(c), UNCHANGED mqVars
  PROVE  MqInv'
<1>1. /\ Executes(c) /\ pc[c] = "wrap_signal"
      /\ UNCHANGED << readyQ, waitQ, link, runQ, tcb, mem, isPushed, sched, arg, sig, inHandler, parked, crashed >>
  BY DEF WrapSignal, At, queueVars, tcbVars, sigVars, rest
<1>2. tcb' \in [Thread -> TcbType] /\ arg' \in [Thread -> Pointer] /\ isPushed' \in BOOLEAN
      /\ \A u \in Thread : tcb'[u].bRunnable = tcb[u].bRunnable
  BY <1>1 DEF MqInv, MqTypeOK
<1>3. CASE pc' = [pc EXCEPT ![c] = "wrap_enter"]
  <2>1. pc'[c] = "wrap_enter" /\ \A u \in Thread \ {c} : pc'[u] = pc[u]
    BY <1>3 DEF MqInv, MqTypeOK
  <2>2. MqCreating'
    BY <1>1, <2>1, StartKeepsCreating DEF WrapPc
  <2>3. "wrap_signal" \in WrapPc /\ "wrap_enter" \in WrapPc
    BY DEF WrapPc
  <2> QED BY <1>1, <1>2, <1>3, <2>2, <2>3, StartMoves
<1>4. ASSUME NEW t \in Thread, pc[t] = "create_sleep",
             pc' = [pc EXCEPT ![t] = "create_check", ![c] = "wrap_enter"]
      PROVE  MqInv'
  <2>1. /\ t # c /\ pc'[c] = "wrap_enter" /\ pc'[t] = "create_check"
        /\ \A u \in Thread \ {t, c} : pc'[u] = pc[u]
        /\ pc' \in [Thread -> PcType \cup MqPc]
    BY <1>1, <1>4 DEF MqInv, MqTypeOK, PcType, CreatePc, WrapPc
  <2>2. sched.pc = "tick" /\ ~ sig[c] /\ ~ inHandler[c]
        /\ t \in MqHolder /\ ~ sig[t] /\ ~ inHandler[t]
    BY <1>1, <1>4, MqModes, OneCreates DEF CreatePc
  <2>3. LibraryMove(c)
    BY <1>1, <2>1, <2>2 DEF LibraryMove, LibraryPc, OwnMove, ReceivingPc, WrapPc, IdlePc, RcvPc
  <2>4. LibraryMove(t)
    BY <1>4, <2>1, <2>2 DEF LibraryMove, LibraryPc, OwnMove, ReceivingPc, CreatePc, RcvPc
  <2>5. \A u \in Thread : pc'[u] = pc[u] \/ (LibraryMove(u) /\ sched.pc = "tick")
    BY <2>1, <2>2, <2>3, <2>4
  <2>6. MqCreating'
    <3>1. \A u \in Thread : pc'[u] \in CreatePc <=> pc[u] \in CreatePc
      BY <1>1, <1>4, <2>1 DEF CreatePc
    <3>2. \A u \in Thread : pc'[u] \in {"wrap_tcb", "wrap_jcb", "wrap_flag"} <=>
            pc[u] \in {"wrap_tcb", "wrap_jcb", "wrap_flag"}
      BY <1>1, <1>4, <2>1
    <3>3. \A u \in Thread : pc[u] \in WrapPc \cup {"start"} => pc'[u] \in WrapPc \cup {"start"}
      BY <1>4, <2>1 DEF WrapPc
    <3>4. \A u \in Thread : pc[u] \in CreatePc =>
            arg[u] \in Thread \ {u} /\ pc'[arg[u]] \in WrapPc \cup {"start"}
      BY <3>3 DEF MqInv, MqCreating
    <3> QED BY <1>1, <3>1, <3>2, <3>4 DEF MqInv, MqCreating
  <2> QED BY <1>1, <1>2, <2>1, <2>5, <2>6, LibraryMoves
<1> QED BY <1>3, <1>4 DEF WrapSignal, Goto

\* The new thread finds its TCB and waits for its first turn.
LEMMA MqWrapEnterKeeps ==
  ASSUME MqDisciplined, MqInv, NEW c \in Thread, WrapEnter(c), UNCHANGED mqVars
  PROVE  MqInv'
<1>1. Executes(c) /\ pc[c] = "wrap_enter"
  BY DEF WrapEnter, WaitEnter, At
<1>2. getThread(c) # Null
  BY <1>1, MadeIsFound DEF WrapPc
<1>3. /\ pc' = [pc EXCEPT ![c] = "start"]
      /\ UNCHANGED << readyQ, waitQ, link, runQ, tcb, mem, isPushed, sched, arg, sig, inHandler, parked, crashed >>
  BY <1>2 DEF WrapEnter, WaitEnter, Goto, queueVars, tcbVars, sigVars, rest
<1>4. pc'[c] = "start" /\ \A u \in Thread \ {c} : pc'[u] = pc[u]
  BY <1>3 DEF MqInv, MqTypeOK
<1>5. MqCreating'
  BY <1>1, <1>3, <1>4, StartKeepsCreating DEF WrapPc
<1>6. "wrap_enter" \in WrapPc /\ isPushed' \in BOOLEAN
  BY <1>3 DEF WrapPc, MqInv, MqTypeOK
<1> QED BY <1>1, <1>3, <1>5, <1>6, StartMoves

\* Its first turn: the thread's program begins.
LEMMA MqWrapRunKeeps ==
  ASSUME MqDisciplined, MqInv, NEW c \in Thread, WrapRun(c), UNCHANGED mqVars
  PROVE  MqInv'
<1>1. /\ Executes(c) /\ pc[c] = "start" /\ tcb[c].bRunnable /\ pc' = [pc EXCEPT ![c] = "user"]
      /\ UNCHANGED << readyQ, waitQ, link, runQ, tcb, mem, isPushed, sched, arg, sig, inHandler, parked, crashed >>
  BY DEF WrapRun, WaitReturn, At, Goto, queueVars, tcbVars, sigVars, rest
<1>2. /\ pc'[c] = "user" /\ \A u \in Thread \ {c} : pc'[u] = pc[u]
      /\ pc' \in [Thread -> PcType \cup MqPc]
  BY <1>1 DEF MqInv, MqTypeOK, PcType, RestPc
<1>3. /\ c \in MqHolder /\ runQ = c /\ sched.pc = "tick" /\ ~ sig[c] /\ ~ inHandler[c]
  BY <1>1, LetGo, MqModes DEF WaitPc
<1>4. \A u \in Thread : pc[u] \notin CreatePc
  <2>1. \A u \in Thread : pc[u] \in CreatePc => u = c
    BY <1>1, <1>3, OneCreates
  <2> QED BY <1>1, <2>1 DEF CreatePc
<1>5. MqCreating'
  <2>1. ~ isPushed /\ \A u \in Thread : pc[u] \notin {"wrap_tcb", "wrap_jcb", "wrap_flag"}
    BY <1>4 DEF MqInv, MqCreating
  <2>2. \A u \in Thread : pc'[u] \notin CreatePc \cup {"wrap_tcb", "wrap_jcb", "wrap_flag"}
    BY <1>2, <1>4, <2>1 DEF CreatePc
  <2> QED BY <1>1, <2>1, <2>2 DEF MqCreating
<1>6. LibraryMove(c)
  BY <1>1, <1>2, <1>3 DEF LibraryMove, LibraryPc, OwnMove, ReceivingPc, RcvPc
<1>7. \A u \in Thread : pc'[u] = pc[u] \/ (LibraryMove(u) /\ sched.pc = "tick")
  BY <1>2, <1>3, <1>6
<1>8. tcb' \in [Thread -> TcbType] /\ arg' \in [Thread -> Pointer] /\ isPushed' \in BOOLEAN
      /\ \A u \in Thread : tcb'[u].bRunnable = tcb[u].bRunnable
  BY <1>1 DEF MqInv, MqTypeOK
<1> QED BY <1>1, <1>2, <1>5, <1>7, <1>8, LibraryMoves

\* The thread's function returns.
LEMMA MqReturnKeeps ==
  ASSUME MqDisciplined, MqInv, NEW t \in Thread, Return(t), UNCHANGED mqVars
  PROVE  MqInv'
<1>1. /\ Executes(t) /\ pc[t] = "user" /\ pc' = [pc EXCEPT ![t] = "done"]
      /\ UNCHANGED << readyQ, waitQ, link, runQ, tcb, mem, isPushed, sched, arg, sig, inHandler, parked, crashed >>
  BY DEF Return, AtCall, Goto, queueVars, tcbVars, sigVars, rest
<1>2. /\ pc'[t] = "done" /\ \A u \in Thread \ {t} : pc'[u] = pc[u]
      /\ pc' \in [Thread -> PcType \cup MqPc]
  BY <1>1 DEF MqInv, MqTypeOK, PcType, RestPc
<1>3. sched.pc = "tick" /\ ~ sig[t] /\ ~ inHandler[t]
  BY <1>1, MqModes
<1>4. MqCreating'
  <2>1. pc[t] \notin IdlePc \cup CreatePc
    BY <1>1 DEF IdlePc, WrapPc, WaitPc, CreatePc
  <2>2. pc'[t] \notin CreatePc \cup {"wrap_tcb", "wrap_jcb", "wrap_flag"}
    BY <1>2 DEF CreatePc
  <2> QED BY <1>1, <1>2, <2>1, <2>2, CreatingNobody
<1>5. LibraryMove(t)
  BY <1>1, <1>2, <1>3 DEF LibraryMove, LibraryPc, OwnMove, ReceivingPc, IdlePc, RcvPc
<1>6. \A u \in Thread : pc'[u] = pc[u] \/ (LibraryMove(u) /\ sched.pc = "tick")
  BY <1>2, <1>3, <1>5
<1>7. tcb' \in [Thread -> TcbType] /\ arg' \in [Thread -> Pointer] /\ isPushed' \in BOOLEAN
      /\ \A u \in Thread : tcb'[u].bRunnable = tcb[u].bRunnable
  BY <1>1 DEF MqInv, MqTypeOK
<1> QED BY <1>1, <1>2, <1>4, <1>6, <1>7, LibraryMoves

\* Nothing happens.
LEMMA MqStutterKeeps ==
  ASSUME MqDisciplined, MqInv, UNCHANGED allVars
  PROVE  MqInv'
<1>1. /\ UNCHANGED << readyQ, waitQ, link, runQ, tcb, mem, isPushed, sched, pc, arg, sig, inHandler, parked, crashed >>
      /\ UNCHANGED mqVars
  BY DEF allVars, vars, queueVars, tcbVars, ctlVars, sigVars, rest
<1>2. MqCreating'
  BY <1>1 DEF MqInv, MqCreating
<1>3. tcb' \in [Thread -> TcbType] /\ arg' \in [Thread -> Pointer] /\ isPushed' \in BOOLEAN
      /\ pc' \in [Thread -> PcType \cup MqPc]
      /\ \A u \in Thread : tcb'[u].bRunnable = tcb[u].bRunnable /\ pc'[u] = pc[u]
  BY <1>1 DEF MqInv, MqTypeOK
<1> QED BY <1>1, <1>2, <1>3, LibraryMoves

-----------------------------------------------------------------------------
(* The scheduler's steps and the signal handler *)

\* They move no program.
LEMMA TickRest ==
  ASSUME MqInv, UNCHANGED mqVars,
         UNCHANGED << mem, isPushed, pc, arg, parked, crashed >>,
         \A q \in Qcb : Listed(q)' = Listed(q),
         readyQ' \in QueueType, link' \in LinkType, runQ' \in Pointer, tcb' \in [Thread -> TcbType],
         sched' \in [pc : {"tick", "preempt", "dispatch", "set"},
                     cur : Pointer, new : Pointer, armed : BOOLEAN],
         sig' \in [Thread -> BOOLEAN], inHandler' \in [Thread -> BOOLEAN]
  PROVE  /\ MqTypeOK' /\ MqCreating' /\ Table' /\ CallsKnow'
         /\ Live' = Live /\ Receiving' = Receiving
         /\ \A u, x \in Thread : Hands(u, x)' <=> Hands(u, x)
<1>1. UNCHANGED << tbl, qcb, type, loc >>
  BY DEF mqVars
<1>2. MqTypeOK'
  BY <1>1 DEF MqInv, MqTypeOK
<1>3. MqCreating'
  BY DEF MqInv, MqCreating
<1>4. Table' /\ CallsKnow'
  BY CallsKept
<1>5. Live' = Live /\ Receiving' = Receiving /\ \A u, x \in Thread : Hands(u, x)' <=> Hands(u, x)
  BY <1>1 DEF Live, Receiving, Hands
<1> QED BY <1>2, <1>3, <1>4, <1>5

\* During a tick nobody has anybody in his hands, and a thread is ready or
\* running: the first one waits for no message.
LEMMA SomebodyToRun ==
  ASSUME MqDisciplined, MqInv, \A u \in Thread : pc[u] \in RestPc
  PROVE  /\ Receiving = {} /\ \A u, x \in Thread : ~ Hands(u, x)
         /\ Ready \cup Popped \cup ({runQ} \ {Null}) # {}
<1>1. Receiving = {} /\ \A u, x \in Thread : ~ Hands(u, x)
  BY DEF Receiving, ReceivingPc, Hands, RestPc, WaitPc
<1>2. Root \in Live /\ Root \notin parked /\ Root # Null
  BY NoThreads DEF MqInv, MqPlaces, RcvPc
<1>3. Root \in Ready \cup parked \cup Popped \cup {runQ}
  BY <1>1, <1>2, NoThreads DEF MqInv, MqPlaces
<1> QED BY <1>1, <1>2, <1>3

\* The tick reads RunQHead.
LEMMA MqSchedReadKeeps ==
  ASSUME MqDisciplined, MqInv, SchedRead, UNCHANGED mqVars
  PROVE  MqInv'
<1> DEFINE armed == sched.armed \/ (runQ = Null /\ readyQ.head # Null)
           next == IF runQ # Null THEN "preempt" ELSE IF armed THEN "dispatch" ELSE "tick"
<1>1. /\ sched.pc = "tick" /\ \A u \in Thread : pc[u] \in RestPc
      /\ \A u \in Thread : ~ sig[u]
      /\ sched' = [pc |-> next, cur |-> runQ, new |-> Null, armed |-> armed]
  BY DEF SchedRead, TickMayCome, MqDisciplined, SignalsArrived
<1>2. UNCHANGED << readyQ, waitQ, link, runQ, tcb, mem, isPushed, pc, arg, sig, inHandler, parked, crashed >>
  BY DEF SchedRead, queueVars, tcbVars, ctlVars, sigVars, rest
<1>3. MqQueues' /\ Ready' = Ready /\ \A q \in Qcb : Listed(q)' = Listed(q)
  <2>1. \A q \in Qcb : qcb'[q].waiters = qcb[q].waiters
    BY DEF mqVars
  <2> QED BY <1>2, <2>1, QueuesRest DEF MqInv
<1>4. /\ sched'.pc = next /\ sched'.cur = runQ /\ sched'.armed = armed
      /\ sched' \in [pc : {"tick", "preempt", "dispatch", "set"},
                     cur : Pointer, new : Pointer, armed : BOOLEAN]
  <2>1. sched' = [pc |-> next, cur |-> runQ, new |-> Null, armed |-> armed]
    BY <1>1
  <2>2. next \in {"tick", "preempt", "dispatch", "set"} /\ armed \in BOOLEAN
        /\ runQ \in Pointer /\ Null \in Pointer
    BY DEF MqInv, MqTypeOK, Pointer
  <2> HIDE DEF next, armed
  <2> QED BY <2>1, <2>2
<1>5. /\ MqTypeOK' /\ MqCreating' /\ Table' /\ CallsKnow' /\ Live' = Live /\ Receiving' = Receiving
      /\ \A u, x \in Thread : Hands(u, x)' <=> Hands(u, x)
  <2>1. /\ readyQ' \in QueueType /\ link' \in LinkType /\ runQ' \in Pointer
        /\ tcb' \in [Thread -> TcbType] /\ sig' \in [Thread -> BOOLEAN]
        /\ inHandler' \in [Thread -> BOOLEAN]
    BY <1>2 DEF MqInv, MqTypeOK
  <2> QED BY <1>2, <1>3, <1>4, <2>1, TickRest
<1>6. Receiving = {} /\ (\A u, x \in Thread : ~ Hands(u, x)) /\ (runQ = Null => Ready # {})
  BY <1>1, SomebodyToRun DEF Popped
<1>7. Running' = Running /\ Popped' = {} /\ Popped = {} /\ MqHolder' = MqHolder
  <2>1. Popped' = {} /\ Popped = {}
    BY <1>1, <1>4 DEF Popped
  <2>2. Running' = Running
    BY <1>1, <1>2, <1>3, <1>4 DEF Running
  <2> QED BY <1>5, <2>1, <2>2 DEF MqHolder
<1>8. MqPlaces'
  <2>1. UNCHANGED << runQ, parked, pc, loc >>
    BY <1>2 DEF mqVars
  <2>2. \A x \in Live : x \in Ready \cup parked \cup {runQ}
    <3>1. Live \subseteq Thread
      BY DEF Live
    <3> QED BY <1>6, <1>7, <3>1 DEF MqInv, MqPlaces
  <2> QED BY <1>3, <1>5, <1>6, <1>7, <2>1, <2>2 DEF MqInv, MqPlaces
<1>9. MqLoop'
  <2>1. runQ \notin Ready \cup parked /\ (runQ # Null => armed)
    BY <1>1 DEF MqInv, MqLoop
  <2> QED BY <1>2, <1>3, <1>4, <1>6, <2>1 DEF MqLoop
<1>10. MqTurns'
  BY <1>1, <1>2, <1>5, <1>6, <1>7 DEF MqInv, MqTurns
<1>11. MqQuiet'
  BY <1>1, <1>2 DEF MqInv, MqQuiet
<1> QED BY <1>3, <1>5, <1>8, <1>9, <1>10, <1>11 DEF MqInv

\* The running thread is stopped and queued again.
LEMMA MqSchedPreemptKeeps ==
  ASSUME MqDisciplined, MqInv, SchedPreempt, UNCHANGED mqVars
  PROVE  MqInv'
<1>0. PICK t : t = sched.cur
  OBVIOUS
<1>1. /\ sched.pc = "preempt" /\ rq_push(t)
      /\ tcb' = [tcb EXCEPT ![t].bRunnable = FALSE]
      /\ sig' = [sig EXCEPT ![t] = pc[t] # "done"]
      /\ sched' = [sched EXCEPT !.pc = IF sched.armed THEN "dispatch" ELSE "tick"]
      /\ UNCHANGED << waitQ, runQ, mem, isPushed, pc, arg, inHandler, parked, crashed >>
  BY <1>0 DEF SchedPreempt, ctlVars, rest
<1>2. t = runQ /\ t # Null /\ sched.armed /\ t \notin Ready \cup parked /\ t \in Live /\ t \in Thread
  <2>1. t = runQ /\ runQ # Null /\ runQ \notin Ready \cup parked /\ sched.armed
    BY <1>0, <1>1 DEF MqInv, MqLoop
  <2>2. runQ \in Live
    BY <2>1 DEF MqInv, MqPlaces
  <2> QED BY <2>1, <2>2 DEF Live
<1>3. /\ tcb' \in [Thread -> TcbType] /\ ~ tcb'[t].bRunnable
      /\ \A u \in Thread \ {t} : tcb'[u].bRunnable = tcb[u].bRunnable
  BY <1>1, <1>2, RunnableFlag DEF MqInv
<1>4. /\ sched'.pc = "dispatch" /\ sched'.armed
      /\ sched' \in [pc : {"tick", "preempt", "dispatch", "set"},
                     cur : Pointer, new : Pointer, armed : BOOLEAN]
  BY <1>1, <1>2 DEF MqInv, MqTypeOK
<1>5. /\ MqQueues' /\ readyQ' \in QueueType /\ link' \in LinkType
      /\ Ready' = Ready \cup {t} /\ \A q \in Qcb : Listed(q)' = Listed(q)
  <2>1. \A q \in Qcb : qcb'[q].waiters = qcb[q].waiters
    BY DEF mqVars
  <2> QED BY <1>1, <1>2, <2>1, ReadyPushed DEF MqInv
<1>6. \A u \in Thread : pc[u] \in RestPc
  BY <1>1 DEF MqInv, MqQuiet
<1>7. /\ sig' \in [Thread -> BOOLEAN] /\ (sig'[t] <=> pc[t] # "done")
      /\ \A u \in Thread \ {t} : sig'[u] = sig[u]
  BY <1>1, <1>2 DEF MqInv, MqTypeOK
<1>8. /\ MqTypeOK' /\ MqCreating' /\ Table' /\ CallsKnow' /\ Live' = Live /\ Receiving' = Receiving
      /\ \A u, x \in Thread : Hands(u, x)' <=> Hands(u, x)
  <2>1. runQ' \in Pointer /\ inHandler' \in [Thread -> BOOLEAN]
    BY <1>1 DEF MqInv, MqTypeOK
  <2> QED BY <1>1, <1>3, <1>4, <1>5, <1>7, <2>1, TickRest
<1>9. Receiving = {} /\ (\A u, x \in Thread : ~ Hands(u, x)) /\ Popped = {} /\ Running = {t}
  BY <1>1, <1>2, <1>6, SomebodyToRun DEF Popped, Running
<1>10. Running' = {} /\ Popped' = {} /\ MqHolder' = {} /\ MqHolder = {t}
  BY <1>4, <1>8, <1>9 DEF Running, Popped, MqHolder
<1>11. MqPlaces'
  <2>1. UNCHANGED << runQ, parked, pc, loc >>
    BY <1>1 DEF mqVars
  <2>2. \A x \in Live : x \in Ready \cup parked \cup {runQ}
    <3>1. Live \subseteq Thread
      BY DEF Live
    <3> QED BY <1>9, <3>1 DEF MqInv, MqPlaces
  <2> QED BY <1>2, <1>5, <1>8, <1>9, <1>10, <2>1, <2>2 DEF MqInv, MqPlaces
<1>12. MqLoop'
  BY <1>1, <1>2, <1>4, <1>5 DEF MqLoop
<1>13. MqTurns'
  <2>1. \A u \in Thread \ {t} :
          /\ sig'[u] \/ inHandler'[u] \/ pc'[u] \in IdlePc
          /\ ~ tcb'[u].bRunnable /\ ~ sig'[u]
    BY <1>1, <1>3, <1>7, <1>10 DEF MqInv, MqTurns, IdlePc
  <2>2. sig'[t] \/ inHandler'[t] \/ pc'[t] \in IdlePc
    BY <1>1, <1>7 DEF IdlePc
  <2> QED BY <1>1, <1>2, <1>3, <1>4, <1>8, <1>9, <1>10, <2>1, <2>2 DEF MqTurns, IdlePc
<1>14. MqQuiet'
  <2>1. pc[t] # "none"
    BY <1>2 DEF MqInv, MqQuiet, Live
  <2> QED BY <1>1, <1>2, <1>6, <1>7, <2>1 DEF MqInv, MqQuiet
<1> QED BY <1>5, <1>8, <1>11, <1>12, <1>13, <1>14 DEF MqInv

\* The first of the ready queue is let go on.
LEMMA MqSchedDispatchKeeps ==
  ASSUME MqDisciplined, MqInv, SchedDispatch, UNCHANGED mqVars
  PROVE  MqInv'
<1>0. PICK t : t = readyQ.head
  OBVIOUS
<1>1. sched.pc = "dispatch" /\ runQ \in Ready \cup {Null} /\ Ready # {} /\ sched.armed
  BY DEF SchedDispatch, MqInv, MqLoop
<1>2. t \in Ready /\ t # Null /\ t \in Live /\ t \in Thread /\ t \notin parked
  <2>1. t \in Ready /\ t # Null
    BY <1>0, <1>1, ReadyHead DEF MqInv
  <2>2. t \in Live /\ t \notin parked
    BY <2>1 DEF MqInv, MqPlaces, MqQueues
  <2> QED BY <2>1, <2>2 DEF Live
<1>3. /\ rq_pop /\ tcb' = [tcb EXCEPT ![t].bRunnable = TRUE]
      /\ sched' = [sched EXCEPT !.pc = "set", !.new = t]
      /\ UNCHANGED << waitQ, runQ, mem, isPushed, pc, arg, sig, inHandler, parked, crashed >>
  BY <1>0, <1>2 DEF SchedDispatch, ctlVars, sigVars, rest
<1>4. /\ tcb' \in [Thread -> TcbType]
      /\ \A u \in Thread \ {t} : tcb'[u].bRunnable = tcb[u].bRunnable
  BY <1>2, <1>3, RunnableFlag DEF MqInv
<1>5. /\ sched'.pc = "set" /\ sched'.armed /\ sched'.new = t
      /\ sched' \in [pc : {"tick", "preempt", "dispatch", "set"},
                     cur : Pointer, new : Pointer, armed : BOOLEAN]
  BY <1>1, <1>2, <1>3 DEF MqInv, MqTypeOK, Pointer
<1>6. /\ MqQueues' /\ readyQ' \in QueueType /\ link' \in LinkType
      /\ Ready' = Ready \ {t} /\ \A q \in Qcb : Listed(q)' = Listed(q)
  <2>1. \A q \in Qcb : qcb'[q].waiters = qcb[q].waiters
    BY DEF mqVars
  <2> QED BY <1>0, <1>2, <1>3, <2>1, ReadyPopped DEF MqInv
<1>7. \A u \in Thread : pc[u] \in RestPc
  BY <1>1 DEF MqInv, MqQuiet
<1>8. /\ MqTypeOK' /\ MqCreating' /\ Table' /\ CallsKnow' /\ Live' = Live /\ Receiving' = Receiving
      /\ \A u, x \in Thread : Hands(u, x)' <=> Hands(u, x)
  <2>1. runQ' \in Pointer /\ sig' \in [Thread -> BOOLEAN] /\ inHandler' \in [Thread -> BOOLEAN]
    BY <1>3 DEF MqInv, MqTypeOK
  <2> QED BY <1>3, <1>4, <1>5, <1>6, <2>1, TickRest
<1>9. Receiving = {} /\ (\A u, x \in Thread : ~ Hands(u, x)) /\ Popped = {} /\ Running = {}
  BY <1>1, <1>7, SomebodyToRun DEF Popped, Running
<1>10. Running' = {} /\ Popped' = {t} /\ MqHolder' = {t} /\ MqHolder = {}
  BY <1>5, <1>8, <1>9 DEF Running, Popped, MqHolder
<1>11. MqPlaces'
  <2>1. UNCHANGED << runQ, parked, pc, loc >>
    BY <1>3 DEF mqVars
  <2>2. \A x \in Live : x \in Ready \cup parked \cup {runQ}
    <3>1. Live \subseteq Thread
      BY DEF Live
    <3> QED BY <1>9, <3>1 DEF MqInv, MqPlaces
  <2> QED BY <1>2, <1>6, <1>8, <1>9, <1>10, <2>1, <2>2 DEF MqInv, MqPlaces
<1>12. MqLoop'
  BY <1>1, <1>2, <1>3, <1>5, <1>6, <1>10 DEF MqLoop
<1>13. MqTurns'
  <2>1. \A u \in Thread : sig[u] => u = runQ
    BY <1>1 DEF MqInv, MqTurns
  <2>2. \A u \in Thread : sig[u] \/ inHandler[u] \/ pc[u] \in IdlePc
    BY <1>10 DEF MqInv, MqTurns, IdlePc
  <2>3. \A u \in Thread : tcb'[u].bRunnable => u = t
    BY <1>4, <1>10 DEF MqInv, MqTurns
  <2>4. pc[t] # "rcv_enter"
    BY <1>2, <1>7 DEF RestPc, WaitPc
  <2> QED BY <1>3, <1>5, <1>8, <1>9, <1>10, <2>1, <2>2, <2>3, <2>4 DEF MqTurns, IdlePc
<1>14. MqQuiet'
  BY <1>3, <1>7 DEF MqInv, MqQuiet
<1> QED BY <1>6, <1>8, <1>11, <1>12, <1>13, <1>14 DEF MqInv

\* RunQHead names the thread that was let go on.
LEMMA MqSchedSetKeeps ==
  ASSUME MqDisciplined, MqInv, SchedSet, UNCHANGED mqVars
  PROVE  MqInv'
<1>0. PICK t : t = sched.new
  OBVIOUS
<1>1. /\ sched.pc = "set" /\ runQ' = t
      /\ sched' = [sched EXCEPT !.pc = "tick", !.cur = Null, !.new = Null]
      /\ UNCHANGED << readyQ, waitQ, link, tcb, mem, isPushed, pc, arg, sig, inHandler, parked, crashed >>
  BY <1>0 DEF SchedSet, tcbVars, ctlVars, sigVars, rest
<1>2. /\ t \in Thread /\ t # Null /\ sched.armed /\ runQ \in Ready \cup {t, Null}
      /\ Popped = {t} /\ Running = {} /\ t \notin Ready \cup parked /\ t \in Live
  BY <1>0, <1>1, NoThreads DEF Popped, Running, MqInv, MqLoop, MqPlaces
<1>3. /\ sched'.pc = "tick" /\ sched'.armed
      /\ sched' \in [pc : {"tick", "preempt", "dispatch", "set"},
                     cur : Pointer, new : Pointer, armed : BOOLEAN]
  BY <1>1, <1>2 DEF MqInv, MqTypeOK, Pointer
<1>4. MqQueues' /\ Ready' = Ready /\ \A q \in Qcb : Listed(q)' = Listed(q)
  <2>1. \A q \in Qcb : qcb'[q].waiters = qcb[q].waiters
    BY DEF mqVars
  <2> QED BY <1>1, <2>1, QueuesRest DEF MqInv
<1>5. \A u \in Thread : pc[u] \in RestPc
  BY <1>1 DEF MqInv, MqQuiet
<1>6. /\ MqTypeOK' /\ MqCreating' /\ Table' /\ CallsKnow' /\ Live' = Live /\ Receiving' = Receiving
      /\ \A u, x \in Thread : Hands(u, x)' <=> Hands(u, x)
  <2>1. /\ readyQ' \in QueueType /\ link' \in LinkType /\ runQ' \in Pointer
        /\ tcb' \in [Thread -> TcbType] /\ sig' \in [Thread -> BOOLEAN]
        /\ inHandler' \in [Thread -> BOOLEAN]
    BY <1>1, <1>2 DEF MqInv, MqTypeOK, Pointer
  <2> QED BY <1>1, <1>3, <1>4, <2>1, TickRest
<1>7. Receiving = {} /\ \A u, x \in Thread : ~ Hands(u, x)
  BY <1>5, SomebodyToRun
<1>8. Running' = {t} /\ Popped' = {} /\ MqHolder' = {t} /\ MqHolder = {t}
  BY <1>1, <1>2, <1>3, <1>4, <1>6, <1>7 DEF Running, Popped, MqHolder
<1>9. MqPlaces'
  <2>1. UNCHANGED << parked, pc, loc >>
    BY <1>1 DEF mqVars
  <2>2. \A x \in Live : x \in Ready \cup parked \cup {t}
    <3>1. Live \subseteq Thread
      BY DEF Live
    <3> QED BY <1>2, <1>7, <3>1, NoThreads DEF MqInv, MqPlaces
  <2> QED BY <1>1, <1>2, <1>4, <1>6, <1>7, <1>8, <2>1, <2>2 DEF MqInv, MqPlaces
<1>10. MqLoop'
  BY <1>1, <1>2, <1>3, <1>4 DEF MqLoop
<1>11. MqTurns'
  <2>1. \A u \in Thread : sig[u] => u \in Ready \cup {t}
    BY <1>1, <1>2, NoThreads DEF MqInv, MqTurns
  <2>2. \A u \in Thread \ {t} : sig[u] \/ inHandler[u] \/ pc[u] \in IdlePc
    BY <1>8 DEF MqInv, MqTurns, IdlePc
  <2>3. \A u \in Thread : tcb[u].bRunnable => u = t /\ pc[u] # "rcv_enter"
    BY <1>8 DEF MqInv, MqTurns
  <2> QED BY <1>1, <1>3, <1>4, <1>6, <1>7, <1>8, <2>1, <2>2, <2>3 DEF MqTurns, IdlePc
<1>12. MqQuiet'
  BY <1>1, <1>3, <1>5 DEF MqInv, MqQuiet
<1> QED BY <1>4, <1>6, <1>9, <1>10, <1>11, <1>12 DEF MqInv

\* A step of the handler on top of t's program.
LEMMA HandlerRest ==
  ASSUME MqDisciplined, MqInv, NEW t \in Thread, UNCHANGED mqVars,
         UNCHANGED << readyQ, waitQ, link, runQ, tcb, mem, isPushed, sched, pc, arg, parked, crashed >>,
         sig' \in [Thread -> BOOLEAN], inHandler' \in [Thread -> BOOLEAN],
         \A u \in Thread : sig'[u] => sig[u],
         \A u \in Thread : inHandler'[u] => sig[u] \/ inHandler[u],
         \A u \in Thread : sig[u] \/ inHandler[u] => sig'[u] \/ inHandler'[u] \/ u \in MqHolder
  PROVE  MqInv'
<1>1. MqQueues' /\ Ready' = Ready /\ \A q \in Qcb : Listed(q)' = Listed(q)
  <2>1. \A q \in Qcb : qcb'[q].waiters = qcb[q].waiters
    BY DEF mqVars
  <2> QED BY <2>1, QueuesRest DEF MqInv
<1>2. /\ MqTypeOK' /\ MqCreating' /\ Table' /\ CallsKnow' /\ Live' = Live /\ Receiving' = Receiving
      /\ \A u, x \in Thread : Hands(u, x)' <=> Hands(u, x)
  <2>1. /\ readyQ' \in QueueType /\ link' \in LinkType /\ runQ' \in Pointer
        /\ tcb' \in [Thread -> TcbType]
        /\ sched' \in [pc : {"tick", "preempt", "dispatch", "set"},
                       cur : Pointer, new : Pointer, armed : BOOLEAN]
    BY DEF MqInv, MqTypeOK
  <2> QED BY <1>1, <2>1, TickRest
<1>3. Running' = Running /\ Popped' = Popped /\ MqHolder' = MqHolder
  BY <1>1, <1>2 DEF Running, Popped, MqHolder
<1>4. MqPlaces'
  <2>1. loc' = loc
    BY DEF mqVars
  <2>2. \A x \in Live : \/ x \in Ready \cup parked \cup Popped \cup {runQ}
                        \/ \E u \in Thread : Hands(u, x)'
    <3>1. Live \subseteq Thread
      BY DEF Live
    <3> QED BY <1>2, <3>1 DEF MqInv, MqPlaces
  <2> QED BY <1>1, <1>2, <1>3, <2>1, <2>2 DEF MqInv, MqPlaces
<1>5. MqLoop'
  BY <1>1, <1>3 DEF MqInv, MqLoop
<1>6. MqTurns'
  BY <1>1, <1>2, <1>3 DEF MqInv, MqTurns
<1>7. MqQuiet'
  BY DEF MqInv, MqQuiet
<1> QED BY <1>1, <1>2, <1>4, <1>5, <1>6, <1>7 DEF MqInv

\* A signal finds its thread ready again or still in RunQHead.
LEMMA MqTakeSignalKeeps ==
  ASSUME MqDisciplined, MqInv, NEW t \in Thread, TakeSignal(t), UNCHANGED mqVars
  PROVE  MqInv'
<1>1. sig[t] /\ t \in Ready \cup {runQ}
  BY DEF TakeSignal, MqInv, MqTurns
<1>2. getThread(t) # Null
  BY <1>1, NoThreads DEF getThread
<1>3. /\ sig' = [sig EXCEPT ![t] = FALSE] /\ inHandler' = [inHandler EXCEPT ![t] = TRUE]
      /\ UNCHANGED << readyQ, waitQ, link, runQ, tcb, mem, isPushed, sched, pc, arg, parked, crashed >>
  BY <1>2 DEF TakeSignal, queueVars, tcbVars, ctlVars, rest
<1>4. /\ sig' \in [Thread -> BOOLEAN] /\ inHandler' \in [Thread -> BOOLEAN]
      /\ ~ sig'[t] /\ inHandler'[t]
      /\ \A u \in Thread \ {t} : sig'[u] = sig[u] /\ inHandler'[u] = inHandler[u]
  BY <1>3 DEF MqInv, MqTypeOK
<1> QED BY <1>1, <1>3, <1>4, HandlerRest

\* Whoever leaves the handler holds the processor.
LEMMA MqHandlerReturnKeeps ==
  ASSUME MqDisciplined, MqInv, NEW t \in Thread, HandlerReturn(t), UNCHANGED mqVars
  PROVE  MqInv'
<1>1. /\ inHandler[t] /\ tcb[t].bRunnable /\ inHandler' = [inHandler EXCEPT ![t] = FALSE]
      /\ UNCHANGED << readyQ, waitQ, link, runQ, tcb, mem, isPushed, sched, pc, arg, sig, parked, crashed >>
  BY DEF HandlerReturn, queueVars, tcbVars, ctlVars, rest
<1>2. t \in MqHolder
  BY <1>1 DEF MqInv, MqTurns
<1>3. /\ sig' \in [Thread -> BOOLEAN] /\ inHandler' \in [Thread -> BOOLEAN]
      /\ ~ inHandler'[t]
      /\ \A u \in Thread \ {t} : inHandler'[u] = inHandler[u]
  BY <1>1 DEF MqInv, MqTypeOK
<1> QED BY <1>1, <1>2, <1>3, HandlerRest

-----------------------------------------------------------------------------
(* The invariant holds *)

\* Root alone is queued and no queue exists, to start.
LEMMA MqInitInv == MqDisciplined /\ MqInit => MqInv
<1> SUFFICES ASSUME MqDisciplined, MqInit PROVE MqInv
  OBVIOUS
<1>0. Null \notin Thread /\ Root \in Thread /\ Main \notin Thread /\ Main # Null
  BY NoThreads
<1> DEFINE first == [head |-> Root, tail |-> Root]
<1>1. /\ Walk(first, NoLinks) \in Seq(Thread) /\ Walk(EmptyQueue, NoLinks) \in Seq(Thread)
      /\ Members(first, NoLinks) = {Root} /\ Members(EmptyQueue, NoLinks) = {}
      /\ Represents(first, NoLinks, Walk(first, NoLinks))
      /\ Represents(EmptyQueue, NoLinks, Walk(EmptyQueue, NoLinks))
      /\ \A t \in Thread : t # Root => NoLinks.next[t] = Null /\ NoLinks.prev[t] = Null
  BY FirstQueues
<1>2. /\ readyQ = first /\ waitQ = EmptyQueue /\ link = NoLinks
      /\ runQ = Null /\ parked = {} /\ crashed = FALSE /\ isPushed = FALSE
      /\ sched = [pc |-> "tick", cur |-> Null, new |-> Null, armed |-> FALSE]
      /\ pc = [t \in Thread |-> IF t = Root THEN "start" ELSE "none"]
      /\ mem = [t \in Thread |-> IF t = Root THEN "live" ELSE "none"]
      /\ arg = [t \in Thread |-> Null]
      /\ sig = [t \in Thread |-> FALSE] /\ inHandler = [t \in Thread |-> FALSE]
      /\ \A t \in Thread : ~ tcb[t].bRunnable
  BY <1>0 DEF MqInit, Init, NewTcb
<1>3. /\ tbl = [s \in Slot |-> [key |-> NoKey, pQcb |-> Null]]
      /\ qcb = [q \in Qcb |-> FreeQcb] /\ type = [t \in Thread |-> Garbage]
      /\ loc = [t \in Thread |-> NoLocals]
      /\ \A q \in Qcb : qcb[q].waiters = EmptyQueue /\ ~ qcb[q].used /\ qcb[q] = FreeQcb
  BY DEF MqInit, FreeQcb
<1>4. tcb \in [Thread -> TcbType] /\ readyQ \in QueueType /\ link \in LinkType
  BY InitInv DEF MqInit, Inv, TypeOK
<1>5. Ready = {Root} /\ Live = {Root} /\ \A q \in Qcb : Listed(q) = {} /\ Waiters(q) = Walk(EmptyQueue, NoLinks)
  BY <1>0, <1>1, <1>2, <1>3 DEF Ready, Live, Listed, Waiters
<1> HIDE DEF first
<1>6. MqTypeOK
  <2>1. FreeQcb \in QcbType
    <3>1. << >> \in Seq(Message) /\ << >> \in Seq(Sending)
      OBVIOUS
    <3>2. EmptyQueue \in QueueType
      BY DEF EmptyQueue, QueueType, Pointer
    <3> QED BY <3>1, <3>2 DEF FreeQcb, QcbType
  <2>2. qcb \in [Qcb -> QcbType] /\ loc \in [Thread -> LocType] /\ tbl \in [Slot -> TblType]
    BY <1>3, <2>1, NoLocalsTyped DEF TblType
  <2>3. /\ sched \in [pc : {"tick", "preempt", "dispatch", "set"},
                      cur : Pointer, new : Pointer, armed : BOOLEAN]
        /\ pc \in [Thread -> PcType \cup MqPc] /\ arg \in [Thread -> Pointer] /\ runQ \in Pointer
        /\ mem \in [Thread -> {"none", "live", "freed"}] /\ isPushed \in BOOLEAN
        /\ {sig, inHandler} \subseteq [Thread -> BOOLEAN]
    BY <1>2 DEF Pointer, PcType, RestPc, WaitPc
  <2>4. type \in [Thread -> Type \cup {Garbage}] /\ parked \subseteq Thread /\ crashed = FALSE
    BY <1>2, <1>3
  <2> QED BY <1>4, <2>2, <2>3, <2>4 DEF MqTypeOK, QcbType, LocType, TblType
<1>7. MqQueues
  BY <1>1, <1>2, <1>3, <1>5 DEF MqQueues
<1>8. /\ Running = {} /\ Popped = {} /\ Receiving = {} /\ MqHolder = {}
      /\ \A u, x \in Thread : ~ Hands(u, x)
      /\ \A u \in Thread : pc[u] \in {"start", "none"} /\ ~ sig[u] /\ ~ inHandler[u]
  BY <1>2 DEF Running, Popped, Receiving, ReceivingPc, MqHolder, Hands
<1>9. MqPlaces
  BY <1>0, <1>2, <1>5, <1>8 DEF MqPlaces, RcvPc
<1>10. MqLoop /\ MqTurns
  BY <1>0, <1>2, <1>5, <1>8 DEF MqLoop, MqTurns, WaitPc
<1>11. MqQuiet
  BY <1>2, <1>8 DEF MqQuiet, JoinPc, ExitPc, SuspendPc
<1>12. MqCreating
  BY <1>2, <1>8 DEF MqCreating, CreatePc
<1>13. Table
  BY <1>3, MsgQueueAssumption DEF Table
<1>14. CallsKnow
  BY <1>5, <1>8 DEF CallsKnow, Knows, SendPc, CtlPc, RcvPc
<1> QED BY <1>6, <1>7, <1>9, <1>10, <1>11, <1>12, <1>13, <1>14 DEF MqInv

\* These programs make no other call of the thread library.
LEMMA MqNoOtherCalls ==
  ASSUME MqDisciplined, MqInv, NEW t \in Thread
  PROVE  /\ ~ Exit(t) /\ \A c \in Thread : ~ Join(t, c) /\ ~ Suspend(t, c) /\ ~ Resume(t, c)
         /\ ~ JoinPush(t) /\ ~ JoinCheck(t) /\ ~ JoinEnter(t) /\ ~ JoinReturn(t) /\ ~ JoinCollect(t)
         /\ ~ JoinFree(t) /\ ~ ExitWake(t) /\ ~ ExitPush(t) /\ ~ ExitMark(t) /\ ~ ExitCode(t)
         /\ ~ SuspendPush(t) /\ ~ ResumePush(t)
<1>1. ~ Exit(t) /\ \A c \in Thread : ~ Join(t, c) /\ ~ Suspend(t, c) /\ ~ Resume(t, c)
  BY DEF Exit, Join, Suspend, Resume, AtCall, MqDisciplined
<1>2. pc[t] \notin JoinPc \cup ExitPc \cup SuspendPc \cup {"join_wait"}
  BY DEF MqInv, MqQuiet
<1>3. /\ ~ JoinPush(t) /\ ~ JoinCheck(t) /\ ~ JoinEnter(t) /\ ~ JoinReturn(t) /\ ~ JoinCollect(t)
      /\ ~ JoinFree(t)
  BY <1>2 DEF JoinPush, JoinCheck, JoinEnter, JoinReturn, JoinCollect, JoinFree, WaitEnter, WaitReturn,
              At, JoinPc
<1>4. ~ ExitWake(t) /\ ~ ExitPush(t) /\ ~ ExitMark(t) /\ ~ ExitCode(t)
  BY <1>2 DEF ExitWake, ExitPush, ExitMark, ExitCode, At, ExitPc
<1>5. ~ SuspendPush(t) /\ ~ ResumePush(t)
  BY <1>2 DEF SuspendPush, ResumePush, At, SuspendPc
<1> QED BY <1>1, <1>3, <1>4, <1>5

\* Every step whose removals are exact keeps the invariant.
LEMMA MqNextKeeps ==
  ASSUME MqDisciplined, MqInv, [MqNext]_allVars, [WaitersRemovedExactly]_allVars
  PROVE  MqInv'
<1>1. CASE UNCHANGED allVars
  BY <1>1, MqStutterKeeps
<1>2. ASSUME Next, UNCHANGED mqVars PROVE MqInv'
  <2>1. CASE RunScheduler
    BY <1>2, <2>1, MqSchedReadKeeps, MqSchedPreemptKeeps, MqSchedDispatchKeeps, MqSchedSetKeeps
       DEF RunScheduler
  <2>2. ASSUME NEW t \in Thread, Call(t) PROVE MqInv'
    BY <1>2, <2>2, MqNoOtherCalls, MqCreateKeeps, MqReturnKeeps DEF Call
  <2>3. ASSUME NEW t \in Thread, Continue(t) PROVE MqInv'
    BY <1>2, <2>3, MqNoOtherCalls, MqCreateCheckKeeps, MqWrapTcbKeeps, MqWrapJcbKeeps, MqWrapFlagKeeps,
       MqWrapSignalKeeps, MqWrapEnterKeeps, MqWrapRunKeeps DEF Continue
  <2>4. ASSUME NEW t \in Thread, Handler(t) PROVE MqInv'
    BY <1>2, <2>4, MqTakeSignalKeeps, MqHandlerReturnKeeps DEF Handler
  <2> QED BY <1>2, <2>1, <2>2, <2>3, <2>4 DEF Next
<1>3. ASSUME NEW t \in Thread, MqCall(t) PROVE MqInv'
  BY <1>3, GetKeeps, ControlKeeps, SendKeeps, ReceiveKeeps DEF MqCall
<1>4. ASSUME NEW t \in Thread, MqContinue(t), WaitersRemovedExactly PROVE MqInv'
  <2>1. CASE GetStore(t) \/ SendPush(t) \/ SendWake(t) \/ SendReady(t)
    BY <1>4, <2>1, GetStoreKeeps, SendPushKeeps, SendWakeKeeps, SendReadyKeeps
  <2>2. CASE ReceiveRemove(t) \/ ReceiveLeave(t) \/ ReceivePark(t) \/ ReceiveType(t)
    BY <2>2, ReceiveRemoveKeeps, ReceiveLeaveKeeps, ReceiveParkKeeps, ReceiveTypeKeeps
  <2>3. CASE ReceiveEnter(t) \/ ReceiveReturn(t) \/ ReceiveRetry(t)
    BY <2>3, ReceiveEnterKeeps, ReceiveReturnKeeps, ReceiveRetryKeeps
  <2>4. CASE ControlPop(t) \/ ControlPush(t) \/ ControlFree(t)
    BY <2>4, ControlPopKeeps, ControlPushKeeps, ControlFreeKeeps
  <2> QED BY <1>4, <2>1, <2>2, <2>3, <2>4 DEF MqContinue
<1> QED BY <1>1, <1>2, <1>3, <1>4 DEF MqNext

\* The runs of a program of which no send takes a thread out of a waiting list
\* at a place where its code gets the removal wrong.
MqExactSpec ==
  MqSpec /\ [][WaitersRemovedExactly]_allVars /\ [][MessagesRemovedExactly]_allVars

\* In all of them the inductive invariant holds.
THEOREM MqInvariantHolds ==
  ASSUME MqDisciplined
  PROVE  MqExactSpec => []MqInv
<1>1. MqInit => MqInv
  BY MqInitInv
<1>2. MqInv /\ [MqNext]_allVars /\ [WaitersRemovedExactly]_allVars => MqInv'
  BY MqNextKeeps
<1> QED BY <1>1, <1>2, PTL DEF MqSpec, MqExactSpec

-----------------------------------------------------------------------------
(* What the invariant means *)

\* The wait queue, which no message call uses, is empty and well linked.
LEMMA NobodyWaits ==
  ASSUME MqInv
  PROVE  Waiting = {} /\ Represents(waitQ, link, Walk(waitQ, link))
BY NobodyInEmpty DEF MqInv, MqTypeOK, MqQueues, Waiting

\* Nobody is on the way of a suspend, a join or an exit; between two lists are
\* the threads that somebody has in hand.
LEMMA OnTheWay ==
  ASSUME MqInv
  PROVE  /\ \A x \in Thread : x \in InTransit \cup MqInTransit <=> \E t \in Thread : Hands(t, x)
         /\ InTransit \cup MqInTransit \subseteq Live \ (Ready \cup parked \cup Popped \cup {runQ})
<1>1. InTransit = {}
  BY DEF MqInv, MqQuiet, InTransit, SuspendPc, ExitPc, JoinPc
<1>2. \A t \in Thread : pc[t] \in {"snd_ready", "ctl_push"} => loc[t].what \in Thread
  BY DEF MqInv, MqPlaces
<1>3. MqInTransit \subseteq Thread
  BY <1>2 DEF MqInTransit
<1>4. \A x \in Thread : x \in MqInTransit <=> \E t \in Thread : Hands(t, x)
  BY DEF MqInTransit, Hands
<1>5. \A t, x \in Thread : Hands(t, x) => x \in Live \ (Ready \cup parked \cup Popped \cup {runQ})
  BY DEF MqInv, MqPlaces
<1> QED BY <1>1, <1>3, <1>4, <1>5

\* The places, as sets: they are disjoint and hold the live threads.
LEMMA MqPlacesDisjoint ==
  ASSUME MqInv, NEW M, M = InTransit \cup MqInTransit
  PROVE  /\ Waiting = {} /\ Ready \cap parked = {}
         /\ Running \cap (Ready \cup parked \cup Popped) = {}
         /\ Popped \cap (Ready \cup parked) = {}
         /\ M \cap (Ready \cup parked \cup Popped \cup Running) = {}
         /\ Live = Ready \cup parked \cup Popped \cup Running \cup M
<1>1. Waiting = {} /\ Ready \cap parked = {} /\ Popped \cap (Ready \cup parked) = {}
  BY NobodyWaits DEF MqInv, MqQueues, MqPlaces
<1>2. Running \subseteq {runQ} /\ Null \notin Running /\ Live \subseteq Thread
  BY DEF Running, Live
<1>3. Running \cap (Ready \cup parked \cup Popped) = {}
  BY DEF MqInv, MqLoop, MqTypeOK, Running, Popped
<1>4. M \cap (Ready \cup parked \cup Popped \cup Running) = {}
  BY <1>2, OnTheWay
<1>5. Ready \cup parked \cup Popped \cup Running \cup M \subseteq Live
  BY <1>2, OnTheWay DEF MqInv, MqPlaces
<1>6. ASSUME NEW x \in Live
      PROVE  x \in Ready \cup parked \cup Popped \cup Running \cup M
  <2>1. x \in Ready \cup parked \cup Popped \cup {runQ} \cup M
    BY <1>2, OnTheWay DEF MqInv, MqPlaces
  <2>2. CASE x = runQ
    <3>1. x # Null
      BY <1>2, NoThreads
    <3>2. sched.pc \in {"dispatch", "set"} => x \in Ready \cup Popped
      BY <2>2, <3>1 DEF MqInv, MqLoop
    <3>3. x \in Ready \/ sched.pc \in {"dispatch", "set"} \/ x \in Running
      BY <2>2, <3>1 DEF Running
    <3> QED BY <3>2, <3>3
  <2> QED BY <2>1, <2>2
<1> QED BY <1>1, <1>3, <1>4, <1>5, <1>6

\* The invariant has every live thread in one place.
LEMMA MqOnePlace == ASSUME MqInv PROVE OnePlaceWith(InTransit \cup MqInTransit)
<1> DEFINE M == InTransit \cup MqInTransit
<1> SUFFICES ASSUME NEW t \in Thread
             PROVE  LET is == {p \in {"ready", "wait", "parked", "run", "popped", "transit"} :
                                 \/ p = "ready" /\ t \in Ready
                                 \/ p = "wait" /\ t \in Waiting
                                 \/ p = "parked" /\ t \in parked
                                 \/ p = "run" /\ t \in Running
                                 \/ p = "popped" /\ t \in Popped
                                 \/ p = "transit" /\ t \in M}
                    IN Cardinality(is) = IF t \in Live THEN 1 ELSE 0
  BY DEF OnePlaceWith
<1> DEFINE is == {p \in {"ready", "wait", "parked", "run", "popped", "transit"} :
                    \/ p = "ready" /\ t \in Ready
                    \/ p = "wait" /\ t \in Waiting
                    \/ p = "parked" /\ t \in parked
                    \/ p = "run" /\ t \in Running
                    \/ p = "popped" /\ t \in Popped
                    \/ p = "transit" /\ t \in M}
<1>1. PICK m : m = M
  OBVIOUS
<1> HIDE DEF M
<1>2. /\ Waiting = {} /\ Ready \cap parked = {}
      /\ Running \cap (Ready \cup parked \cup Popped) = {}
      /\ Popped \cap (Ready \cup parked) = {}
      /\ M \cap (Ready \cup parked \cup Popped \cup Running) = {}
      /\ t \in Live <=> t \in Ready \cup parked \cup Popped \cup Running \cup M
  BY MqPlacesDisjoint DEF M
<1>3. CASE t \notin Live
  <2>1. is = {}
    BY <1>2, <1>3
  <2> QED BY <1>3, <2>1, FS_EmptySet
<1>4. CASE t \in Live
  <2>1. \E p : is = {p}
    <3>1. CASE t \in Ready
      <4>1. is = {"ready"}
        BY <3>1, <1>2
      <4> QED BY <4>1
    <3>2. CASE t \in parked
      <4>1. is = {"parked"}
        BY <3>2, <1>2
      <4> QED BY <4>1
    <3>3. CASE t \in Popped
      <4>1. is = {"popped"}
        BY <3>3, <1>2
      <4> QED BY <4>1
    <3>4. CASE t \in Running
      <4>1. is = {"run"}
        BY <3>4, <1>2
      <4> QED BY <4>1
    <3>5. CASE t \in M
      <4>1. is = {"transit"}
        BY <3>5, <1>2
      <4> QED BY <4>1
    <3> HIDE DEF is
    <3> QED BY <1>2, <1>4, <3>1, <3>2, <3>3, <3>4, <3>5
  <2> QED BY <1>4, <2>1, FS_Singleton
<1> QED BY <1>3, <1>4

\* Who executes holds the processor, and one thread at most does.
LEMMA MqOneRunner == ASSUME MqInv PROVE OneAtATime /\ RunQHeadTracksRunner
<1>1. Executing \subseteq MqHolder
  BY DEF MqInv, MqTurns, Executing, RestPc, WaitPc
<1>2. \A t, u \in MqHolder : t = u
  BY DEF MqInv, MqTurns, MqHolder, Running, Popped
<1>3. RunQHeadTracksRunner
  BY <1>1 DEF RunQHeadTracksRunner, MqHolder, Receiving, ReceivingPc
<1> QED BY <1>1, <1>2, <1>3 DEF OneAtATime

\* Every list of threads is linked both ways and ends in its tail.
LEMMA MqLists ==
  ASSUME MqInv
  PROVE  /\ QueuesWellLinked
         /\ \A s \in Existing :
              Represents(qcb[tbl[s].pQcb].waiters, link, Waiters(tbl[s].pQcb))
<1>1. QueuesWellLinked
  BY NobodyWaits DEF MqInv, MqQueues, QueuesWellLinked
<1>2. \A s \in Existing : tbl[s].pQcb \in Qcb
  BY SlotUsed DEF Existing
<1> QED BY <1>1, <1>2 DEF MqInv, MqQueues

\* Shared links, and all of SharedLinksOK.
LEMMA MqLinks == ASSUME MqInv PROVE SharedLinksOK
<1>1. NoCrash
  BY DEF MqInv, MqTypeOK, NoCrash
<1> QED BY <1>1, MqOnePlace, MqOneRunner, MqLists DEF SharedLinksOK

\* The table, as calls see it.
LEMMA MqTable == ASSUME MqInv PROVE TableOK
<1>1. \A r, s \in Existing :
        (tbl[r].key = tbl[s].key \/ tbl[r].pQcb = tbl[s].pQcb) => r = s
  BY DEF MqInv, Table, Existing
<1>2. \A s \in Slot : tbl[s].key = NoKey <=> s \notin Existing
  BY DEF MqInv, Table, Existing
<1>3. \A s \in Existing : qcb[tbl[s].pQcb].used
  BY SlotUsed DEF Existing
<1>4. ASSUME NEW t \in Thread, pc[t] \in SendPc \cup CtlPc \cup (RcvPc \ {"rcv_enter", "rcv_retry"})
      PROVE  qcb[loc[t].q].used
  <2>1. LookedUp(t)
    BY <1>4 DEF MqInv, CallsKnow, Knows
  <2> QED BY <2>1, QcbInUse
<1> QED BY <1>1, <1>2, <1>3, <1>4 DEF TableOK

\* Threads are linked into one list at a time: message queues and the
\* scheduler share pNext and pPrev, and no TCB is lost or doubled between the
\* waiting lists, the ready queue and the processor (tq_push, tq_remove and
\* rq_push of mymsgsnd and mymsgrcv).
THEOREM MessageQueuesShareLinks ==
  ASSUME MqDisciplined
  PROVE  MqExactSpec => []SharedLinksOK
<1>1. MqInv => SharedLinksOK
  BY MqLinks
<1> QED BY <1>1, MqInvariantHolds, PTL

\* A key has one slot and a Qcb has one slot, and no call in progress goes on
\* with a Qcb that mymsgctl has freed.
THEOREM CallsUseLiveQueues ==
  ASSUME MqDisciplined
  PROVE  MqExactSpec => []TableOK
<1>1. MqInv => TableOK
  BY MqTable
<1> QED BY <1>1, MqInvariantHolds, PTL

-----------------------------------------------------------------------------
(* Programs whose removals are right by themselves *)

\* With at most three threads that receive, every place in a waiting list is
\* one where the removal is right.
LEMMA FewReceivers ==
  ASSUME MqInv, Cardinality(Receivers) <= 3
  PROVE  WaitersRemovedExactly
<1>1. ASSUME NEW t \in Thread, SendWake(t),
             NEW q, q = loc[t].q, NEW i, i = tq_search(q, loc[t].what.type), i # 0
      PROVE  RemovablePosition(Waiters(q), i)
  <2>1. q \in Qcb
    <3>1. pc[t] \in SendPc
      BY <1>1 DEF SendWake, At, SendPc
    <3> QED BY <1>1, <3>1 DEF MqInv, CallsKnow, Knows, LookedUp
  <2>2. i \in 1..Len(Waiters(q))
    BY <1>1, <2>1, WaiterFound
  <2>3. Listed(q) \subseteq Receivers
    <3>1. \A x \in parked : pc[x] \in RcvPc \cup {"rcv_wait"}
      BY DEF MqInv, MqPlaces, RcvPc
    <3>2. Listed(q) \subseteq parked /\ parked \subseteq Thread
      BY <2>1 DEF MqInv, MqQueues, MqTypeOK
    <3> QED BY <3>1, <3>2 DEF MqInv, CallsKnow, Knows
  <2>4. Listed(q) = NodesOf(Waiters(q))
    BY <2>1, QueuesAreMany, QueueNames DEF MqInv
  <2>5. /\ Waiters(q) = Walk(qcb[q].waiters, link)
        /\ Waiters(q) \in Seq(Thread) /\ Distinct(Waiters(q))
    BY <2>1 DEF MqInv, MqQueues, Represents, Waiters
  <2>6. Receivers \in SUBSET Thread
    BY MsgQueueAssumption
  <2> DEFINE w == qcb[q].waiters
  <2>7. /\ Walk(w, link) \in Seq(Thread) /\ Distinct(Walk(w, link))
        /\ NodesOf(Walk(w, link)) \subseteq Receivers
    BY <2>3, <2>4, <2>5
  <2> HIDE DEF w
  <2>8. \A x : Exact(w, link, x)
    BY <2>6, <2>7, ShortQueuesExact
  <2>9. i \in DOMAIN Waiters(q)
    BY <2>2, <2>5
  <2> QED BY <2>5, <2>8, <2>9 DEF Exact, w
<1> QED BY <1>1 DEF WaitersRemovedExactly

\* Where at most three threads receive, links and table are right whatever
\* waiting threads are taken from.
THEOREM FewReceiversAreSafe ==
  ASSUME MqDisciplined, Cardinality(Receivers) <= 3
  PROVE  MqSpec /\ [][MessagesRemovedExactly]_allVars => [](SharedLinksOK /\ TableOK)
<1>1. MqInit => MqInv
  BY MqInitInv
<1>2. MqInv /\ [MqNext]_allVars => MqInv'
  <2> SUFFICES ASSUME MqInv, [MqNext]_allVars PROVE MqInv'
    OBVIOUS
  <2>1. WaitersRemovedExactly
    BY FewReceivers
  <2> QED BY <2>1, MqNextKeeps
<1>3. MqInv => SharedLinksOK /\ TableOK
  BY MqLinks, MqTable
<1> QED BY <1>1, <1>2, <1>3, PTL DEF MqSpec
=============================================================================
