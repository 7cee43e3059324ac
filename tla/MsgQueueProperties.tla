------------------------- MODULE MsgQueueProperties -------------------------
EXTENDS MsgQueue, SchedulerProperties

Existing == {s \in Slot : tbl[s].pQcb # Null}

\* On their way between a message queue's waiting list and the ready queue.
MqInTransit ==
  {loc[t].what : t \in {u \in Thread : pc[u] \in {"snd_ready", "ctl_push"}}}
  \cup {t \in Thread : pc[t] = "rcv_park"}

Number(s, Test(_)) == Cardinality({i \in DOMAIN s : Test(s[i])})

\* How often a Qcb holds the message it numbered id.
Copies(q, id) == Number(qcb[q].msgs, LAMBDA m : m.id = id)

-----------------------------------------------------------------------------
\* Threads are linked into one list at a time, whether a scheduler queue or a
\* message queue, and have one place each: the scheduler's invariant with the
\* waiting lists of the message queues that the table leads to.
SharedLinksOK ==
  /\ QueuesWellLinked
  /\ \A s \in Existing :
       Represents(qcb[tbl[s].pQcb].waiters, link, Waiters(tbl[s].pQcb))
  /\ OnePlaceWith(InTransit \cup MqInTransit)
  /\ RunQHeadTracksRunner /\ OneAtATime /\ NoCrash

\* A message is received once or is still queued, once, never both: the copy
\* and the removal of a receive meet the same message.
MessagesConserved ==
  \A q \in Qcb, id \in 1..MaxSends :
    id \in DOMAIN qcb[q].sent =>
      LET m == qcb[q].sent[id]
          copies == Copies(q, id)
          sending == \E t \in Thread : pc[t] = "snd_push" /\ loc[t].q = q /\ loc[t].what.id = id
          removing == \E t \in m.by : pc[t] = "rcv_remove" /\ loc[t].q = q /\ loc[t].what = m.type
      IN /\ m.by = {} => copies = IF sending THEN 0 ELSE 1
         /\ m.by # {} => Cardinality(m.by) = 1 /\ copies \in (IF removing THEN {0, 1} ELSE {0})

\* Messages of one type of one queue are received in the order of sending.
InOrder ==
  \A q \in Qcb, i, j \in 1..MaxSends :
    LET sent == qcb[q].sent
    IN (i < j /\ j <= Len(sent) /\ sent[i].type = sent[j].type /\ sent[j].by # {})
         => sent[i].by # {}

\* "if exist wating thread until message having type is push" (mymsgsnd): no
\* thread sleeps on a queue that holds more messages of its type than threads
\* that have been woken for one, or are about to take one or to wake someone.
NoOversleep ==
  \A s \in Existing, k \in Type :
    LET q == tbl[s].pQcb
        about == {t \in Thread : loc[t].q = q /\
                    \/ /\ pc[t] \in {"rcv_wait", "rcv_retry", "rcv_remove"}
                       /\ loc[t].what = k /\ t \notin parked
                    \/ pc[t] = "snd_wake" /\ loc[t].what.type = k}
    IN (\E t \in Members(qcb[q].waiters, link) : type[t] = k /\ pc[t] = "rcv_wait")
         => Number(qcb[q].msgs, LAMBDA m : m.type = k) <= Cardinality(about)

\* The table: a key has one slot, a Qcb has one slot, and neither the table
\* nor a call in progress leads to a Qcb that was freed.
TableOK ==
  /\ \A r, s \in Existing :
       (tbl[r].key = tbl[s].key \/ tbl[r].pQcb = tbl[s].pQcb) => r = s
  /\ \A s \in Slot : tbl[s].key = NoKey <=> s \notin Existing
  /\ \A s \in Existing : qcb[tbl[s].pQcb].used
  /\ \A t \in Thread : pc[t] \in SendPc \cup CtlPc \cup (RcvPc \ {"rcv_enter", "rcv_retry"})
                         => qcb[loc[t].q].used

\* "if searching message is pushed, and caller is runned by scheduler, find
\* searching message" (mymsgrcv): a receiver that was woken gets a message.
WokenReceiversReceive ==
  \A t \in Thread :
    pc[t] = "rcv_retry" => mq_search(tbl[loc[t].slot].pQcb, loc[t].what) # 0
=============================================================================
