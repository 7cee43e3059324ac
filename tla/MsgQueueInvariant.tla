------------------------- MODULE MsgQueueInvariant -------------------------
(***************************************************************************)
(* Why message queues are right, where they are: the inductive invariant   *)
(* behind MsgQueueProperties, for programs that create threads and use     *)
(* message queues, with ticks between calls.                               *)
(***************************************************************************)
EXTENDS MsgQueueProperties

\* Ticks keep out of calls, nobody joins, exits with a code, suspends or
\* resumes, and the first thread never waits for a message.
MqDisciplined ==
  /\ Ticks = "between_calls"
  /\ Ops \cap {"join", "exit", "suspend", "resume"} = {}
  /\ Root \notin Receivers

\* A send that takes a thread out of a waiting list does so where the code's
\* removal is right.
WaitersRemovedExactly ==
  \A t \in Thread : SendWake(t) =>
    LET q == loc[t].q
        i == tq_search(q, loc[t].what.type)
    IN i # 0 => RemovablePosition(Waiters(q), i)

\* So does a receive that takes a message out of a Qcb: MsgQueue's mq_remove
\* takes it out of a sequence, as the code does at these positions only.  With
\* three messages or fewer there are no others.
MessagesRemovedExactly ==
  \A t \in Thread : ReceiveRemove(t) =>
    LET msgs == qcb[loc[t].q].msgs
        i == mq_search(loc[t].q, loc[t].what)
    IN i # 0 => RemovablePosition(msgs, i)

-----------------------------------------------------------------------------
(* Who is where *)

\* The threads that wait in Qcb q.
Listed(q) == Members(qcb[q].waiters, link)

\* The statements of a receive between giving up RunQHead and waiting.
ReceivingPc == {"rcv_park", "rcv_type", "rcv_enter"}
Receiving == {t \in Thread : pc[t] \in ReceivingPc}

\* The threads that may execute: at most one.
MqHolder == Running \cup Popped \cup Receiving

\* t has x in its hands: out of one list and not yet in the next.
Hands(t, x) ==
  \/ pc[t] \in {"snd_ready", "ctl_push"} /\ x = loc[t].what
  \/ pc[t] = "rcv_park" /\ x = t

\* Messages, and what is noted of each one that is sent.
Message == [type : Type, id : Nat \ {0}]
Sending == [type : Type, by : SUBSET Thread]

-----------------------------------------------------------------------------
(* The parts of the invariant *)

\* The variables hold values of the right kind.
MqTypeOK ==
  /\ readyQ \in QueueType /\ link \in LinkType /\ runQ \in Pointer
  /\ tcb \in [Thread -> TcbType]
  /\ mem \in [Thread -> {"none", "live", "freed"}]
  /\ isPushed \in BOOLEAN
  /\ sched \in [pc : {"tick", "preempt", "dispatch", "set"},
               cur : Pointer, new : Pointer, armed : BOOLEAN]
  /\ pc \in [Thread -> PcType \cup MqPc]
  /\ arg \in [Thread -> Pointer]
  /\ {sig, inHandler} \subseteq [Thread -> BOOLEAN]
  /\ parked \subseteq Thread
  /\ crashed = FALSE
  /\ tbl \in [Slot -> [key : Key \cup {NoKey}, pQcb : Qcb \cup {Null}]]
  /\ qcb \in [Qcb -> [used : BOOLEAN, msgs : Seq(Message), waiters : QueueType, sent : Seq(Sending)]]
  /\ type \in [Thread -> Type \cup {Garbage}]
  /\ loc \in [Thread -> [slot : Slot \cup {Null}, q : Qcb \cup {Null},
                         what : Key \cup Type \cup Message \cup Thread \cup {Null}]]

\* Ready queue and waiting lists hold sequences of threads, all different and
\* none in two of them; the wait queue is not used.
MqQueues ==
  /\ waitQ = EmptyQueue
  /\ Walk(readyQ, link) \in Seq(Thread)
  /\ Represents(readyQ, link, Walk(readyQ, link))
  /\ \A q \in Qcb : /\ Waiters(q) \in Seq(Thread)
                    /\ Represents(qcb[q].waiters, link, Waiters(q))
                    /\ Listed(q) \cap Ready = {}
                    /\ Listed(q) \subseteq parked
                    /\ \A r \in Qcb \ {q} : Listed(q) \cap Listed(r) = {}
  /\ \A t \in parked : \E q \in Qcb : t \in Listed(q)
  /\ \A t \in Thread \ (Ready \cup parked) : link.next[t] = Null /\ link.prev[t] = Null

\* Every live thread is queued, running or in somebody's hands, and nothing
\* else is; whoever is listed waits for a message, or is about to.
MqPlaces ==
  /\ \A x \in Live : \/ x \in Ready \cup parked \cup Popped \cup {runQ}
                     \/ \E t \in Thread : Hands(t, x)
  /\ Ready \cup parked \cup Popped \subseteq Live
  /\ runQ # Null => runQ \in Live
  /\ Popped \cap (Ready \cup parked) = {}
  /\ \A t, x \in Thread : Hands(t, x) =>
       x \in Live \ (Ready \cup parked \cup Popped \cup {runQ})
  /\ \A t \in Thread : pc[t] \in {"snd_ready", "ctl_push"} =>
       loc[t].what \in Thread /\ pc[loc[t].what] = "rcv_wait"
  /\ \A t \in Thread : pc[t] \in {"rcv_type", "rcv_enter"} => t \in parked
  /\ \A t \in parked : pc[t] \in {"rcv_type", "rcv_enter", "rcv_wait"}
  /\ Root \in Live /\ pc[Root] \notin RcvPc \cup {"rcv_wait"}

\* What each statement of the scheduler loop finds.
MqLoop ==
  /\ sched.pc \in {"tick", "preempt"} => runQ \notin Ready \cup parked
  /\ sched.pc = "preempt" => sched.cur = runQ /\ runQ # Null
  /\ sched.pc = "dispatch" => runQ \in Ready \cup {Null} /\ Ready # {}
  /\ sched.pc = "set" => runQ \in Ready \cup Popped \cup {Null} /\ sched.new \in Thread
  /\ runQ # Null \/ sched.pc \in {"dispatch", "set"} => sched.armed

\* Whoever does not hold the processor is stopped or waits, and only a holder
\* is let go; SIGUSR1 is on its way to the thread preempted last at most.
MqTurns ==
  /\ \A t \in Thread \ MqHolder :
       sig[t] \/ inHandler[t] \/ pc[t] \in WrapPc \cup WaitPc \cup {"none", "done"}
  /\ \A t \in Thread : tcb[t].bRunnable => t \in MqHolder /\ pc[t] # "rcv_enter"
  /\ \A t \in Receiving : runQ = Null /\ sched.pc = "tick" /\ \A u \in Receiving : u = t
  /\ \A t \in Thread : sig[t] =>
       /\ sched.pc = "tick" => t \in Ready \cup {runQ}
       /\ sched.pc # "tick" => t = runQ /\ sched.pc # "preempt"

\* Ticks find and leave no thread inside a call, and only such calls are made
\* as MqDisciplined lists.
MqQuiet ==
  /\ sched.pc # "tick" => \A t \in Thread : pc[t] \in RestPc
  /\ \A t \in Thread : sig[t] \/ inHandler[t] => pc[t] \in RestPc \ {"none"}
  /\ \A t \in Thread : pc[t] \notin JoinPc \cup ExitPc \cup SuspendPc \cup {"join_wait"}
  /\ \A t \in Thread : mem[t] = IF pc[t] \in {"none", "wrap_tcb"} THEN "none" ELSE "live"

\* is_pushed speaks of the thread that is being created.
MqCreating ==
  /\ \A t \in Thread : pc[t] \in CreatePc =>
       arg[t] \in Thread \ {t} /\ pc[arg[t]] \in WrapPc \cup {"start"}
  /\ isPushed => \E t \in Thread :
       pc[t] \in CreatePc /\ pc[arg[t]] \notin {"wrap_tcb", "wrap_jcb", "wrap_flag"}
  /\ \A c \in Thread : pc[c] \in {"wrap_tcb", "wrap_jcb", "wrap_flag"} =>
       ~ isPushed /\ \E t \in Thread : pc[t] \in CreatePc /\ arg[t] = c

\* Keys, slots and Qcbs in use correspond one to one; a free Qcb is as good as
\* new.
Table ==
  /\ \A r, s \in Slot : tbl[r].pQcb # Null /\
       (tbl[r].key = tbl[s].key \/ tbl[r].pQcb = tbl[s].pQcb) => r = s
  /\ \A s \in Slot : tbl[s].key = NoKey <=> tbl[s].pQcb = Null
  /\ \A q \in Qcb : IF qcb[q].used THEN \E s \in Slot : tbl[s].pQcb = q
                    ELSE qcb[q] = FreeQcb /\ \A s \in Slot : tbl[s].pQcb # q

\* t has looked up the Qcb that its slot still has.
LookedUp(t) ==
  loc[t].slot \in Slot /\ loc[t].q \in Qcb /\ tbl[loc[t].slot].pQcb = loc[t].q

\* What a call in progress, or one that waits, knows.
Knows(t) ==
  /\ pc[t] = "get_store" =>
       /\ loc[t].slot \in Slot /\ tbl[loc[t].slot].key = NoKey
       /\ loc[t].what \in Key /\ \A s \in Slot : tbl[s].key # loc[t].what
  /\ pc[t] \in SendPc \cup CtlPc \cup (RcvPc \ {"rcv_retry"}) => LookedUp(t)
  /\ pc[t] \in RcvPc \cup {"rcv_wait"} =>
       t \in Receivers /\ loc[t].slot \in Slot /\ loc[t].what \in Type
  /\ \A q \in Qcb : t \in Listed(q) => LookedUp(t) /\ loc[t].q = q
  /\ pc[t] \in {"snd_push", "snd_wake"} => loc[t].what \in Message
  /\ pc[t] \in CtlPc => qcb[loc[t].q].msgs = << >>
  /\ pc[t] = "ctl_free" => Listed(loc[t].q) = {}

\* All calls.
CallsKnow == \A t \in Thread : Knows(t)

\* The inductive invariant for places, turns and the table.
MqInv ==
  /\ MqTypeOK /\ MqQueues
  /\ MqPlaces /\ MqLoop /\ MqTurns /\ MqQuiet /\ MqCreating
  /\ Table /\ CallsKnow

-----------------------------------------------------------------------------
(* Messages *)

\* The statements of a receive that has found no message.
ParkingPc == {"rcv_leave", "rcv_park", "rcv_type", "rcv_enter"}

\* t is about to put the message q numbered n into q, or to take the first of
\* type k out.
Pushing(t, q, n) == pc[t] = "snd_push" /\ loc[t].q = q /\ loc[t].what.id = n
Taking(t, q, k) == pc[t] = "rcv_remove" /\ loc[t].q = q /\ loc[t].what = k

Queued(q, n) == \E i \in DOMAIN qcb[q].msgs : qcb[q].msgs[i].id = n

\* Where the messages of type k are in q.
OfType(q, k) == {i \in DOMAIN qcb[q].msgs : qcb[q].msgs[i].type = k}

\* A Qcb holds messages that were sent, in the order of sending.
QueuedWereSent(q) ==
  LET msgs == qcb[q].msgs  sent == qcb[q].sent
  IN /\ \A i \in DOMAIN msgs : /\ msgs[i].id \in DOMAIN sent
                               /\ sent[msgs[i].id].type = msgs[i].type
     /\ \A i, j \in DOMAIN msgs : i < j => msgs[i].id < msgs[j].id

\* A message that nobody has received is queued or about to be; one that is
\* received is queued only until its receiver has removed it.
SentAreSomewhere(q) ==
  LET msgs == qcb[q].msgs  sent == qcb[q].sent
  IN /\ \A n \in DOMAIN sent :
          IF sent[n].by = {} THEN Queued(q, n) \/ \E t \in Thread : Pushing(t, q, n)
                             ELSE \E t \in Thread : sent[n].by = {t}
     /\ \A i \in DOMAIN msgs : sent[msgs[i].id].by # {} =>
          /\ \E t \in sent[msgs[i].id].by : Taking(t, q, msgs[i].type)
          /\ \A j \in DOMAIN msgs : msgs[j].type = msgs[i].type => i <= j

\* Messages of one type are received in the order of sending.
OldestFirst(q) ==
  LET sent == qcb[q].sent
  IN \A m, n \in DOMAIN sent :
       m < n /\ sent[m].type = sent[n].type /\ sent[n].by # {} => sent[m].by # {}

\* What a sender is about to queue is the message noted last.
Sender(t) ==
  LET q == loc[t].q  n == Len(qcb[q].sent)
  IN pc[t] = "snd_push" =>
       /\ n > 0 /\ loc[t].what = [type |-> qcb[q].sent[n].type, id |-> n]
       /\ qcb[q].sent[n].by = {} /\ ~ Queued(q, n)

\* What a receiver is about to remove is the message it has copied.
Taker(t) ==
  LET q == loc[t].q
  IN pc[t] = "rcv_remove" =>
       \E i \in OfType(q, loc[t].what) : qcb[q].sent[qcb[q].msgs[i].id].by = {t}

\* Who is sure to look for a message of type k in q, or to wake somebody for
\* one: woken receivers whose slot still leads to q, receivers that have a
\* copy, senders.
Due(q, k) == {t \in Thread : loc[t].q = q /\
  \/ /\ pc[t] \in {"rcv_wait", "rcv_retry"} /\ t \notin parked
     /\ loc[t].what = k /\ LookedUp(t)
  \/ pc[t] = "rcv_remove" /\ loc[t].what = k
  \/ pc[t] = "snd_wake" /\ loc[t].what.type = k}

Sleeps(t, q, k) == t \in parked /\ pc[t] = "rcv_wait" /\ loc[t].q = q /\ loc[t].what = k

\* Who gives up its search gives up because there is nothing to find, and says
\* in its TCB what it waits for before it is woken.
Parker(t) == pc[t] \in ParkingPc => OfType(loc[t].q, loc[t].what) = {}
TypeTold(t) == t \in parked /\ pc[t] \in {"rcv_enter", "rcv_wait"} => type[t] = loc[t].what

\* For every message that is where somebody sleeps there is somebody due.
Served(q, k) ==
  (\E t \in Thread : Sleeps(t, q, k)) => Cardinality(OfType(q, k)) <= Cardinality(Due(q, k))

\* The inductive invariant for messages, on top of MqInv.
MessagesInv ==
  /\ \A q \in Qcb : QueuedWereSent(q) /\ SentAreSomewhere(q) /\ OldestFirst(q)
  /\ \A t \in Thread : Sender(t) /\ Taker(t) /\ Parker(t) /\ TypeTold(t)
  /\ \A q \in Qcb, k \in Type : Served(q, k)

\* All of it.
MessageQueueInv == MqInv /\ MessagesInv
=============================================================================
