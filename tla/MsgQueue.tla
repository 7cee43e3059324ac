------------------------------ MODULE MsgQueue ------------------------------
(***************************************************************************)
(* The message queues of scheduler2, on top of its threads and scheduler.  *)
(* A queue is a Qcb, found through a table of slots: its messages, and the *)
(* TCBs of the threads that wait for a message of some type.  Those TCBs   *)
(* are linked by the same pNext and pPrev as in the ready queue.           *)
(*                                                                         *)
(* A message is its type and its number in the order of sending.  The      *)
(* messages of a Qcb are a sequence: with at most three messages the       *)
(* removal code keeps them one (LinkedQueueProofs).  msgCount and          *)
(* waitThreadCount, which no code reads, are left out.                     *)
(***************************************************************************)
EXTENDS Scheduler

Seqs == INSTANCE SequencesExt
Sets == INSTANCE FiniteSetsExt

CONSTANTS
  Slot,         \* the indices of qcbTblEntry
  Qcb,          \* bound: the memory there is for Qcbs
  Key,          \* the keys programs use
  NoKey,        \* -1, the key of an unused entry
  Type,         \* message types
  Managers,     \* the threads whose programs call mymsgget and mymsgctl
  Senders,      \* the threads whose programs call mymsgsnd
  Receivers,    \* the threads whose programs call mymsgrcv
  MaxSends      \* bound: messages sent to the Qcbs there are

ASSUME MsgQueueAssumption ==
  /\ NoKey \notin Key
  /\ Slot \subseteq Nat /\ Null \notin Qcb /\ Type \cap (Thread \cup {Null}) = {}
  /\ Managers \cup Senders \cup Receivers \subseteq Thread
  /\ MaxSends \in Nat

VARIABLES
  tbl,          \* qcbTblEntry: key and pQcb of each slot
  qcb,          \* the memory for Qcbs, allocated or free: messages, waiting
                \* list and, auxiliary, for each message sent to it its type
                \* and receivers
  type,         \* the TCBs' type
  loc           \* each thread's local variables in a message call

mqVars == << tbl, qcb, type, loc >>
allVars == << vars, mqVars >>

FreeQcb == [used |-> FALSE, msgs |-> << >>, waiters |-> EmptyQueue, sent |-> << >>]
NoLocals == [slot |-> Null, q |-> Null, what |-> Null]

SendPc == {"snd_push", "snd_wake", "snd_ready"}
RcvPc  == {"rcv_remove", "rcv_leave", "rcv_park", "rcv_type", "rcv_enter", "rcv_retry"}
CtlPc  == {"ctl_pop", "ctl_push", "ctl_free"}
MqPc   == {"get_store"} \cup SendPc \cup RcvPc \cup CtlPc

MqInit ==
  /\ Init
  /\ tbl = [s \in Slot |-> [key |-> NoKey, pQcb |-> Null]]
  /\ qcb = [q \in Qcb |-> FreeQcb]
  /\ type = [t \in Thread |-> Garbage]
  /\ loc = [t \in Thread |-> NoLocals]

-----------------------------------------------------------------------------
(* The queues of a Qcb *)

Waiters(q) == Walk(qcb[q].waiters, link)

\* The position of the first message of a type, or 0.
mq_search(q, k) == Seqs!SelectInSeq(qcb[q].msgs, LAMBDA m : m.type = k)

\* Mutant of mq_push: in front of the messages.
mq_pushFront(q, m) == qcb' = [qcb EXCEPT ![q].msgs = << m >> \o @]

mq_push(q, m) == qcb' = [qcb EXCEPT ![q].msgs = Append(@, m)]

\* Mutant of mq_remove: the head goes, whatever its type.
mq_removeHead(q, k) == qcb' = [qcb EXCEPT ![q].msgs = Tail(@)]

\* Without a message of the type nothing happens.
mq_remove(q, k) ==
  qcb' = [qcb EXCEPT ![q].msgs = Seqs!RemoveFirstMatch(@, LAMBDA m : m.type = k)]

\* Mutant of tq_search: the first thread, whatever it waits for.
tq_searchAny(q, k) == IF Waiters(q) = << >> THEN 0 ELSE 1

\* The position of the first thread that waits for a type, or 0.
tq_search(q, k) == Seqs!SelectInSeq(Waiters(q), LAMBDA t : type[t] = k)

\* The threads in waiting lists that the table leads to, after a step.
Park == parked' = UNION {Members(qcb'[tbl'[s].pQcb].waiters, link') :
                           s \in {r \in Slot : tbl'[r].pQcb # Null}}

tq_push(q, t) ==
  LET r == Push(qcb[q].waiters, link, t)
  IN qcb' = [qcb EXCEPT ![q].waiters = r.q] /\ link' = r.l

\* Mutant of tq_remove: the thread is left in the list.
tq_removeNothing(q, t) == UNCHANGED << qcb, link >>

tq_remove(q, t) ==
  LET r == Remove(qcb[q].waiters, link, t)
  IN qcb' = [qcb EXCEPT ![q].waiters = r.q] /\ link' = r.l

tq_pop(q) ==
  LET r == Pop(qcb[q].waiters, link)
  IN qcb' = [qcb EXCEPT ![q].waiters = r.q] /\ link' = r.l

\* t's message call is over.
Done(t) == Goto(t, "user") /\ loc' = [loc EXCEPT ![t] = NoLocals]

\* What the steps below leave alone of the scheduler's state.
SameButQueues == UNCHANGED << waitQ, joinVars, mem, isPushed, sched, arg, sigVars, got, crashed >>

-----------------------------------------------------------------------------
(* mymsgget *)

\* A key that the table holds is found, and a full table gives -1: neither
\* changes anything.  Otherwise the first unused entry is picked ...
Get(t, k) ==
  /\ AtCall(t, "msgget") /\ t \in Managers /\ (\E q \in Qcb : ~ qcb[q].used)
  /\ \A s \in Slot : tbl[s].key # k
  /\ \E s \in Slot :
       /\ tbl[s].key = NoKey /\ \A r \in Slot : tbl[r].key = NoKey => s <= r
       /\ loc' = [loc EXCEPT ![t] = [@ EXCEPT !.slot = s, !.what = k]]
  /\ Goto(t, "get_store")
  /\ SameButQueues
  /\ UNCHANGED << readyQ, link, runQ, tcb, parked, tbl, qcb, type >>

\* ... and given the key and a new Qcb.
GetStore(t) ==
  /\ At(t, "get_store")
  /\ \E q \in Qcb :
       /\ ~ qcb[q].used
       /\ qcb' = [qcb EXCEPT ![q].used = TRUE]
       /\ tbl' = [tbl EXCEPT ![loc[t].slot] = [key |-> loc[t].what, pQcb |-> q]]
  /\ Done(t)
  /\ SameButQueues
  /\ UNCHANGED << readyQ, link, runQ, tcb, type >>
  /\ Park

-----------------------------------------------------------------------------
(* mymsgsnd *)

\* Without a Qcb in the slot the call returns -1.
Send(t, s, k) ==
  /\ AtCall(t, "msgsnd") /\ t \in Senders /\ tbl[s].pQcb # Null
  /\ LET q == tbl[s].pQcb
         m == [type |-> k, id |-> Len(qcb[q].sent) + 1]
     IN /\ Sets!MapThenSumSet(LAMBDA r : Len(qcb[r].sent), Qcb) < MaxSends
        /\ qcb' = [qcb EXCEPT ![q].sent = Append(@, [type |-> k, by |-> {}])]
        /\ loc' = [loc EXCEPT ![t] = [slot |-> s, q |-> q, what |-> m]]
  /\ Goto(t, "snd_push")
  /\ SameButQueues
  /\ UNCHANGED << readyQ, link, runQ, tcb, parked, tbl, type >>

SendPush(t) ==
  /\ At(t, "snd_push")
  /\ mq_push(loc[t].q, loc[t].what)
  /\ Goto(t, "snd_wake")
  /\ SameButQueues
  /\ UNCHANGED << readyQ, link, runQ, tcb, parked, tbl, type, loc >>

\* Take the first thread that waits for this type out of the list, if any.
SendWake(t) ==
  /\ At(t, "snd_wake")
  /\ LET q == loc[t].q
         i == tq_search(q, loc[t].what.type)
     IN IF i = 0
        THEN Done(t) /\ UNCHANGED << qcb, link >>
        ELSE /\ tq_remove(q, Waiters(q)[i])
             /\ loc' = [loc EXCEPT ![t].what = Waiters(q)[i]]
             /\ Goto(t, "snd_ready")
  /\ SameButQueues
  /\ UNCHANGED << readyQ, runQ, tcb, tbl, type >>
  /\ Park

SendReady(t) ==
  /\ At(t, "snd_ready")
  /\ rq_push(loc[t].what)
  /\ Done(t)
  /\ SameButQueues
  /\ UNCHANGED << runQ, tcb, parked, tbl, qcb, type >>

-----------------------------------------------------------------------------
(* mymsgrcv *)

\* The message at position i of Qcb q is copied to t's buffer, to be removed
\* next.
Copy(t, q, i) ==
  /\ qcb' = [qcb EXCEPT ![q].sent[qcb[q].msgs[i].id].by = @ \cup {t}]
  /\ Goto(t, "rcv_remove")

\* Search the messages from the head for the type.  Without a Qcb in the slot
\* the call returns -1.
Receive(t, s, k) ==
  /\ AtCall(t, "msgrcv") /\ t \in Receivers /\ tbl[s].pQcb # Null
  /\ LET q == tbl[s].pQcb
         i == mq_search(q, k)
     IN /\ loc' = [loc EXCEPT ![t] = [slot |-> s, q |-> q, what |-> k]]
        /\ IF i = 0
           THEN Goto(t, "rcv_leave") /\ qcb' = qcb
           ELSE Copy(t, q, i)
  /\ SameButQueues
  /\ UNCHANGED << readyQ, link, runQ, tcb, parked, tbl, type >>

\* mq_remove searches the type again.
ReceiveRemove(t) ==
  /\ At(t, "rcv_remove")
  /\ mq_remove(loc[t].q, loc[t].what)
  /\ Done(t)
  /\ SameButQueues
  /\ UNCHANGED << readyQ, link, runQ, tcb, parked, tbl, type >>

ReceiveLeave(t) ==
  /\ At(t, "rcv_leave")
  /\ IF getThread(t) = Null THEN Crash /\ UNCHANGED mqVars
     ELSE /\ runQ' = Null
          /\ Goto(t, "rcv_park")
          /\ SameButQueues
          /\ UNCHANGED << readyQ, link, tcb, parked, mqVars >>

ReceivePark(t) ==
  /\ At(t, "rcv_park")
  /\ tq_push(loc[t].q, t)
  /\ Goto(t, "rcv_type")
  /\ SameButQueues
  /\ UNCHANGED << readyQ, runQ, tcb, tbl, type, loc >>
  /\ Park

\* Mutant of ReceiveType: the thread stays runnable.
ReceiveTypeRunnable(t) ==
  /\ At(t, "rcv_type")
  /\ type' = [type EXCEPT ![t] = loc[t].what]
  /\ Goto(t, "rcv_enter")
  /\ SameButQueues
  /\ UNCHANGED << readyQ, link, runQ, tcb, parked, tbl, qcb, loc >>

ReceiveType(t) ==
  /\ At(t, "rcv_type")
  /\ type' = [type EXCEPT ![t] = loc[t].what]
  /\ tcb' = [tcb EXCEPT ![t].bRunnable = FALSE]
  /\ Goto(t, "rcv_enter")
  /\ SameButQueues
  /\ UNCHANGED << readyQ, link, runQ, parked, tbl, qcb, loc >>

ReceiveEnter(t) == WaitEnter(t, "rcv_enter", "rcv_wait") /\ UNCHANGED mqVars
ReceiveReturn(t) == WaitReturn(t, "rcv_wait", "rcv_retry") /\ UNCHANGED mqVars

\* Awake: look once more, in whatever Qcb the slot has now.
ReceiveRetry(t) ==
  /\ At(t, "rcv_retry")
  /\ LET q == tbl[loc[t].slot].pQcb
         i == IF q = Null THEN 0 ELSE mq_search(q, loc[t].what)
     IN IF i = 0
        THEN Done(t) /\ qcb' = qcb
        ELSE Copy(t, q, i) /\ loc' = [loc EXCEPT ![t].q = q]
  /\ SameButQueues
  /\ UNCHANGED << readyQ, link, runQ, tcb, parked, tbl, type >>

-----------------------------------------------------------------------------
(* mymsgctl, MY_IPC_RMID *)

\* A queue that does not exist or holds messages is not removed: -1.
Control(t, s) ==
  /\ AtCall(t, "msgctl") /\ t \in Managers /\ tbl[s].pQcb # Null
  /\ qcb[tbl[s].pQcb].msgs = << >>
  /\ loc' = [loc EXCEPT ![t] = [@ EXCEPT !.slot = s, !.q = tbl[s].pQcb]]
  /\ Goto(t, "ctl_pop")
  /\ SameButQueues
  /\ UNCHANGED << readyQ, link, runQ, tcb, parked, tbl, qcb, type >>

\* Every waiting thread goes to the ready queue, one by one.
ControlPop(t) ==
  /\ At(t, "ctl_pop")
  /\ LET q == loc[t].q
         h == qcb[q].waiters.head
     IN IF h = Null
        THEN Goto(t, "ctl_free") /\ UNCHANGED << qcb, link, loc >>
        ELSE /\ tq_pop(q)
             /\ loc' = [loc EXCEPT ![t].what = h]
             /\ Goto(t, "ctl_push")
  /\ SameButQueues
  /\ UNCHANGED << readyQ, runQ, tcb, tbl, type >>
  /\ Park

ControlPush(t) ==
  /\ At(t, "ctl_push")
  /\ rq_push(loc[t].what)
  /\ Goto(t, "ctl_pop")
  /\ SameButQueues
  /\ UNCHANGED << runQ, tcb, parked, mqVars >>

\* Mutant of ControlFree: the key stays in the table.
ControlFreeKeepsKey(t) ==
  /\ At(t, "ctl_free")
  /\ qcb' = [qcb EXCEPT ![tbl[loc[t].slot].pQcb] = FreeQcb]
  /\ tbl' = [tbl EXCEPT ![loc[t].slot].pQcb = Null]
  /\ Done(t)
  /\ SameButQueues
  /\ UNCHANGED << readyQ, link, runQ, tcb, type >>
  /\ Park

ControlFree(t) ==
  /\ At(t, "ctl_free")
  /\ qcb' = [qcb EXCEPT ![tbl[loc[t].slot].pQcb] = FreeQcb]
  /\ tbl' = [tbl EXCEPT ![loc[t].slot] = [key |-> NoKey, pQcb |-> Null]]
  /\ Done(t)
  /\ SameButQueues
  /\ UNCHANGED << readyQ, link, runQ, tcb, type >>
  /\ Park

-----------------------------------------------------------------------------
MqCall(t) ==
  \/ \E k \in Key : Get(t, k)
  \/ \E s \in Slot : Control(t, s) \/ \E k \in Type : Send(t, s, k) \/ Receive(t, s, k)

MqContinue(t) ==
  \/ GetStore(t)
  \/ SendPush(t) \/ SendWake(t) \/ SendReady(t)
  \/ ReceiveRemove(t) \/ ReceiveLeave(t) \/ ReceivePark(t) \/ ReceiveType(t)
  \/ ReceiveEnter(t) \/ ReceiveReturn(t) \/ ReceiveRetry(t)
  \/ ControlPop(t) \/ ControlPush(t) \/ ControlFree(t)

MqNext ==
  \/ Next /\ UNCHANGED mqVars
  \/ \E t \in Thread : MqCall(t) \/ MqContinue(t)

MqSpec == MqInit /\ [][MqNext]_allVars
=============================================================================
