--------------------------- MODULE SchedulerProofs ---------------------------
(***************************************************************************)
(* The thread library and the scheduler, for any set of threads.           *)
(*                                                                         *)
(* First types and pointers, for any calls and ticks at any statement: the *)
(* variables keep their types, and no queue, link, RunQHead or scheduler   *)
(* variable points to a thread without a TCB.  TypeOK is not inductive:    *)
(* thread_exit stores and queues what it reads through pointers (RunQHead, *)
(* its parent's id), so one has to know where pointers lead, and which     *)
(* calls have filled theirs (Inv).                                         *)
(*                                                                         *)
(* Then the inductive invariant of SchedulerInvariant, for any finite set  *)
(* of threads: it holds at the start, every step of the program keeps it,  *)
(* and it implies the properties of SchedulerProperties and the refinement *)
(* of RoundRobin.  The order is bottom up: the lemmas of LinkedQueueProofs *)
(* said of the ready, wait and join queue; what a thread knows when it     *)
(* executes, and what steps keep that leave queues and RunQHead alone; one *)
(* lemma for each action, in the order of Scheduler.tla; the invariant,    *)
(* the properties, the refinement.                                         *)
(***************************************************************************)
EXTENDS SchedulerInvariant, SequenceTheorems, FunctionTheorems, FiniteSetTheorems,
        TLAPS

Q == INSTANCE LinkedQueueProofs WITH Node <- Thread

-----------------------------------------------------------------------------
(* Types and pointers *)

\* The threads whose TCB has been made, and the pointers to them.
Made == {t \in Thread : mem[t] # "none"}
MadePointer == Made \cup {Null}

QueueIn(q, S) == q.head \in S /\ q.tail \in S
LinksIn(l, S) == \A t \in Thread : l.next[t] \in S /\ l.prev[t] \in S

\* A thread has a TCB from the first step of __wrapperFunc on.
MadeByWrapper == \A t \in Thread : mem[t] = "none" <=> pc[t] \in {"none", "wrap_tcb"}

\* Queues, links, RunQHead and the scheduler's variables lead to TCBs.
PointersLead ==
  /\ QueueIn(readyQ, MadePointer) /\ QueueIn(waitQ, MadePointer)
  /\ LinksIn(link, MadePointer)
  /\ {runQ, sched.cur, sched.new} \subseteq MadePointer
  /\ sched.pc = "preempt" => sched.cur # Null

ParentsLead == \A t \in Thread : tcb[t].parentTid \in MadePointer \cup {Main}

\* A call in progress has the thread it is about: thread_create a thread, the
\* others a TCB, and thread_exit a parent that its search has found.
ArgsLead ==
  \A t \in Thread :
    /\ pc[t] \in CreatePc => arg[t] \in Thread
    /\ pc[t] \in JoinPc \cup {"join_wait"} \cup ExitPc \cup SuspendPc => arg[t] \in Made
    /\ pc[t] \in {"exit_wake", "exit_push", "exit_mark"} => ParentOf(t) \in Made

Inv == TypeOK /\ MadeByWrapper /\ PointersLead /\ ParentsLead /\ ArgsLead

-----------------------------------------------------------------------------
\* NULL, main and garbage are no threads.
LEMMA NoThreads ==
  /\ Null \notin Thread /\ Main \notin Thread /\ Garbage \notin Thread
  /\ Main # Null /\ Root \in Thread
BY SchedulerAssumption

\* Pushing a thread keeps queue and links within a set of pointers.
LEMMA PushKeeps ==
  ASSUME NEW S, S \subseteq Pointer, NEW q \in QueueType, NEW l \in LinkType,
         QueueIn(q, S), LinksIn(l, S), NEW n \in Thread, n \in S
  PROVE  /\ Push(q, l, n).q \in QueueType /\ Push(q, l, n).l \in LinkType
         /\ QueueIn(Push(q, l, n).q, S) /\ LinksIn(Push(q, l, n).l, S)
BY DEF Push, QueueType, LinkType, QueueIn, LinksIn, Pointer

\* So does removing one ...
LEMMA RemoveKeeps ==
  ASSUME NEW S, S \subseteq Pointer, Null \in S, NEW q \in QueueType, NEW l \in LinkType,
         QueueIn(q, S), LinksIn(l, S), NEW n \in Thread
  PROVE  /\ Remove(q, l, n).q \in QueueType /\ Remove(q, l, n).l \in LinkType
         /\ QueueIn(Remove(q, l, n).q, S) /\ LinksIn(Remove(q, l, n).l, S)
BY DEF Remove, QueueType, LinkType, QueueIn, LinksIn, Pointer

\* ... and popping the first of a queue that is not empty.
LEMMA PopKeeps ==
  ASSUME NEW S, S \subseteq Pointer, Null \in S, NEW q \in QueueType, NEW l \in LinkType,
         QueueIn(q, S), LinksIn(l, S), q.head # Null
  PROVE  /\ Pop(q, l).q \in QueueType /\ Pop(q, l).l \in LinkType
         /\ QueueIn(Pop(q, l).q, S) /\ LinksIn(Pop(q, l).l, S)
BY DEF Pop, QueueType, LinkType, QueueIn, LinksIn, Pointer

\* What a search finds is a thread; a failed search of a thread's own TCB is
\* all that __getThread hides.
LEMMA GetThreadFinds ==
  ASSUME TypeOK, NEW t, getThread(t) # Null
  PROVE  t \in Thread
BY DEF getThread, Ready, Waiting, Members, TypeOK, Pointer

-----------------------------------------------------------------------------
(* Frames: steps that leave a part of the state alone keep what the        *)
(* invariant says of it.                                                   *)

USE DEF PcType, CreatePc, WrapPc, JoinPc, ExitPc, SuspendPc, RestPc, WaitPc,
        vars, queueVars, joinVars, tcbVars, ctlVars, sigVars, rest

\* Nothing but the flag changes when the process dies.
LEMMA CrashKeeps == ASSUME Inv, Crash PROVE Inv'
BY DEF Crash, Inv, TypeOK, MadeByWrapper, PointersLead, ParentsLead, ArgsLead, Made, MadePointer,
       ParentOf, QueueIn, LinksIn, Pointer

\* A step that leaves queues, links, RunQHead and the scheduler alone.
LEMMA SamePointers ==
  ASSUME PointersLead, Made \subseteq Made',
         UNCHANGED << readyQ, waitQ, link, runQ, sched >>
  PROVE  PointersLead'
BY DEF PointersLead, MadePointer, QueueIn, LinksIn

\* t goes on to statement l, about x, and no TCB gets another parent.
LEMMA Advance ==
  ASSUME Inv, NEW t \in Thread, pc[t] \notin {"none", "wrap_tcb"},
         NEW l \in PcType \ {"none", "wrap_tcb"}, NEW x \in Pointer,
         pc' = [pc EXCEPT ![t] = l], arg' = [arg EXCEPT ![t] = x],
         Made' = Made, \A u \in Thread : tcb'[u].parentTid = tcb[u].parentTid,
         l \in CreatePc => x \in Thread,
         l \in JoinPc \cup {"join_wait"} \cup ExitPc \cup SuspendPc => x \in Made,
         l \in {"exit_wake", "exit_push", "exit_mark"} => tcb[x].parentTid \in Made
  PROVE  MadeByWrapper' /\ ParentsLead' /\ ArgsLead'
<1>1. MadeByWrapper'
  BY DEF Inv, TypeOK, MadeByWrapper, Made
<1>2. ParentsLead'
  BY DEF Inv, ParentsLead, MadePointer
<1>3. ArgsLead'
  BY DEF Inv, TypeOK, ArgsLead, ParentOf, Made
<1> QED BY <1>1, <1>2, <1>3

\* The same when the step leaves the argument alone.
LEMMA AdvanceSame ==
  ASSUME Inv, NEW t \in Thread, pc[t] \notin {"none", "wrap_tcb"},
         NEW l \in PcType \ {"none", "wrap_tcb"},
         pc' = [pc EXCEPT ![t] = l], arg' = arg,
         Made' = Made, \A u \in Thread : tcb'[u].parentTid = tcb[u].parentTid,
         l \in CreatePc => arg[t] \in Thread,
         l \in JoinPc \cup {"join_wait"} \cup ExitPc \cup SuspendPc => arg[t] \in Made,
         l \in {"exit_wake", "exit_push", "exit_mark"} => ParentOf(t) \in Made
  PROVE  MadeByWrapper' /\ ParentsLead' /\ ArgsLead'
<1>1. arg[t] \in Pointer /\ arg' = [arg EXCEPT ![t] = arg[t]]
  BY DEF Inv, TypeOK
<1> QED BY <1>1, Advance DEF ParentOf

-----------------------------------------------------------------------------
(* The queue operations of the thread library. *)

QueuesKept == readyQ' \in QueueType /\ waitQ' \in QueueType /\ link' \in LinkType
QueuesLead(S) == QueueIn(readyQ', S) /\ QueueIn(waitQ', S) /\ LinksIn(link', S)

\* The queues before a step, and within any larger set of pointers.
LEMMA QueuesBefore ==
  ASSUME Inv, NEW S, MadePointer \subseteq S
  PROVE  /\ readyQ \in QueueType /\ waitQ \in QueueType /\ link \in LinkType
         /\ QueueIn(readyQ, S) /\ QueueIn(waitQ, S) /\ LinksIn(link, S)
BY DEF Inv, TypeOK, PointersLead, QueueIn, LinksIn

\* rq_push of a thread in S ...
LEMMA ReadyPush ==
  ASSUME Inv, NEW S, MadePointer \subseteq S, S \subseteq Pointer,
         NEW n \in Thread, n \in S, rq_push(n), waitQ' = waitQ
  PROVE  QueuesKept /\ QueuesLead(S)
BY QueuesBefore, PushKeeps DEF rq_push, QueuesKept, QueuesLead

\* ... and wq_push.
LEMMA WaitPush ==
  ASSUME Inv, NEW S, MadePointer \subseteq S, S \subseteq Pointer,
         NEW n \in Thread, n \in S, wq_push(n), readyQ' = readyQ
  PROVE  QueuesKept /\ QueuesLead(S)
BY QueuesBefore, PushKeeps DEF wq_push, QueuesKept, QueuesLead

\* rq_remove, whether or not the ready queue holds the thread ...
LEMMA ReadyRemove ==
  ASSUME Inv, NEW n \in Thread, rq_remove(n), waitQ' = waitQ
  PROVE  QueuesKept /\ QueuesLead(MadePointer)
<1>1. MadePointer \subseteq Pointer /\ Null \in MadePointer
  BY DEF MadePointer, Made, Pointer
<1>2. CASE n \in Ready
  BY <1>1, <1>2, QueuesBefore, RemoveKeeps DEF rq_remove, QueuesKept, QueuesLead
<1>3. CASE n \notin Ready
  BY <1>3, QueuesBefore DEF rq_remove, QueuesKept, QueuesLead
<1> QED BY <1>2, <1>3

\* ... and wq_remove.
LEMMA WaitRemove ==
  ASSUME Inv, NEW n \in Thread, wq_remove(n), readyQ' = readyQ
  PROVE  QueuesKept /\ QueuesLead(MadePointer)
<1>1. MadePointer \subseteq Pointer /\ Null \in MadePointer
  BY DEF MadePointer, Made, Pointer
<1>2. CASE n \in Waiting
  BY <1>1, <1>2, QueuesBefore, RemoveKeeps DEF wq_remove, QueuesKept, QueuesLead
<1>3. CASE n \notin Waiting
  BY <1>3, QueuesBefore DEF wq_remove, QueuesKept, QueuesLead
<1> QED BY <1>2, <1>3

\* rq_pop of a ready queue that is not empty.
LEMMA ReadyPop ==
  ASSUME Inv, rq_pop, readyQ.head # Null, waitQ' = waitQ
  PROVE  QueuesKept /\ QueuesLead(MadePointer)
<1>1. MadePointer \subseteq Pointer /\ Null \in MadePointer
  BY DEF MadePointer, Made, Pointer
<1> QED BY <1>1, QueuesBefore, PopKeeps DEF rq_pop, QueuesKept, QueuesLead

\* Join queue: only its type matters.
LEMMA JoinQueueKept ==
  ASSUME Inv, NEW n \in Thread, jq_push(n) \/ jq_remove(n)
  PROVE  joinQ' \in QueueType /\ jlink' \in LinkType
<1>1. joinQ \in QueueType /\ jlink \in LinkType
  BY DEF Inv, TypeOK
<1>2. QueueIn(joinQ, Pointer) /\ LinksIn(jlink, Pointer) /\ n \in Pointer /\ Null \in Pointer
  BY <1>1 DEF QueueIn, LinksIn, QueueType, LinkType, Pointer
<1>3. CASE jq_push(n)
  BY <1>1, <1>2, <1>3, PushKeeps DEF jq_push
<1>4. CASE jq_remove(n)
  BY <1>1, <1>2, <1>4, RemoveKeeps DEF jq_remove
<1> QED BY <1>3, <1>4

-----------------------------------------------------------------------------
(* Stores to a field of one TCB. *)

\* A store to bRunnable ...
LEMMA StoreRunnable ==
  ASSUME NEW f \in [Thread -> TcbType], NEW u \in Thread, NEW b \in BOOLEAN
  PROVE  [f EXCEPT ![u].bRunnable = b] \in [Thread -> TcbType]
<1>1. [f[u] EXCEPT !.bRunnable = b] \in TcbType
  BY Zenon DEF TcbType
<1> QED BY <1>1

\* ... and one to parentTid.
LEMMA StoreParent ==
  ASSUME NEW f \in [Thread -> TcbType], NEW u \in Thread, NEW p \in Thread
  PROVE  [f EXCEPT ![u].parentTid = p] \in [Thread -> TcbType]
<1>1. [f[u] EXCEPT !.parentTid = p] \in TcbType
  BY DEF TcbType
<1> QED BY <1>1

-----------------------------------------------------------------------------
(* thread_create and __wrapperFunc *)

\* One creates, the other starts without a TCB.
LEMMA CreateKeeps == ASSUME Inv, NEW t \in Thread, NEW c \in Thread, Create(t, c) PROVE Inv'
<1>1. TypeOK'
  BY DEF Inv, TypeOK, Pointer, Create, AtCall
<1>2. PointersLead'
  BY SamePointers DEF Inv, Made, Create
<1>3. MadeByWrapper' /\ ParentsLead' /\ ArgsLead'
  BY DEF Inv, TypeOK, MadeByWrapper, ParentsLead, ArgsLead, ParentOf, Made, MadePointer,
         Create, AtCall
<1> QED BY <1>1, <1>2, <1>3 DEF Inv

\* The creator, which has a TCB, becomes the parent.
LEMMA CreateCheckKeeps == ASSUME Inv, NEW t \in Thread, CreateCheck(t) PROVE Inv'
<1>1. pc[t] = "create_check" /\ t \in Made /\ arg[t] \in Thread
  BY DEF Inv, TypeOK, ArgsLead, MadeByWrapper, Made, CreateCheck, At
<1>2. CASE ~ isPushed
  <2>1. TypeOK' /\ PointersLead'
    BY <1>1, <1>2, SamePointers DEF Inv, TypeOK, Made, CreateCheck, Goto
  <2>2. MadeByWrapper' /\ ParentsLead' /\ ArgsLead'
    BY <1>1, <1>2, AdvanceSame DEF Inv, Made, CreateCheck, Goto
  <2> QED BY <2>1, <2>2 DEF Inv
<1>3. CASE isPushed /\ getThread(arg[t]) = Null
  BY <1>3, CrashKeeps DEF CreateCheck
<1>4. CASE isPushed /\ getThread(arg[t]) # Null
  <2>1. /\ pc' = [pc EXCEPT ![t] = "user"] /\ arg' = [arg EXCEPT ![t] = Null]
        /\ tcb' = [tcb EXCEPT ![arg[t]].parentTid = t]
        /\ UNCHANGED << queueVars, joinVars, mem, sched, sigVars, rest >> /\ isPushed' = FALSE
    BY <1>4 DEF CreateCheck, Leave, Goto
  <2>2. TypeOK'
    BY <1>1, <2>1, StoreParent DEF Inv, TypeOK, Pointer
  <2>3. PointersLead'
    BY <2>1, SamePointers DEF Inv, Made
  <2>4. MadeByWrapper' /\ ParentsLead'
    BY <1>1, <2>1 DEF Inv, TypeOK, TcbType, MadeByWrapper, ParentsLead, Made, MadePointer
  <2>5. ArgsLead'
    BY <1>1, <2>1 DEF Inv, TypeOK, TcbType, ArgsLead, ParentOf, Made
  <2> QED BY <2>2, <2>3, <2>4, <2>5 DEF Inv
<1> QED BY <1>2, <1>3, <1>4

\* No pointer leads to c yet, and no call is about it; from here on some may.
LEMMA WrapTcbKeeps == ASSUME Inv, NEW c \in Thread, WrapTcb(c) PROVE Inv'
<1>1. /\ pc[c] = "wrap_tcb" /\ c \notin Made
      /\ Made' = Made \cup {c} /\ MadePointer' = MadePointer \cup {c}
  BY DEF Inv, TypeOK, MadeByWrapper, Made, MadePointer, WrapTcb, At
<1>2. QueuesKept /\ QueuesLead(MadePointer')
  BY <1>1, ReadyPush DEF WrapTcb, Made, MadePointer, Pointer
<1>3. TypeOK'
  BY <1>2, NoThreads DEF Inv, TypeOK, TcbType, NewTcb, QueuesKept, WrapTcb, Goto
<1>4. PointersLead'
  BY <1>1, <1>2 DEF Inv, PointersLead, QueuesLead, WrapTcb
<1>5. MadeByWrapper' /\ ParentsLead'
  BY <1>1 DEF Inv, TypeOK, TcbType, NewTcb, MadeByWrapper, ParentsLead, MadePointer, WrapTcb, Goto
<1>6. ArgsLead'
  BY <1>1 DEF Inv, TypeOK, TcbType, ArgsLead, ParentOf, Made, WrapTcb, Goto
<1> QED BY <1>3, <1>4, <1>5, <1>6 DEF Inv

\* The join queue is the only one that changes.
LEMMA WrapJcbKeeps == ASSUME Inv, NEW c \in Thread, WrapJcb(c) PROVE Inv'
<1>1. joinQ' \in QueueType /\ jlink' \in LinkType
  BY JoinQueueKept DEF WrapJcb
<1>2. TypeOK'
  BY <1>1 DEF Inv, TypeOK, WrapJcb, Goto
<1>3. PointersLead'
  BY SamePointers DEF Inv, Made, WrapJcb
<1>4. MadeByWrapper' /\ ParentsLead' /\ ArgsLead'
  BY AdvanceSame DEF Inv, Made, WrapJcb, At, Goto
<1> QED BY <1>2, <1>3, <1>4 DEF Inv

\* The store to is_pushed.
LEMMA WrapFlagKeeps == ASSUME Inv, NEW c \in Thread, WrapFlag(c) PROVE Inv'
<1>1. TypeOK'
  BY NoThreads DEF Inv, TypeOK, TcbType, Pointer, Made, ArgsLead, WrapFlag, At, Goto
<1>2. PointersLead'
  BY SamePointers DEF Inv, Made, WrapFlag, At, Goto
<1>3. MadeByWrapper' /\ ParentsLead' /\ ArgsLead'
  BY AdvanceSame DEF Inv, ArgsLead, Made, WrapFlag, At, Goto
<1> QED BY <1>1, <1>2, <1>3 DEF Inv

\* Two threads move: the signalled creator checks again.
LEMMA WrapSignalKeeps == ASSUME Inv, NEW c \in Thread, WrapSignal(c) PROVE Inv'
<1>1. TypeOK'
  BY DEF Inv, TypeOK, WrapSignal, Goto
<1>2. PointersLead'
  BY SamePointers DEF Inv, Made, WrapSignal
<1>3. MadeByWrapper' /\ ParentsLead' /\ ArgsLead'
  BY DEF Inv, TypeOK, MadeByWrapper, ParentsLead, ArgsLead, ParentOf, Made, MadePointer,
         WrapSignal, At, Goto
<1> QED BY <1>1, <1>2, <1>3 DEF Inv

\* Entering a wait, whichever the call.
LEMMA WaitEnterKeeps ==
  ASSUME Inv, NEW t \in Thread, NEW l, NEW m,
         << l, m >> \in {<< "wrap_enter", "start" >>, << "join_enter", "join_wait" >>},
         WaitEnter(t, l, m)
  PROVE  Inv'
<1>1. CASE getThread(t) = Null
  BY <1>1, CrashKeeps DEF WaitEnter
<1>2. CASE getThread(t) # Null
  <2>1. TypeOK' /\ PointersLead'
    BY <1>2, SamePointers DEF Inv, TypeOK, Made, WaitEnter, Goto
  <2>2. MadeByWrapper' /\ ParentsLead' /\ ArgsLead'
    BY <1>2, AdvanceSame DEF Inv, ArgsLead, Made, WaitEnter, At, Goto
  <2> QED BY <2>1, <2>2 DEF Inv
<1> QED BY <1>1, <1>2

\* Leaving a wait.
LEMMA WaitReturnKeeps ==
  ASSUME Inv, NEW t \in Thread, NEW l, NEW m,
         << l, m >> \in {<< "start", "user" >>, << "join_wait", "join_collect" >>},
         WaitReturn(t, l, m)
  PROVE  Inv'
<1>1. TypeOK' /\ PointersLead'
  BY SamePointers DEF Inv, TypeOK, Made, WaitReturn, Goto
<1>2. MadeByWrapper' /\ ParentsLead' /\ ArgsLead'
  BY AdvanceSame DEF Inv, ArgsLead, Made, WaitReturn, At, Goto
<1> QED BY <1>1, <1>2 DEF Inv

-----------------------------------------------------------------------------
(* thread_join *)

\* The caller's argument is a child with a TCB.
LEMMA JoinKeeps == ASSUME Inv, NEW t \in Thread, NEW c \in Thread, Join(t, c) PROVE Inv'
<1>1. CASE getThread(t) = Null \/ getThread(c) = Null
  BY <1>1, CrashKeeps DEF Join
<1>2. CASE ~ (getThread(t) = Null \/ getThread(c) = Null)
  <2>1. /\ runQ' = Null /\ arg' = [arg EXCEPT ![t] = c] /\ pc' = [pc EXCEPT ![t] = "join_push"]
        /\ pc[t] = "user" /\ c \in Made
        /\ UNCHANGED << readyQ, waitQ, link, joinVars, tcbVars, isPushed, sched, sigVars, rest >>
    BY <1>2 DEF Join, AtCall, MayJoin, Goto, Made
  <2>2. TypeOK'
    BY <2>1 DEF Inv, TypeOK, Pointer
  <2>3. PointersLead'
    BY <2>1 DEF Inv, PointersLead, Made, MadePointer, QueueIn, LinksIn
  <2>4. MadeByWrapper' /\ ParentsLead' /\ ArgsLead'
    BY <2>1, Advance DEF Made, Pointer
  <2> QED BY <2>2, <2>3, <2>4 DEF Inv
<1> QED BY <1>1, <1>2

\* The parent queues itself in the wait queue.
LEMMA JoinPushKeeps == ASSUME Inv, NEW t \in Thread, JoinPush(t) PROVE Inv'
<1>1. pc[t] = "join_push" /\ t \in Made
  BY DEF Inv, TypeOK, MadeByWrapper, ArgsLead, Made, JoinPush, At
<1>2. QueuesKept /\ QueuesLead(MadePointer)
  BY <1>1, WaitPush DEF JoinPush, Made, MadePointer, Pointer
<1>3. TypeOK'
  BY <1>2 DEF Inv, TypeOK, QueuesKept, Pointer, JoinPush, Goto
<1>4. PointersLead'
  BY <1>2 DEF Inv, PointersLead, QueuesLead, Made, MadePointer, JoinPush
<1>5. MadeByWrapper' /\ ParentsLead' /\ ArgsLead'
  BY <1>1, AdvanceSame DEF Inv, ArgsLead, Made, Pointer, JoinPush, Goto
<1> QED BY <1>3, <1>4, <1>5 DEF Inv

\* Marking the child's join structure, or not.
LEMMA JoinCheckKeeps == ASSUME Inv, NEW t \in Thread, JoinCheck(t) PROVE Inv'
<1>1. pc[t] = "join_check" /\ arg[t] \in Made
  BY DEF Inv, ArgsLead, JoinCheck, At
<1>2. CASE jq_search(arg[t]) = Null
  BY <1>2, CrashKeeps DEF JoinCheck
<1>3. CASE jq_search(arg[t]) # Null
  <2>1. /\ tcb' = [tcb EXCEPT ![t].bRunnable = FALSE]
        /\ UNCHANGED << queueVars, joinQ, jlink, mem, isPushed, sched, arg, sigVars, rest >>
        /\ \/ jcb' = [jcb EXCEPT ![arg[t]] = t] /\ pc' = [pc EXCEPT ![t] = "join_enter"]
           \/ jcb' = jcb /\ pc' = [pc EXCEPT ![t] = "join_collect"]
    BY <1>3 DEF JoinCheck, Goto
  <2>2. TypeOK'
    <3>1. tcb' \in [Thread -> TcbType]
      BY <2>1, StoreRunnable DEF Inv, TypeOK
    <3>2. jcb' \in [Thread -> Thread \cup {Main, Null}] /\ pc' \in [Thread -> PcType]
      BY <1>1, <2>1 DEF Inv, TypeOK, Made
    <3> QED BY <2>1, <3>1, <3>2 DEF Inv, TypeOK
  <2>3. PointersLead'
    BY <2>1, SamePointers DEF Inv, Made
  <2>4. \A u \in Thread : tcb'[u].parentTid = tcb[u].parentTid
    BY <2>1 DEF Inv, TypeOK, TcbType
  <2>5. MadeByWrapper' /\ ParentsLead' /\ ArgsLead'
    BY <1>1, <2>1, <2>4, AdvanceSame DEF Made
  <2> QED BY <2>2, <2>3, <2>5 DEF Inv
<1> QED BY <1>2, <1>3

\* Reading the exit code.
LEMMA JoinCollectKeeps == ASSUME Inv, NEW t \in Thread, JoinCollect(t) PROVE Inv'
<1>1. TypeOK'
  BY NoThreads DEF Inv, TypeOK, TcbType, Pointer, Made, ArgsLead, JoinCollect, At, Goto
<1>2. PointersLead'
  BY SamePointers DEF Inv, Made, JoinCollect, At, Goto
<1>3. MadeByWrapper' /\ ParentsLead' /\ ArgsLead'
  BY AdvanceSame DEF Inv, ArgsLead, Made, JoinCollect, At, Goto
<1> QED BY <1>1, <1>2, <1>3 DEF Inv

\* A freed TCB stays one that was made.
LEMMA JoinFreeKeeps == ASSUME Inv, NEW t \in Thread, JoinFree(t) PROVE Inv'
<1>1. pc[t] = "join_free" /\ arg[t] \in Made
  BY DEF Inv, ArgsLead, JoinFree, At
<1>2. QueuesKept /\ QueuesLead(MadePointer)
  BY <1>1, ReadyRemove DEF JoinFree, Made
<1>3. joinQ' \in QueueType /\ jlink' \in LinkType
  BY <1>1, JoinQueueKept DEF JoinFree, Made
<1>4. Made' = Made /\ MadePointer' = MadePointer
  BY <1>1 DEF Inv, TypeOK, Made, MadePointer, JoinFree
<1>5. TypeOK'
  BY <1>1, <1>2, <1>3 DEF Inv, TypeOK, QueuesKept, Made, Pointer, JoinFree, Leave, Goto
<1>6. PointersLead'
  BY <1>2, <1>4 DEF Inv, PointersLead, QueuesLead, JoinFree
<1>7. MadeByWrapper' /\ ParentsLead' /\ ArgsLead'
  BY <1>1, <1>4, Advance DEF Pointer, JoinFree, Leave, Goto
<1> QED BY <1>5, <1>6, <1>7 DEF Inv

-----------------------------------------------------------------------------
(* thread_exit *)

\* Whether the TCB is its own or the one in RunQHead, it is one; so is the parent's.
LEMMA ExitKeeps == ASSUME Inv, NEW t \in Thread, Exit(t) PROVE Inv'
<1> DEFINE me == IF getThread(t) # Null THEN t ELSE runQ
           parent == tcb[me].parentTid
           l == IF getThread(parent) = Null THEN "exit_code"
                ELSE IF jcb[t] = parent THEN "exit_wake" ELSE "exit_mark"
<1>1. CASE me = Null \/ (getThread(parent) # Null /\ jq_search(t) = Null)
  BY <1>1, CrashKeeps DEF Exit
<1>2. CASE ~ (me = Null \/ (getThread(parent) # Null /\ jq_search(t) = Null))
  <2>1. /\ pc[t] = "user"
        /\ arg' = [arg EXCEPT ![t] = me] /\ pc' = [pc EXCEPT ![t] = l]
        /\ UNCHANGED << queueVars, joinVars, tcbVars, isPushed, sched, sigVars, rest >>
    BY <1>2 DEF Exit, AtCall, Goto
  <2>2. me \in Made
    <3>1. t \in Made /\ runQ \in MadePointer
      BY <2>1 DEF Inv, MadeByWrapper, PointersLead, Made
    <3> QED BY <1>2, <3>1 DEF MadePointer
  <2>3. getThread(parent) # Null => parent \in Made
    <3>1. parent \in MadePointer \cup {Main}
      BY <2>2 DEF Inv, ParentsLead, Made
    <3>2. getThread(parent) # Null => parent \in Thread
      BY GetThreadFinds DEF Inv
    <3> QED BY <3>1, <3>2, NoThreads DEF MadePointer
  <2> HIDE DEF me
  <2>4. TypeOK'
    BY <2>1, <2>2 DEF Inv, TypeOK, Made, Pointer
  <2>5. PointersLead'
    BY <2>1, SamePointers DEF Inv, Made
  <2>6. MadeByWrapper' /\ ParentsLead' /\ ArgsLead'
    BY <2>1, <2>2, <2>3, Advance DEF Made, Pointer
  <2> QED BY <2>4, <2>5, <2>6 DEF Inv
<1> QED BY <1>1, <1>2

\* The parent leaves the wait queue ...
LEMMA ExitWakeKeeps == ASSUME Inv, NEW t \in Thread, ExitWake(t) PROVE Inv'
<1>1. pc[t] = "exit_wake" /\ ParentOf(t) \in Made /\ arg[t] \in Made
  BY DEF Inv, ArgsLead, ExitWake, At
<1>2. QueuesKept /\ QueuesLead(MadePointer)
  BY <1>1, WaitRemove DEF ExitWake, Made, MadePointer, Pointer
<1>3. TypeOK'
  BY <1>2 DEF Inv, TypeOK, QueuesKept, ExitWake, Goto
<1>4. PointersLead'
  BY <1>2 DEF Inv, PointersLead, QueuesLead, Made, MadePointer, ExitWake
<1>5. MadeByWrapper' /\ ParentsLead' /\ ArgsLead'
  BY <1>1, AdvanceSame DEF Inv, Made, ExitWake, Goto
<1> QED BY <1>3, <1>4, <1>5 DEF Inv

\* ... and queues up: a thread with a TCB, as the search has shown.
LEMMA ExitPushKeeps == ASSUME Inv, NEW t \in Thread, ExitPush(t) PROVE Inv'
<1>1. pc[t] = "exit_push" /\ ParentOf(t) \in Made /\ arg[t] \in Made
  BY DEF Inv, ArgsLead, ExitPush, At
<1>2. QueuesKept /\ QueuesLead(MadePointer)
  BY <1>1, ReadyPush DEF ExitPush, Made, MadePointer, Pointer
<1>3. TypeOK'
  BY <1>2 DEF Inv, TypeOK, QueuesKept, ExitPush, Goto
<1>4. PointersLead'
  BY <1>2 DEF Inv, PointersLead, QueuesLead, Made, MadePointer, ExitPush
<1>5. MadeByWrapper' /\ ParentsLead' /\ ArgsLead'
  BY <1>1, AdvanceSame DEF Inv, Made, ExitPush, Goto
<1> QED BY <1>3, <1>4, <1>5 DEF Inv

\* Only the join structure changes.
LEMMA ExitMarkKeeps == ASSUME Inv, NEW t \in Thread, ExitMark(t) PROVE Inv'
<1>1. pc[t] = "exit_mark" /\ ParentOf(t) \in Made /\ arg[t] \in Made
  BY DEF Inv, ArgsLead, ExitMark, At
<1>2. TypeOK' /\ PointersLead'
  BY <1>1, SamePointers DEF Inv, TypeOK, Made, ExitMark, Goto
<1>3. MadeByWrapper' /\ ParentsLead' /\ ArgsLead'
  BY <1>1, AdvanceSame DEF Made, ExitMark, Goto
<1> QED BY <1>2, <1>3 DEF Inv

\* Only pExitCode changes.
LEMMA ExitCodeKeeps == ASSUME Inv, NEW t \in Thread, ExitCode(t) PROVE Inv'
<1>1. /\ pc[t] = "exit_code" /\ arg[t] \in Made
      /\ tcb' = [tcb EXCEPT ![arg[t]].pExitCode = t]
  BY DEF Inv, ArgsLead, ExitCode, At
<1>2. TypeOK'
  BY <1>1 DEF Inv, TypeOK, TcbType, Made, Pointer, ExitCode, Leave, Goto
<1>3. PointersLead'
  BY SamePointers DEF Inv, Made, ExitCode
<1>4. \A u \in Thread : tcb'[u].parentTid = tcb[u].parentTid
  BY <1>1 DEF Inv, TypeOK, TcbType
<1>5. MadeByWrapper' /\ ParentsLead' /\ ArgsLead'
  BY <1>1, <1>4, Advance DEF Made, Pointer, ExitCode, Leave, Goto
<1> QED BY <1>2, <1>3, <1>5 DEF Inv

\* The thread just ends.
LEMMA ReturnKeeps == ASSUME Inv, NEW t \in Thread, Return(t) PROVE Inv'
<1>1. TypeOK'
  BY NoThreads DEF Inv, TypeOK, TcbType, Pointer, Made, ArgsLead, Return, AtCall, Goto
<1>2. PointersLead'
  BY SamePointers DEF Inv, Made, Return, AtCall, Goto
<1>3. MadeByWrapper' /\ ParentsLead' /\ ArgsLead'
  BY AdvanceSame DEF Inv, ArgsLead, Made, Return, AtCall, Goto
<1> QED BY <1>1, <1>2, <1>3 DEF Inv

-----------------------------------------------------------------------------
(* thread_suspend and thread_resume *)

\* The suspended thread leaves the ready queue ...
LEMMA SuspendKeeps == ASSUME Inv, NEW t \in Thread, NEW c \in Thread, Suspend(t, c) PROVE Inv'
<1>1. /\ pc[t] = "user" /\ c \in Made
      /\ arg' = [arg EXCEPT ![t] = c] /\ pc' = [pc EXCEPT ![t] = "suspend_push"]
  BY DEF Suspend, AtCall, Made, Goto
<1>2. QueuesKept /\ QueuesLead(MadePointer)
  BY ReadyRemove DEF Suspend
<1>3. TypeOK'
  BY <1>1, <1>2 DEF Inv, TypeOK, QueuesKept, Pointer, Suspend
<1>4. PointersLead'
  BY <1>2 DEF Inv, PointersLead, QueuesLead, Made, MadePointer, Suspend
<1>5. MadeByWrapper' /\ ParentsLead' /\ ArgsLead'
  BY <1>1, Advance DEF Made, Pointer, Suspend
<1> QED BY <1>3, <1>4, <1>5 DEF Inv

\* ... and enters the wait queue.
LEMMA SuspendPushKeeps == ASSUME Inv, NEW t \in Thread, SuspendPush(t) PROVE Inv'
<1>1. pc[t] = "suspend_push" /\ arg[t] \in Made
  BY DEF Inv, TypeOK, MadeByWrapper, ArgsLead, Made, SuspendPush, At
<1>2. QueuesKept /\ QueuesLead(MadePointer)
  BY <1>1, WaitPush DEF SuspendPush, Made, MadePointer, Pointer
<1>3. TypeOK'
  BY <1>2 DEF Inv, TypeOK, QueuesKept, Pointer, SuspendPush, Leave, Goto
<1>4. PointersLead'
  BY <1>2 DEF Inv, PointersLead, QueuesLead, Made, MadePointer, SuspendPush
<1>5. MadeByWrapper' /\ ParentsLead' /\ ArgsLead'
  BY <1>1, Advance DEF Inv, ArgsLead, Made, Pointer, SuspendPush, Leave, Goto
<1> QED BY <1>3, <1>4, <1>5 DEF Inv

\* The resumed thread leaves the wait queue ...
LEMMA ResumeKeeps == ASSUME Inv, NEW t \in Thread, NEW c \in Thread, Resume(t, c) PROVE Inv'
<1>1. /\ pc[t] = "user" /\ c \in Made
      /\ arg' = [arg EXCEPT ![t] = c] /\ pc' = [pc EXCEPT ![t] = "resume_push"]
  BY DEF Resume, AtCall, Made, Goto
<1>2. QueuesKept /\ QueuesLead(MadePointer)
  BY WaitRemove DEF Resume
<1>3. TypeOK'
  BY <1>1, <1>2 DEF Inv, TypeOK, QueuesKept, Pointer, Resume
<1>4. PointersLead'
  BY <1>2 DEF Inv, PointersLead, QueuesLead, Made, MadePointer, Resume
<1>5. MadeByWrapper' /\ ParentsLead' /\ ArgsLead'
  BY <1>1, Advance DEF Made, Pointer, Resume
<1> QED BY <1>3, <1>4, <1>5 DEF Inv

\* ... and enters the ready queue.
LEMMA ResumePushKeeps == ASSUME Inv, NEW t \in Thread, ResumePush(t) PROVE Inv'
<1>1. pc[t] = "resume_push" /\ arg[t] \in Made
  BY DEF Inv, TypeOK, MadeByWrapper, ArgsLead, Made, ResumePush, At
<1>2. QueuesKept /\ QueuesLead(MadePointer)
  BY <1>1, ReadyPush DEF ResumePush, Made, MadePointer, Pointer
<1>3. TypeOK'
  BY <1>2 DEF Inv, TypeOK, QueuesKept, Pointer, ResumePush, Leave, Goto
<1>4. PointersLead'
  BY <1>2 DEF Inv, PointersLead, QueuesLead, Made, MadePointer, ResumePush
<1>5. MadeByWrapper' /\ ParentsLead' /\ ArgsLead'
  BY <1>1, Advance DEF Inv, ArgsLead, Made, Pointer, ResumePush, Leave, Goto
<1> QED BY <1>3, <1>4, <1>5 DEF Inv

-----------------------------------------------------------------------------
(* RunScheduler and SIGUSR1: no thread moves to another statement. *)

\* A step that leaves statements, arguments and parents alone.
LEMMA Stay ==
  ASSUME Inv, UNCHANGED << pc, arg, mem >>, \A u \in Thread : tcb'[u].parentTid = tcb[u].parentTid
  PROVE  MadeByWrapper' /\ ParentsLead' /\ ArgsLead' /\ Made' = Made
BY DEF Inv, MadeByWrapper, ParentsLead, ArgsLead, ParentOf, Made, MadePointer

\* pCurThread is RunQHead, and not NULL when there is one to preempt.
LEMMA SchedReadKeeps == ASSUME Inv, SchedRead PROVE Inv'
<1>1. TypeOK'
  BY DEF Inv, TypeOK, Pointer, SchedRead
<1>2. PointersLead'
  BY DEF Inv, TypeOK, PointersLead, QueueIn, LinksIn, Made, MadePointer, SchedRead
<1> QED BY <1>1, <1>2, Stay DEF Inv, SchedRead

\* The preempted thread has a TCB and is queued again.
LEMMA SchedPreemptKeeps == ASSUME Inv, SchedPreempt PROVE Inv'
<1>1. sched.cur \in Made /\ tcb' = [tcb EXCEPT ![sched.cur].bRunnable = FALSE]
  BY DEF Inv, PointersLead, MadePointer, SchedPreempt
<1>2. QueuesKept /\ QueuesLead(MadePointer)
  BY <1>1, ReadyPush DEF SchedPreempt, Made, MadePointer, Pointer
<1>3. sched' = [sched EXCEPT !.pc = "dispatch"] \/ sched' = [sched EXCEPT !.pc = "tick"]
  BY DEF SchedPreempt
<1>4. sig' \in [Thread -> BOOLEAN]
  BY <1>1 DEF Inv, TypeOK, Made, SchedPreempt
<1>5. TypeOK'
  <2>1. tcb' \in [Thread -> TcbType]
    BY <1>1, StoreRunnable DEF Inv, TypeOK, Made
  <2>2. sched' \in [pc : {"tick", "preempt", "dispatch", "set"},
                    cur : Pointer, new : Pointer, armed : BOOLEAN]
    BY <1>3 DEF Inv, TypeOK
  <2> QED BY <1>2, <1>4, <2>1, <2>2 DEF Inv, TypeOK, QueuesKept, SchedPreempt
<1>6. PointersLead'
  BY <1>2, <1>3 DEF Inv, TypeOK, PointersLead, QueuesLead, Made, MadePointer, SchedPreempt
<1>7. \A u \in Thread : tcb'[u].parentTid = tcb[u].parentTid
  BY <1>1 DEF Inv, TypeOK, TcbType
<1> QED BY <1>5, <1>6, <1>7, Stay DEF Inv, SchedPreempt

\* The head of the ready queue is taken.
LEMMA SchedDispatchKeeps == ASSUME Inv, SchedDispatch PROVE Inv'
<1>1. CASE readyQ.head = Null
  BY <1>1, CrashKeeps DEF SchedDispatch
<1>2. CASE readyQ.head # Null
  <2>1. /\ readyQ.head \in Made
        /\ tcb' = [tcb EXCEPT ![readyQ.head].bRunnable = TRUE]
        /\ sched' = [sched EXCEPT !.pc = "set", !.new = readyQ.head]
        /\ rq_pop
        /\ UNCHANGED << waitQ, runQ, joinVars, mem, isPushed, ctlVars, sigVars, rest >>
    BY <1>2 DEF Inv, PointersLead, QueueIn, MadePointer, SchedDispatch
  <2>2. QueuesKept /\ QueuesLead(MadePointer)
    BY <1>2, <2>1, ReadyPop
  <2>3. TypeOK'
    <3>1. tcb' \in [Thread -> TcbType]
      BY <2>1, StoreRunnable DEF Inv, TypeOK, Made
    <3>2. sched' \in [pc : {"tick", "preempt", "dispatch", "set"},
                      cur : Pointer, new : Pointer, armed : BOOLEAN]
      BY <2>1 DEF Inv, TypeOK, Made, Pointer
    <3> QED BY <2>1, <2>2, <3>1, <3>2 DEF Inv, TypeOK, QueuesKept
  <2>4. PointersLead'
    BY <2>1, <2>2 DEF Inv, TypeOK, PointersLead, QueuesLead, Made, MadePointer
  <2>5. \A u \in Thread : tcb'[u].parentTid = tcb[u].parentTid
    BY <2>1 DEF Inv, TypeOK, TcbType
  <2> QED BY <2>1, <2>3, <2>4, <2>5, Stay DEF Inv
<1> QED BY <1>1, <1>2

\* RunQHead becomes the thread that was taken.
LEMMA SchedSetKeeps == ASSUME Inv, SchedSet PROVE Inv'
<1>1. TypeOK'
  BY DEF Inv, TypeOK, Pointer, SchedSet
<1>2. PointersLead'
  BY DEF Inv, TypeOK, PointersLead, QueueIn, LinksIn, Made, MadePointer, SchedSet
<1> QED BY <1>1, <1>2, Stay DEF Inv, SchedSet

\* The handler begins ...
LEMMA TakeSignalKeeps == ASSUME Inv, NEW t \in Thread, TakeSignal(t) PROVE Inv'
<1>1. CASE getThread(t) = Null
  BY <1>1, CrashKeeps DEF TakeSignal
<1>2. CASE getThread(t) # Null
  <2>1. TypeOK'
    <3>1. sig' \in [Thread -> BOOLEAN] /\ inHandler' \in [Thread -> BOOLEAN]
      BY <1>2 DEF Inv, TypeOK, TakeSignal
    <3> QED BY <1>2, <3>1 DEF Inv, TypeOK, TakeSignal
  <2>2. PointersLead'
    BY <1>2, SamePointers DEF Inv, Made, TakeSignal
  <2> QED BY <1>2, <2>1, <2>2, Stay DEF Inv, TakeSignal
<1> QED BY <1>1, <1>2

\* ... and ends.
LEMMA HandlerReturnKeeps == ASSUME Inv, NEW t \in Thread, HandlerReturn(t) PROVE Inv'
<1> QED BY Stay, SamePointers DEF Inv, TypeOK, HandlerReturn

-----------------------------------------------------------------------------
\* Root has its TCB and waits in the ready queue.
LEMMA InitInv == Init => Inv
<1> SUFFICES ASSUME Init PROVE Inv
  OBVIOUS
<1>1. TypeOK
  <2>1. {readyQ, waitQ, joinQ} \subseteq QueueType /\ {link, jlink} \subseteq LinkType
    BY NoThreads DEF Init, QueueType, LinkType, Pointer, EmptyQueue, NoLinks
  <2>2. tcb \in [Thread -> TcbType]
    BY DEF Init, TcbType, NewTcb
  <2> QED BY <2>1, <2>2, NoThreads DEF Init, TypeOK, Pointer
<1>2. Made = {Root} /\ MadePointer = {Root, Null}
  BY NoThreads DEF Init, Made, MadePointer
<1>3. MadeByWrapper
  BY DEF Init, MadeByWrapper
<1>4. PointersLead
  BY <1>2 DEF Init, PointersLead, QueueIn, LinksIn, EmptyQueue, NoLinks
<1>5. ParentsLead
  BY <1>2 DEF Init, ParentsLead, NewTcb
<1>6. ArgsLead
  BY DEF Init, ArgsLead
<1> QED BY <1>1, <1>3, <1>4, <1>5, <1>6 DEF Inv

\* Every step keeps the invariant.
LEMMA NextKeeps == ASSUME Inv, [Next]_vars PROVE Inv'
<1>1. CASE UNCHANGED vars
  BY <1>1 DEF Inv, TypeOK, MadeByWrapper, PointersLead, ParentsLead, ArgsLead, ParentOf,
              Made, MadePointer, QueueIn, LinksIn
<1>2. CASE RunScheduler
  BY <1>2, SchedReadKeeps, SchedPreemptKeeps, SchedDispatchKeeps, SchedSetKeeps DEF RunScheduler
<1>3. ASSUME NEW t \in Thread, Call(t) PROVE Inv'
  BY <1>3, CreateKeeps, JoinKeeps, SuspendKeeps, ResumeKeeps, ExitKeeps, ReturnKeeps DEF Call
<1>4. ASSUME NEW t \in Thread, Continue(t) PROVE Inv'
  <2>1. CASE CreateCheck(t) \/ WrapTcb(t) \/ WrapJcb(t) \/ WrapFlag(t) \/ WrapSignal(t)
    BY <2>1, CreateCheckKeeps, WrapTcbKeeps, WrapJcbKeeps, WrapFlagKeeps, WrapSignalKeeps
  <2>2. CASE WrapEnter(t) \/ JoinEnter(t)
    BY <2>2, WaitEnterKeeps DEF WrapEnter, JoinEnter
  <2>3. CASE WrapRun(t) \/ JoinReturn(t)
    BY <2>3, WaitReturnKeeps DEF WrapRun, JoinReturn
  <2>4. CASE JoinPush(t) \/ JoinCheck(t) \/ JoinCollect(t) \/ JoinFree(t)
    BY <2>4, JoinPushKeeps, JoinCheckKeeps, JoinCollectKeeps, JoinFreeKeeps
  <2>5. CASE ExitWake(t) \/ ExitPush(t) \/ ExitMark(t) \/ ExitCode(t)
    BY <2>5, ExitWakeKeeps, ExitPushKeeps, ExitMarkKeeps, ExitCodeKeeps
  <2>6. CASE SuspendPush(t) \/ ResumePush(t)
    BY <2>6, SuspendPushKeeps, ResumePushKeeps
  <2> QED BY <1>4, <2>1, <2>2, <2>3, <2>4, <2>5, <2>6 DEF Continue
<1>5. ASSUME NEW t \in Thread, Handler(t) PROVE Inv'
  BY <1>5, TakeSignalKeeps, HandlerReturnKeeps DEF Handler
<1> QED BY <1>1, <1>2, <1>3, <1>4, <1>5 DEF Next

\* Hence it holds in every reachable state.
LEMMA InvHolds == Spec => []Inv
<1>1. Init => Inv
  BY InitInv
<1>2. Inv /\ [Next]_vars => Inv'
  BY NextKeeps
<1> QED BY <1>1, <1>2, PTL DEF Spec

\* The variables keep their types, and no parentTid is garbage, for any set of
\* threads, calls and ticks.
THEOREM TypeCorrect == Spec => []TypeOK
<1>1. Inv => TypeOK
  BY DEF Inv
<1> QED BY <1>1, InvHolds, PTL

\* Queues, links, RunQHead and the scheduler's own variables lead to threads
\* whose TCB has been made, and a thread inside thread_exit has found its
\* parent before it stores to it.
THEOREM NoWildPointers == Spec => [](PointersLead /\ ParentsLead /\ ArgsLead)
<1>1. Inv => PointersLead /\ ParentsLead /\ ArgsLead
  BY DEF Inv
<1> QED BY <1>1, InvHolds, PTL

-----------------------------------------------------------------------------
(* The lemmas on queues, said of the scheduler's *)

\* The operators of the two instances are the same.
LEMMA SameOperators ==
  /\ \A q, l, n : Q!Push(q, l, n) = Push(q, l, n)
  /\ \A q, l, n : Q!Remove(q, l, n) = Remove(q, l, n)
  /\ \A q, l : Q!Pop(q, l) = Pop(q, l)
  /\ \A s, i : Q!Without(s, i) = Without(s, i)
  /\ \A s, i : Q!RemovablePosition(s, i) <=> RemovablePosition(s, i)
  /\ \A s : Q!NodesOf(s) = NodesOf(s)
  /\ \A q, l, s : Q!Represents(q, l, s) <=> Represents(q, l, s)
  /\ Q!QueueType = QueueType /\ Q!LinkType = LinkType
<1>1. \A q, l, n : Q!Push(q, l, n) = Push(q, l, n)
  BY Zenon DEF Q!Push, Push
<1>2. \A q, l, n : Q!Remove(q, l, n) = Remove(q, l, n)
  BY Zenon DEF Q!Remove, Remove
<1>3. \A q, l : Q!Pop(q, l) = Pop(q, l)
  BY Zenon DEF Q!Pop, Pop
<1>4. \A s, i : Q!Without(s, i) = Without(s, i)
  BY Zenon DEF Q!Without, Without
<1>5. \A s, i : Q!RemovablePosition(s, i) <=> RemovablePosition(s, i)
  BY Zenon DEF Q!RemovablePosition, RemovablePosition
<1>6. \A s : Q!NodesOf(s) = NodesOf(s)
  BY Zenon DEF Q!NodesOf, NodesOf
<1>7. \A q, l, s : Q!Represents(q, l, s) <=> Represents(q, l, s)
  BY Zenon DEF Q!Represents, Represents, Q!Distinct, Distinct,
     Q!NextInSeq, NextInSeq, Q!PrevInSeq, PrevInSeq
<1>8. Q!QueueType = QueueType /\ Q!LinkType = LinkType
  BY Zenon DEF Q!QueueType, QueueType, Q!LinkType, LinkType, Q!Pointer, Pointer
<1> QED BY <1>1, <1>2, <1>3, <1>4, <1>5, <1>6, <1>7, <1>8

\* So are the walks.
LEMMA SameWalks ==
  ASSUME NEW q, NEW l
  PROVE  Q!Walk(q, l) = Walk(q, l) /\ Q!Members(q, l) = Members(q, l)
<1>1. \A S : Q!Cardinality(S) = Cardinality(S)
  BY Zenon DEF Q!Cardinality, Cardinality
<1>2. Q!Walk(q, l) = Walk(q, l)
  BY <1>1, Zenon DEF Q!Walk, Walk, Q!Pointer, Pointer
<1> QED BY <1>2, Zenon DEF Q!Members, Members

\* What the instance assumes.
LEMMA Assumed == Null \notin Thread /\ Q!IsFiniteSet(Thread)
<1>1. Q!IsFiniteSet(Thread)
  BY SchedulerAssumption, Zenon DEF Q!IsFiniteSet, IsFiniteSet
<1> QED BY <1>1, NoThreads

\* Two queues, what they hold and what a search of them finds.
LEMMA TwoQueuesHold ==
  ASSUME NEW a, NEW b, NEW l, NEW s, NEW u, Q!TwoQueues(a, b, l, s, u, {})
  PROVE  /\ a \in QueueType /\ b \in QueueType /\ l \in LinkType
         /\ s \in Seq(Thread) /\ u \in Seq(Thread)
         /\ Walk(a, l) = s /\ Walk(b, l) = u
         /\ Members(a, l) = NodesOf(s) /\ Members(b, l) = NodesOf(u)
         /\ Represents(a, l, s) /\ Represents(b, l, u)
         /\ Members(a, l) \cap Members(b, l) = {}
         /\ \A t \in Thread \ (Members(a, l) \cup Members(b, l)) :
              l.next[t] = Null /\ l.prev[t] = Null
<1>0. Null \notin Thread
  BY NoThreads
<1>1. Q!Linked(a, l, s) /\ Q!Linked(b, l, u)
  BY DEF Q!TwoQueues
<1>2. /\ a \in QueueType /\ b \in QueueType /\ l \in LinkType
      /\ s \in Seq(Thread) /\ u \in Seq(Thread)
      /\ Q!Represents(a, l, s) /\ Q!Represents(b, l, u)
  BY <1>1, SameOperators DEF Q!Linked
<1>3. Q!Walk(a, l) = s /\ Q!Walk(b, l) = u
  BY <1>0, <1>2, Assumed, Q!WalkFollows
<1>4. Q!Members(a, l) = Q!NodesOf(s) /\ Q!Members(b, l) = Q!NodesOf(u)
  BY <1>0, <1>1, <1>3, Q!SearchFinds
<1>5. Walk(a, l) = s /\ Walk(b, l) = u /\ Members(a, l) = NodesOf(s) /\ Members(b, l) = NodesOf(u)
  BY <1>3, <1>4, SameOperators, SameWalks
<1> QED BY <1>2, <1>5, SameOperators DEF Q!TwoQueues

\* The ready and the wait queue as two queues that share their links.
LEMMA QueuesAreTwo ==
  ASSUME TypeOK, TcbQueues
  PROVE  /\ Q!TwoQueues(readyQ, waitQ, link, Walk(readyQ, link), Walk(waitQ, link), {})
         /\ Ready = NodesOf(Walk(readyQ, link)) /\ Waiting = NodesOf(Walk(waitQ, link))
<1> DEFINE s == Walk(readyQ, link)
           u == Walk(waitQ, link)
<1>0. Null \notin Thread
  BY NoThreads
<1>1. Q!Linked(readyQ, link, s) /\ Q!Linked(waitQ, link, u)
  BY SameOperators DEF TypeOK, TcbQueues, QueuesWellLinked, Q!Linked
<1>2. Q!Members(readyQ, link) = Q!NodesOf(s) /\ Q!Members(waitQ, link) = Q!NodesOf(u)
  BY <1>0, <1>1, SameWalks, Q!SearchFinds
<1>3. Ready = NodesOf(s) /\ Waiting = NodesOf(u)
  BY <1>2, SameWalks, SameOperators DEF Ready, Waiting
<1> HIDE DEF s, u
<1>4. Q!TwoQueues(readyQ, waitQ, link, s, u, {})
  BY <1>1, <1>3, SameOperators DEF TcbQueues, QueuesWellLinked, Q!TwoQueues
<1> QED BY <1>3, <1>4 DEF s, u

\* The other way round, after a step.
LEMMA TwoAreQueues ==
  ASSUME NEW s, NEW u, Q!TwoQueues(readyQ', waitQ', link', s, u, {}), parked' = {}
  PROVE  /\ TcbQueues'
         /\ Walk(readyQ', link') = s /\ Walk(waitQ', link') = u
         /\ Ready' = NodesOf(s) /\ Waiting' = NodesOf(u)
<1>1. /\ s \in Seq(Thread) /\ u \in Seq(Thread)
      /\ Walk(readyQ', link') = s /\ Walk(waitQ', link') = u
      /\ Ready' = NodesOf(s) /\ Waiting' = NodesOf(u)
      /\ Represents(readyQ', link', s) /\ Represents(waitQ', link', u)
      /\ Ready' \cap Waiting' = {}
      /\ \A t \in Thread \ (Ready' \cup Waiting') : link'.next[t] = Null /\ link'.prev[t] = Null
  BY TwoQueuesHold DEF Ready, Waiting
<1>2. QueuesWellLinked'
  BY <1>1 DEF QueuesWellLinked
<1> QED BY <1>1, <1>2 DEF TcbQueues

\* Nothing is queued that is not, and the head of an empty queue is NULL.
LEMMA HeadOfReady ==
  ASSUME TypeOK, TcbQueues
  PROVE  /\ readyQ.head = Null <=> Ready = {}
         /\ readyQ.head # Null => readyQ.head \in Ready
<1>0. Null \notin Thread
  BY NoThreads
<1>1. Q!Linked(readyQ, link, Walk(readyQ, link))
  BY QueuesAreTwo DEF Q!TwoQueues
<1>2. /\ readyQ.head = Null <=> Q!Members(readyQ, link) = {}
      /\ readyQ.head # Null => readyQ.head \in Q!Members(readyQ, link)
  BY <1>0, <1>1, SameWalks, Q!SearchFinds
<1> QED BY <1>2, SameWalks DEF Ready

\* rq_push of a thread in neither queue.
LEMMA RqPush ==
  ASSUME TypeOK, TcbQueues, NEW n \in Thread \ (Ready \cup Waiting),
         rq_push(n), waitQ' = waitQ, parked' = parked
  PROVE  /\ TcbQueues' /\ Ready' = Ready \cup {n} /\ Waiting' = Waiting
         /\ Walk(readyQ', link') = Append(Walk(readyQ, link), n)
<1> DEFINE s == Walk(readyQ, link)
           u == Walk(waitQ, link)
<1>0. Null \notin Thread
  BY NoThreads
<1>1. Q!TwoQueues(readyQ, waitQ, link, s, u, {}) /\ Ready = NodesOf(s) /\ Waiting = NodesOf(u)
  BY QueuesAreTwo
<1> HIDE DEF s, u
<1>2. n \in Thread \ (Q!NodesOf(s) \cup Q!NodesOf(u) \cup {})
  BY <1>1, SameOperators
<1>3. LET r == Q!Push(readyQ, link, n)
      IN /\ Q!TwoQueues(r.q, waitQ, r.l, Append(s, n), u, {})
         /\ Q!NodesOf(Append(s, n)) = Q!NodesOf(s) \cup {n}
  BY <1>0, <1>1, <1>2, Q!PushKeepsOther
<1>4. Q!TwoQueues(readyQ', waitQ', link', Append(s, n), u, {}) /\ parked' = {}
  BY <1>3, SameOperators DEF rq_push, TcbQueues
<1> QED BY <1>1, <1>3, <1>4, TwoAreQueues, SameOperators DEF s

\* wq_push of one.
LEMMA WqPush ==
  ASSUME TypeOK, TcbQueues, NEW n \in Thread \ (Ready \cup Waiting),
         wq_push(n), readyQ' = readyQ, parked' = parked
  PROVE  /\ TcbQueues' /\ Ready' = Ready /\ Waiting' = Waiting \cup {n}
         /\ Walk(readyQ', link') = Walk(readyQ, link)
<1> DEFINE s == Walk(readyQ, link)
           u == Walk(waitQ, link)
<1>0. Null \notin Thread
  BY NoThreads
<1>1. Q!TwoQueues(readyQ, waitQ, link, s, u, {}) /\ Ready = NodesOf(s) /\ Waiting = NodesOf(u)
  BY QueuesAreTwo
<1> HIDE DEF s, u
<1>2. /\ n \in Thread \ (Q!NodesOf(u) \cup Q!NodesOf(s) \cup {})
      /\ Q!TwoQueues(waitQ, readyQ, link, u, s, {})
  BY <1>0, <1>1, SameOperators, Q!TwoQueuesSwap
<1>3. LET r == Q!Push(waitQ, link, n)
      IN /\ Q!TwoQueues(r.q, readyQ, r.l, Append(u, n), s, {})
         /\ Q!NodesOf(Append(u, n)) = Q!NodesOf(u) \cup {n}
  BY <1>0, <1>2, Q!PushKeepsOther
<1>4. Q!TwoQueues(waitQ', readyQ', link', Append(u, n), s, {}) /\ parked' = {}
  BY <1>3, SameOperators DEF wq_push, TcbQueues
<1>5. Q!TwoQueues(readyQ', waitQ', link', s, Append(u, n), {})
  BY <1>0, <1>4, Q!TwoQueuesSwap
<1> QED BY <1>1, <1>3, <1>4, <1>5, TwoAreQueues, SameOperators DEF s

\* rq_pop of a queue that is not empty.
LEMMA RqPop ==
  ASSUME TypeOK, TcbQueues, readyQ.head # Null, rq_pop, waitQ' = waitQ, parked' = parked
  PROVE  /\ TcbQueues' /\ Ready' = Ready \ {readyQ.head} /\ Waiting' = Waiting
         /\ Walk(readyQ, link) # << >> /\ readyQ.head = Head(Walk(readyQ, link))
         /\ Walk(readyQ', link') = Tail(Walk(readyQ, link))
<1> DEFINE s == Walk(readyQ, link)
           u == Walk(waitQ, link)
<1>0. Null \notin Thread
  BY NoThreads
<1>1. Q!TwoQueues(readyQ, waitQ, link, s, u, {}) /\ Ready = NodesOf(s) /\ Waiting = NodesOf(u)
  BY QueuesAreTwo
<1> HIDE DEF s, u
<1>2. LET r == Q!Pop(readyQ, link)
      IN /\ s # << >> /\ readyQ.head = Head(s)
         /\ Q!TwoQueues(r.q, waitQ, r.l, Tail(s), u, {})
         /\ Q!NodesOf(Tail(s)) = Q!NodesOf(s) \ {readyQ.head}
  BY <1>0, <1>1, Q!PopKeepsOther
<1>3. Q!TwoQueues(readyQ', waitQ', link', Tail(s), u, {}) /\ parked' = {}
  BY <1>2, SameOperators DEF rq_pop, TcbQueues
<1> QED BY <1>1, <1>2, <1>3, TwoAreQueues, SameOperators DEF s

\* rq_remove of a thread the queue holds, where the code is right about it.
LEMMA RqRemove ==
  ASSUME TypeOK, TcbQueues, NEW n \in Ready, Exact(readyQ, link, n),
         rq_remove(n), waitQ' = waitQ, parked' = parked
  PROVE  /\ TcbQueues' /\ Ready' = Ready \ {n} /\ Waiting' = Waiting
         /\ \E i \in DOMAIN Walk(readyQ, link) :
              Walk(readyQ, link)[i] = n /\ Walk(readyQ', link') = Without(Walk(readyQ, link), i)
<1> DEFINE s == Walk(readyQ, link)
           u == Walk(waitQ, link)
<1>0. Null \notin Thread
  BY NoThreads
<1>1. Q!TwoQueues(readyQ, waitQ, link, s, u, {}) /\ Ready = NodesOf(s) /\ Waiting = NodesOf(u)
      /\ DOMAIN s = 1..Len(s)
  BY QueuesAreTwo DEF TcbQueues
<1>2. PICK i \in 1..Len(s) : s[i] = n
  BY <1>1 DEF NodesOf
<1>3. RemovablePosition(s, i)
  BY <1>1, <1>2 DEF Exact
<1> HIDE DEF s, u
<1>4. LET r == Q!Remove(readyQ, link, n)
      IN /\ Q!TwoQueues(r.q, waitQ, r.l, Q!Without(s, i), u, {})
         /\ Q!NodesOf(Q!Without(s, i)) = Q!NodesOf(s) \ {n}
  BY <1>0, <1>1, <1>2, <1>3, SameOperators, Q!RemoveKeepsOther
<1>5. Q!TwoQueues(readyQ', waitQ', link', Without(s, i), u, {}) /\ parked' = {}
  BY <1>4, SameOperators DEF rq_remove, TcbQueues
<1> QED BY <1>1, <1>2, <1>4, <1>5, TwoAreQueues, SameOperators DEF s

\* wq_remove of one.
LEMMA WqRemove ==
  ASSUME TypeOK, TcbQueues, NEW n \in Waiting, Exact(waitQ, link, n),
         wq_remove(n), readyQ' = readyQ, parked' = parked
  PROVE  /\ TcbQueues' /\ Ready' = Ready /\ Waiting' = Waiting \ {n}
         /\ Walk(readyQ', link') = Walk(readyQ, link)
<1> DEFINE s == Walk(readyQ, link)
           u == Walk(waitQ, link)
<1>0. Null \notin Thread
  BY NoThreads
<1>1. Q!TwoQueues(readyQ, waitQ, link, s, u, {}) /\ Ready = NodesOf(s) /\ Waiting = NodesOf(u)
      /\ DOMAIN u = 1..Len(u)
  BY QueuesAreTwo DEF TcbQueues
<1>2. PICK i \in 1..Len(u) : u[i] = n
  BY <1>1 DEF NodesOf
<1>3. RemovablePosition(u, i)
  BY <1>1, <1>2 DEF Exact
<1> HIDE DEF s, u
<1>4. Q!TwoQueues(waitQ, readyQ, link, u, s, {})
  BY <1>0, <1>1, Q!TwoQueuesSwap
<1>5. LET r == Q!Remove(waitQ, link, n)
      IN /\ Q!TwoQueues(r.q, readyQ, r.l, Q!Without(u, i), s, {})
         /\ Q!NodesOf(Q!Without(u, i)) = Q!NodesOf(u) \ {n}
  BY <1>0, <1>2, <1>3, <1>4, SameOperators, Q!RemoveKeepsOther
<1>6. Q!TwoQueues(waitQ', readyQ', link', Without(u, i), s, {}) /\ parked' = {}
  BY <1>5, SameOperators DEF wq_remove, TcbQueues
<1>7. Q!TwoQueues(readyQ', waitQ', link', s, Without(u, i), {})
  BY <1>0, <1>6, Q!TwoQueuesSwap
<1> QED BY <1>1, <1>5, <1>6, <1>7, TwoAreQueues, SameOperators DEF s

\* Two queues of which the second is empty: the join queue.
LEMMA JoinQueueIsOne ==
  ASSUME TypeOK, JoinQueue
  PROVE  /\ Q!TwoQueues(joinQ, EmptyQueue, jlink, Walk(joinQ, jlink), << >>, {})
         /\ JoinMembers = NodesOf(Walk(joinQ, jlink))
<1> DEFINE s == Walk(joinQ, jlink)
<1>0. Null \notin Thread
  BY NoThreads
<1>1. Q!Linked(joinQ, jlink, s)
  BY SameOperators DEF TypeOK, JoinQueue, Q!Linked
<1>2. Q!Linked(EmptyQueue, jlink, << >>)
  <2>1. EmptyQueue \in QueueType /\ jlink \in LinkType
    BY DEF TypeOK, EmptyQueue, QueueType, Pointer
  <2>2. Represents(EmptyQueue, jlink, << >>)
    BY DEF Represents, Distinct, EmptyQueue
  <2> QED BY <2>1, <2>2, SameOperators DEF Q!Linked
<1>3. JoinMembers = NodesOf(s)
  <2>1. Q!Members(joinQ, jlink) = Q!NodesOf(s)
    BY <1>0, <1>1, SameWalks, Q!SearchFinds
  <2> QED BY <2>1, SameWalks, SameOperators DEF JoinMembers
<1>4. NodesOf(<< >>) = {}
  BY DEF NodesOf
<1> HIDE DEF s
<1>5. Q!TwoQueues(joinQ, EmptyQueue, jlink, s, << >>, {})
  BY <1>1, <1>2, <1>3, <1>4, SameOperators DEF JoinQueue, Q!TwoQueues
<1> QED BY <1>3, <1>5 DEF s

\* jq_push of a join structure that is not queued.
LEMMA JqPush ==
  ASSUME TypeOK, JoinQueue, NEW n \in Thread \ JoinMembers, jq_push(n),
         {t \in Live' : pc'[t] # "wrap_jcb"} = {t \in Live : pc[t] # "wrap_jcb"} \cup {n}
  PROVE  JoinQueue'
<1> DEFINE s == Walk(joinQ, jlink)
<1>0. Null \notin Thread
  BY NoThreads
<1>1. Q!TwoQueues(joinQ, EmptyQueue, jlink, s, << >>, {}) /\ JoinMembers = NodesOf(s)
  BY JoinQueueIsOne
<1> HIDE DEF s
<1>2. n \in Thread \ (Q!NodesOf(s) \cup Q!NodesOf(<< >>) \cup {})
  BY <1>1, SameOperators DEF NodesOf
<1>3. LET r == Q!Push(joinQ, jlink, n)
      IN /\ Q!TwoQueues(r.q, EmptyQueue, r.l, Append(s, n), << >>, {})
         /\ Q!NodesOf(Append(s, n)) = Q!NodesOf(s) \cup {n}
  BY <1>0, <1>1, <1>2, Q!PushKeepsOther
<1>4. Q!TwoQueues(joinQ', EmptyQueue, jlink', Append(s, n), << >>, {})
  BY <1>3, SameOperators DEF jq_push
<1>5. /\ Append(s, n) \in Seq(Thread) /\ Walk(joinQ', jlink') = Append(s, n)
      /\ JoinMembers' = JoinMembers \cup {n}
      /\ Represents(joinQ', jlink', Append(s, n))
      /\ Members(EmptyQueue, jlink') = {}
      /\ \A t \in Thread \ (JoinMembers' \cup Members(EmptyQueue, jlink')) :
           jlink'.next[t] = Null /\ jlink'.prev[t] = Null
  <2> DEFINE w == Append(s, n)
  <2>0. Q!TwoQueues(joinQ', EmptyQueue, jlink', w, << >>, {})
    BY <1>4
  <2> HIDE DEF w
  <2>1. /\ w \in Seq(Thread) /\ Walk(joinQ', jlink') = w
        /\ Members(joinQ', jlink') = NodesOf(w)
        /\ Represents(joinQ', jlink', w)
        /\ Members(EmptyQueue, jlink') = NodesOf(<< >>)
        /\ \A t \in Thread \ (Members(joinQ', jlink') \cup Members(EmptyQueue, jlink')) :
             jlink'.next[t] = Null /\ jlink'.prev[t] = Null
    BY <2>0, TwoQueuesHold
  <2>2. NodesOf(<< >>) = {}
    BY DEF NodesOf
  <2>3. NodesOf(w) = NodesOf(s) \cup {n}
    BY <1>3, SameOperators DEF w
  <2> QED BY <2>1, <2>2, <2>3, <1>1 DEF JoinMembers, w
<1> QED BY <1>5 DEF JoinQueue

\* jq_remove of one that is, where the code is right about it.
LEMMA JqRemove ==
  ASSUME TypeOK, JoinQueue, NEW n \in JoinMembers, Exact(joinQ, jlink, n), jq_remove(n),
         {t \in Live' : pc'[t] # "wrap_jcb"} = {t \in Live : pc[t] # "wrap_jcb"} \ {n}
  PROVE  JoinQueue'
<1> DEFINE s == Walk(joinQ, jlink)
<1>0. Null \notin Thread
  BY NoThreads
<1>1. Q!TwoQueues(joinQ, EmptyQueue, jlink, s, << >>, {}) /\ JoinMembers = NodesOf(s)
      /\ DOMAIN s = 1..Len(s) /\ JoinMembers \subseteq Thread
  BY JoinQueueIsOne DEF JoinQueue, JoinMembers, Members
<1>2. PICK i \in 1..Len(s) : s[i] = n
  BY <1>1 DEF NodesOf
<1>3. RemovablePosition(s, i)
  BY <1>1, <1>2 DEF Exact
<1> HIDE DEF s
<1>4. LET r == Q!Remove(joinQ, jlink, n)
      IN /\ Q!TwoQueues(r.q, EmptyQueue, r.l, Q!Without(s, i), << >>, {})
         /\ Q!NodesOf(Q!Without(s, i)) = Q!NodesOf(s) \ {n}
  BY <1>0, <1>1, <1>2, <1>3, SameOperators, Q!RemoveKeepsOther
<1>5. jq_search(n) # Null
  BY <1>0, <1>1 DEF jq_search, Search, JoinMembers
<1>6. Q!TwoQueues(joinQ', EmptyQueue, jlink', Without(s, i), << >>, {})
  BY <1>4, <1>5, SameOperators DEF jq_remove
<1>7. /\ Without(s, i) \in Seq(Thread) /\ Walk(joinQ', jlink') = Without(s, i)
      /\ JoinMembers' = JoinMembers \ {n}
      /\ Represents(joinQ', jlink', Without(s, i))
      /\ Members(EmptyQueue, jlink') = {}
      /\ \A t \in Thread \ (JoinMembers' \cup Members(EmptyQueue, jlink')) :
           jlink'.next[t] = Null /\ jlink'.prev[t] = Null
  <2>1. /\ Without(s, i) \in Seq(Thread) /\ Walk(joinQ', jlink') = Without(s, i)
        /\ Members(joinQ', jlink') = NodesOf(Without(s, i))
        /\ Represents(joinQ', jlink', Without(s, i))
        /\ Members(EmptyQueue, jlink') = NodesOf(<< >>)
        /\ \A t \in Thread \ (Members(joinQ', jlink') \cup Members(EmptyQueue, jlink')) :
             jlink'.next[t] = Null /\ jlink'.prev[t] = Null
    BY <1>6, TwoQueuesHold
  <2>2. NodesOf(<< >>) = {}
    BY DEF NodesOf
  <2>3. NodesOf(Without(s, i)) = NodesOf(s) \ {n}
    BY <1>4, SameOperators
  <2> QED BY <2>1, <2>2, <2>3, <1>1 DEF JoinMembers
<1> QED BY <1>7 DEF JoinQueue

\* Steps that leave the queues alone.
LEMMA QueuesSame ==
  ASSUME TcbQueues, UNCHANGED << readyQ, waitQ, link, parked >>
  PROVE  TcbQueues' /\ Ready' = Ready /\ Waiting' = Waiting
BY DEF TcbQueues, QueuesWellLinked, Ready, Waiting

\* Steps that leave the join queue and the children that are in it alone.
LEMMA JoinQueueSame ==
  ASSUME JoinQueue, UNCHANGED << joinQ, jlink >>,
         {t \in Live' : pc'[t] # "wrap_jcb"} = {t \in Live : pc[t] # "wrap_jcb"}
  PROVE  JoinQueue'
BY DEF JoinQueue, JoinMembers

-----------------------------------------------------------------------------
(* What the invariant says to a thread that executes *)

Good == Disciplined /\ Inv /\ SchedulerInv

\* The statements at which a thread need not be stopped.
StoppedPc == WrapPc \cup WaitPc \cup {"none", "done"}

USE DEF PcType, CreatePc, WrapPc, JoinPc, ExitPc, SuspendPc, RestPc, WaitPc, YieldPc, StoppedPc,
        NotPushedPc, JoinsUsed

\* Only one thread holds the processor.
LEMMA OneHolder ==
  ASSUME Good, NEW t \in Holder, NEW u \in Holder
  PROVE  t = u
BY DEF Good, SchedulerInv, Turns, Holder, Running, Popped, Yielding

\* A thread takes its own steps between two ticks: nothing of a switch is
\* going on.
LEMMA BetweenTicks ==
  ASSUME Good, NEW t \in Thread, Executes(t)
  PROVE  /\ ~ crashed /\ ~ inHandler[t] /\ sched.pc = "tick"
         /\ \A u \in Thread : ~ sig[u]
         /\ Popped = {} /\ runQ \notin Ready \cup Waiting
         /\ Ticks \in {"between_calls", "in_calls"}
BY DEF Good, SchedulerInv, Disciplined, Executes, SignalsArrived, Popped, Loop

\* If it is not about to be stopped it holds the processor, alone: it is the
\* one in RunQHead, which its join has cleared.
LEMMA ExecutesAlone ==
  ASSUME Good, NEW t \in Thread, Executes(t), pc[t] \notin StoppedPc
  PROVE  /\ t \in Holder /\ \A u \in Holder : u = t
         /\ runQ = IF pc[t] \in YieldPc THEN Null ELSE t
         /\ \A u \in Thread : u # t => ~ tcb[u].bRunnable
<1>1. t \in Thread /\ sched.pc = "tick" /\ ~ sig[t] /\ ~ inHandler[t] /\ Popped = {}
  BY BetweenTicks
<1>2. t \in Holder
  BY <1>1 DEF Good, SchedulerInv, Turns, StoppedPc
<1>3. \A u \in Holder : u = t
  BY <1>2, OneHolder
<1>4. runQ = IF pc[t] \in YieldPc THEN Null ELSE t
  BY <1>1, <1>2 DEF Good, SchedulerInv, Turns, Holder, Running, Yielding
<1>5. \A u \in Thread : u # t => ~ tcb[u].bRunnable
  BY <1>3 DEF Good, SchedulerInv, Turns
<1> QED BY <1>2, <1>3, <1>4, <1>5

\* A thread whose wait returns has been given the processor.
LEMMA RunnableAlone ==
  ASSUME Good, NEW t \in Thread, tcb[t].bRunnable
  PROVE  t \in Holder /\ \A u \in Holder : u = t
BY OneHolder DEF Good, SchedulerInv, Turns

\* Which calls there are in the two modes.
LEMMA Modes ==
  ASSUME Good
  PROVE  /\ Ticks \in {"between_calls", "in_calls"}
         /\ JoinsUsed => Ticks = "between_calls" /\ "suspend" \notin Ops
         /\ "suspend" \in Ops => Ticks = "between_calls" /\ ~ JoinsUsed
         /\ Ticks = "in_calls" =>
              /\ ~ JoinsUsed /\ Waiting = {} /\ \A t, u \in Creators : t = u
              /\ \A t \in Thread : pc[t] \notin SuspendPc \cup JoinPc
                                              \cup {"join_wait", "exit_wake", "exit_push"}
         /\ ~ JoinsUsed => \A t \in Thread : pc[t] \notin JoinPc \cup {"join_wait", "exit_wake", "exit_push"}
BY SchedulerAssumption DEF Good, SchedulerInv, Disciplined, Waits, JoinsUsed

\* If ticks keep out of calls, a thread inside a call holds the processor.
LEMMA BusyHolds ==
  ASSUME Good, NEW u \in Thread, Ticks = "between_calls", pc[u] \notin RestPc \cup WrapPc
  PROVE  u \in Holder
BY DEF Good, SchedulerInv, Inv, TypeOK, Turns, Quiet

\* While t executes nobody else creates or is inside a call that has taken a
\* thread out of a queue.
LEMMA NobodyElse ==
  ASSUME Good, NEW t \in Thread, t \in Holder, NEW u \in Thread, u # t
  PROVE  /\ pc[u] \notin SuspendPc \cup JoinPc \cup {"exit_wake", "exit_push"}
         /\ Ticks = "between_calls" => pc[u] \in RestPc \cup WrapPc
<1>1. u \notin Holder
  BY OneHolder
<1>2. Ticks = "between_calls" => pc[u] \in RestPc \cup WrapPc
  BY <1>1, BusyHolds
<1> QED BY <1>2, Modes

\* A search finds every live thread that nobody has in his hands.
LEMMA LiveFound ==
  ASSUME Good, NEW x \in Live, \A t \in Thread : ~ Carry(t, x), sched.pc = "tick"
  PROVE  getThread(x) # Null
BY NoThreads DEF Good, SchedulerInv, Places, getThread, Popped, Live

-----------------------------------------------------------------------------
(* Frames *)

USE DEF vars, queueVars, joinVars, tcbVars, ctlVars, sigVars, rest

\* t holds x in both states or in neither.
SameHands == \A t, x \in Thread : Carry(t, x)' <=> Carry(t, x)

\* Places, while nobody changes place.
LEMMA PlacesSame ==
  ASSUME Places, SameHands,
         Ready' = Ready, Waiting' = Waiting, Live' = Live, Popped' = Popped, runQ' = runQ,
         \A x \in Live : pc'[x] \in WrapPc => pc[x] \in WrapPc
  PROVE  Places'
BY DEF Places, SameHands, Live

\* The threads that move neither take nor leave anything: they hold the
\* processor or go where threads stop, and come from and go to such places.
HarmlessMoves ==
  \A u \in Thread : pc'[u] # pc[u] =>
    /\ pc'[u] \in YieldPc => pc[u] \in YieldPc
    /\ pc[u] \in YieldPc => pc'[u] \in YieldPc \cup {"join_wait"}
    /\ pc'[u] \in WrapPc => pc[u] \in WrapPc \/ mem[u] # "live"
    /\ u \in Holder \/ pc'[u] \in StoppedPc \/ pc[u] \notin StoppedPc
    /\ Ticks = "between_calls" /\ inHandler[u] => pc'[u] \in RestPc

\* Nobody's bRunnable is set, and it is not where a join enters its wait.
NobodyWoken ==
  \A u \in Thread : tcb'[u].bRunnable =>
    tcb[u].bRunnable /\ pc'[u] # "join_enter" /\ (pc[u] \in YieldPc => pc'[u] \in YieldPc)

\* A step of the statements of threads in which TCB queues, RunQHead and
\* scheduler stay as they are keeps what the invariant says of those.
LEMMA LocalStep ==
  ASSUME Good,
         UNCHANGED << readyQ, waitQ, link, runQ, mem, sched, sigVars, parked, crashed >>,
         sched.pc = "tick", \A u \in Thread : ~ sig[u],
         SameHands, HarmlessMoves, NobodyWoken
  PROVE  TcbQueues' /\ Places' /\ Loop' /\ Turns' /\ Quiet' /\ NoCrash'
<1>1. TcbQueues' /\ Ready' = Ready /\ Waiting' = Waiting
  BY QueuesSame DEF Good, SchedulerInv
<1>2. Live' = Live /\ Popped' = Popped /\ Running' = Running
  BY <1>1 DEF Live, Popped, Running
<1>4. Places'
  BY <1>1, <1>2, PlacesSame DEF Good, SchedulerInv, Live, HarmlessMoves
<1>5. Loop'
  BY <1>1, <1>2 DEF Good, SchedulerInv, Loop
<1>6. Turns'
  <2>1. /\ Yielding' \subseteq Yielding
        /\ \A u \in Thread : u \in Yielding /\ u \notin Yielding' => pc'[u] = "join_wait"
    BY DEF Yielding, HarmlessMoves
  <2>2. \A u \in Thread : u \in Holder /\ u \notin Holder' => pc'[u] = "join_wait" /\ pc[u] \in YieldPc
    BY <1>2, <2>1 DEF Holder, Yielding
  <2>3. Holder' \subseteq Holder
    BY <1>2, <2>1 DEF Holder
  <2>4. \A t \in Thread \ Holder' :
       sig'[t] \/ inHandler'[t] \/ pc'[t] \in StoppedPc
    BY <2>2 DEF Good, SchedulerInv, Turns, HarmlessMoves
  <2>5. \A t \in Thread : tcb'[t].bRunnable => t \in Holder' /\ pc'[t] # "join_enter"
    BY <2>2 DEF Good, SchedulerInv, Turns, NobodyWoken
  <2> QED BY <1>1, <2>1, <2>4, <2>5 DEF Good, SchedulerInv, Turns
<1>7. Quiet'
  BY DEF Good, SchedulerInv, Quiet, HarmlessMoves
<1>8. NoCrash'
  BY DEF Good, SchedulerInv, NoCrash
<1> QED BY <1>1, <1>4, <1>5, <1>6, <1>7, <1>8

\* No parent that did not create its child.
LEMMA TreeSame ==
  ASSUME Tree,
         \A t, c \in Thread : tcb'[c].parentTid = t =>
           tcb[c].parentTid = t \/ (pc[t] \in CreatePc /\ arg[t] = c),
         \A t, c \in Thread : pc'[t] \in CreatePc /\ arg'[t] = c =>
           pc[t] \in CreatePc /\ arg[t] = c
  PROVE  Tree'
<1>1. \A t, c \in Thread : ChildOf(c, t)' => ChildOf(c, t)
  BY DEF ChildOf
<1> QED BY <1>1 DEF Tree

\* Nobody begins or ends a thread_create or queues itself in __wrapperFunc.
LEMMA CreatingSame ==
  ASSUME Creating, isPushed' = isPushed,
         \A u \in Thread : /\ pc'[u] \in CreatePc <=> pc[u] \in CreatePc
                           /\ pc'[u] \in NotPushedPc <=> pc[u] \in NotPushedPc
                           /\ pc'[u] = "none" <=> pc[u] = "none",
         \A u \in Thread : pc[u] \in CreatePc =>
           /\ arg'[u] = arg[u] /\ mem'[arg[u]] # "freed"
           /\ Ticks = "between_calls" => pc'[arg[u]] \in WrapPc \cup {"start"},
         \A u \in Thread : tcb'[u].parentTid = tcb[u].parentTid,
         \A u \in Thread : mem'[u] = "freed" => pc'[u] = "done"
  PROVE  Creating'
BY DEF Creating

\* A thread without a TCB has no parent and no mark.
LEMMA Unmade ==
  ASSUME Good, NEW u \in Thread, mem[u] = "none"
  PROVE  tcb[u].parentTid = Null /\ jcb[u] = Null
<1>1. tcb[u].parentTid = Null
  BY DEF Good, Inv, MadeByWrapper, SchedulerInv, Creating
<1> QED BY <1>1 DEF Good, SchedulerInv, Codes

\* The statements of a join after its call and of an exit.
JoinExitPc == JoinPc \cup ExitPc \cup {"join_wait", "done"}

\* A step of none of them.
LEMMA JoinsSame ==
  ASSUME Good, Waiting' = Waiting,
         UNCHANGED << jcb, got >>,
         Live \subseteq Live',
         \A u \in Thread : tcb'[u].parentTid = tcb[u].parentTid,
         \A u \in Thread : \/ tcb'[u].pExitCode = tcb[u].pExitCode
                           \/ mem[u] = "none" /\ tcb'[u].pExitCode = Garbage,
         \A u \in Thread : pc[u] \in JoinExitPc \/ pc'[u] \in JoinExitPc => pc'[u] = pc[u] /\ arg'[u] = arg[u],
         \A u \in Thread : pc'[u] \in SuspendPc => pc[u] \in SuspendPc,
         \A u \in Thread : Ticks = "between_calls" /\ pc'[u] \in WrapPc \cup {"start"} =>
           pc[u] \in WrapPc \cup {"start"} \/ mem[u] = "none",
         \A u \in Thread : mem[u] # "none" => mem'[u] # "none",
         \A u \in Thread : u \in Live' => u \in Live \/ mem[u] = "none"
  PROVE  Codes' /\ Waits' /\ Joins' /\ Children'
<1>1. Codes'
  BY NoThreads DEF Good, SchedulerInv, Codes, Exiting, Live, JoinExitPc
<1>0. Waiting \subseteq Thread
  BY DEF Waiting, Members
<1>2. Waits'
  BY <1>0 DEF Good, SchedulerInv, Waits, JoinExitPc
<1>3. Joins'
  BY DEF Good, SchedulerInv, Joins, JoinExitPc, Inv, TypeOK, Live
<1>4. Children'
  <2>1. ASSUME NEW c \in Thread, pc'[c] \in {"exit_wake", "exit_push"}
        PROVE  LET p == tcb'[c].parentTid
               IN p \in Thread /\ pc'[p] = "join_wait" /\ arg'[p] = c /\ (pc'[c] = "exit_wake" => p \in Waiting')
    BY <2>1 DEF Good, SchedulerInv, Children, JoinExitPc
  <2>2. ASSUME NEW c \in Thread, JoinsUsed, c \in Live', pc'[c] \notin ExitPc \cup {"done"}, jcb'[c] # Null
        PROVE  LET p == tcb'[c].parentTid
               IN p \in Waiting' /\ pc'[p] \in {"join_enter", "join_wait"} /\ arg'[p] = c
    <3>1. c \in Live /\ ~ Exiting(c) /\ jcb[c] # Null
      BY <2>2, Unmade DEF Exiting, JoinExitPc
    <3>2. LET p == tcb[c].parentTid
          IN p \in Waiting /\ pc[p] \in {"join_enter", "join_wait"} /\ arg[p] = c
      BY <3>1, <2>2 DEF Good, SchedulerInv, Children
    <3> QED BY <3>2, <1>0 DEF JoinExitPc
  <2>3. ASSUME NEW t \in Thread, NEW c \in Thread, tcb'[c].parentTid = t
        PROVE  mem'[t] # "none" /\ (Ticks = "between_calls" => pc'[t] \notin WrapPc \cup {"start"})
    BY <2>3 DEF Good, SchedulerInv, Children
  <2> QED BY <2>1, <2>2, <2>3 DEF Children, Exiting
<1> QED BY <1>1, <1>2, <1>3, <1>4

-----------------------------------------------------------------------------
(* thread_create and __wrapperFunc *)

\* The child exists, without a TCB; nobody else is creating.
LEMMA CreateSafe ==
  ASSUME Good, Inv', NEW t \in Thread, NEW c \in Thread, Create(t, c)
  PROVE  SchedulerInv'
<1>0. /\ Executes(t) /\ pc[t] = "user" /\ pc[c] = "none" /\ t \in Creators /\ t # c
      /\ pc' = [pc EXCEPT ![t] = "create_check", ![c] = "wrap_tcb"]
      /\ arg' = [arg EXCEPT ![t] = c]
      /\ UNCHANGED << queueVars, joinVars, tcbVars, isPushed, sched, sigVars, rest >>
  BY DEF Create, AtCall
<1>1. TypeOK /\ mem[c] = "none" /\ tcb[c].parentTid = Null
  BY <1>0, Unmade DEF Good, Inv, MadeByWrapper
<1>2. /\ t \in Holder /\ sched.pc = "tick" /\ \A u \in Thread : ~ sig[u]
      /\ ~ inHandler[t]
  BY <1>0, ExecutesAlone, BetweenTicks
<1>2a. ~ inHandler[c]
  BY <1>1 DEF Good, SchedulerInv, Turns
<1>3. /\ pc' \in [Thread -> PcType] /\ pc'[t] = "create_check" /\ pc'[c] = "wrap_tcb"
      /\ \A u \in Thread : u # t /\ u # c => pc'[u] = pc[u] /\ arg'[u] = arg[u]
      /\ arg'[t] = c /\ arg'[c] = arg[c]
  BY <1>0, <1>1 DEF TypeOK
<1>4. SameHands
  BY <1>0, <1>3 DEF SameHands, Carry, ParentOf
<1>5. TcbQueues' /\ Places' /\ Loop' /\ Turns' /\ Quiet' /\ NoCrash'
  <2>1. HarmlessMoves
    BY <1>0, <1>1, <1>2, <1>2a, <1>3 DEF HarmlessMoves
  <2>2. NobodyWoken
    BY <1>0, <1>1, <1>2, <1>3 DEF NobodyWoken, Good, SchedulerInv, Turns
  <2> QED BY <1>0, <1>2, <1>4, <2>1, <2>2, LocalStep
<1>5a. JoinQueue'
  <2>1. {u \in Live' : pc'[u] # "wrap_jcb"} = {u \in Live : pc[u] # "wrap_jcb"}
    BY <1>0, <1>1, <1>3 DEF Live
  <2> QED BY <1>0, <2>1, JoinQueueSame DEF Good, SchedulerInv
<1>6. Creating'
  <2>1. \A u \in Thread : pc[u] \notin CreatePc
    <3> SUFFICES ASSUME NEW u \in Thread, pc[u] \in CreatePc PROVE FALSE
      OBVIOUS
    <3>1. u # t /\ u \in Creators
      BY <1>0 DEF Good, SchedulerInv, Creating
    <3> QED BY <3>1, <1>0, <1>2, Modes, NobodyElse
  <2>2. ~ isPushed /\ \A u \in Thread : pc[u] \notin NotPushedPc
    BY <2>1 DEF Good, SchedulerInv, Creating
  <2>3. \A u \in Thread : (pc'[u] \in CreatePc <=> u = t) /\ (pc'[u] \in NotPushedPc <=> u = c)
    BY <1>3, <2>1, <2>2
  <2>4. /\ tcb' = tcb /\ mem' = mem /\ isPushed' = isPushed
        /\ \A u \in Thread : (pc[u] \in NotPushedPc \cup {"none"} => tcb[u].parentTid = Null)
                            /\ (mem[u] = "freed" => pc[u] = "done")
    BY <1>0 DEF Good, SchedulerInv, Creating
  <2>5. \A u \in Thread : pc'[u] \in NotPushedPc \cup {"none"} => tcb'[u].parentTid = Null
    BY <1>1, <1>3, <2>4
  <2>6. \A u \in Thread : mem'[u] = "freed" => pc'[u] = "done"
    BY <1>0, <1>1, <1>3, <2>4
  <2>7. /\ t \in Creators /\ arg'[t] = c /\ c # t /\ pc'[c] = "wrap_tcb" /\ mem'[c] # "freed"
        /\ tcb'[c].parentTid = Null
    <3>1. mem'[c] = mem[c] /\ tcb'[c] = tcb[c]
      BY <2>4
    <3>2. t \in Creators /\ t # c /\ arg'[t] = c /\ pc'[c] = "wrap_tcb"
      BY <1>0, <1>3
    <3>3. mem[c] # "freed" /\ tcb[c].parentTid = Null
      BY <1>1
    <3> QED BY <3>1, <3>2, <3>3
  <2> QED BY <2>2, <2>3, <2>4, <2>5, <2>6, <2>7 DEF Creating
<1>7. Codes' /\ Waits' /\ Joins' /\ Children'
  <2>1. Waiting' = Waiting /\ Live' = Live
    BY <1>0, QueuesSame DEF Good, SchedulerInv, Live
  <2> QED BY <1>0, <1>1, <1>3, <2>1, JoinsSame DEF JoinExitPc
<1>8. Tree'
  <2>1. \A d \in Thread : ~ ChildOf(d, c)'
    BY <1>0, <1>1, <1>3 DEF ChildOf, Good, SchedulerInv, Children
  <2>2. \A u, d \in Thread : u # c /\ d # c /\ ChildOf(d, u)' => ChildOf(d, u)
    BY <1>0, <1>3 DEF ChildOf
  <2> SUFFICES ASSUME NEW S \in SUBSET Thread, S # {}
               PROVE  \E u \in S : \A d \in S : ~ ChildOf(d, u)'
    BY DEF Tree
  <2>3. CASE c \in S
    BY <2>1, <2>3
  <2>4. CASE c \notin S
    <3>1. PICK u \in S : \A d \in S : ~ ChildOf(d, u)
      BY DEF Good, SchedulerInv, Tree
    <3> QED BY <2>2, <2>4, <3>1
  <2> QED BY <2>3, <2>4
<1> QED BY <1>5, <1>5a, <1>6, <1>7, <1>8 DEF SchedulerInv

\* Once the flag is set the child is live and nobody has it in his hands.
LEMMA ChildFound ==
  ASSUME Good, NEW t \in Thread, Executes(t), pc[t] \in CreatePc, isPushed
  PROVE  /\ arg[t] \in Live /\ getThread(arg[t]) # Null
         /\ \A u \in Thread : pc[u] \notin NotPushedPc
<1>1. t \in Holder /\ sched.pc = "tick"
  BY ExecutesAlone, BetweenTicks
<1>2. arg[t] \in Thread /\ pc[arg[t]] \notin NotPushedPc \cup {"none"} /\ mem[arg[t]] # "freed"
      /\ \A u \in Thread : pc[u] \notin NotPushedPc
  BY DEF Good, SchedulerInv, Creating
<1>3. arg[t] \in Live
  BY <1>2 DEF Good, Inv, TypeOK, MadeByWrapper, Live
<1>4. \A u, x \in Thread : ~ Carry(u, x)
  BY <1>1, NobodyElse DEF Carry
<1> QED BY <1>1, <1>2, <1>3, <1>4, LiveFound

\* The creator sleeps, or becomes the parent of its child.
LEMMA CreateCheckSafe ==
  ASSUME Good, Inv', NEW t \in Thread, CreateCheck(t)
  PROVE  SchedulerInv'
<1>0. Executes(t) /\ pc[t] = "create_check" /\ arg[t] \in Thread /\ TypeOK
  BY DEF CreateCheck, At, Good, SchedulerInv, Creating, Inv
<1>1. /\ t \in Holder /\ sched.pc = "tick" /\ \A u \in Thread : ~ sig[u]
      /\ ~ inHandler[t]
  BY <1>0, ExecutesAlone, BetweenTicks
<1>2. \A u \in Thread : pc[u] \in CreatePc => u = t
  BY <1>0 DEF Good, SchedulerInv, Creating
<1>3. \A u, x \in Thread : ~ Carry(u, x)
  BY <1>0, <1>1, NobodyElse DEF Carry
<1>4. CASE ~ isPushed
  <2>1. /\ pc' = [pc EXCEPT ![t] = "create_sleep"]
        /\ UNCHANGED << queueVars, joinVars, tcbVars, isPushed, sched, arg, sigVars, rest >>
    BY <1>4 DEF CreateCheck, Goto
  <2>2. pc'[t] = "create_sleep" /\ \A u \in Thread : u # t => pc'[u] = pc[u]
    BY <1>0, <2>1 DEF TypeOK
  <2>3. TcbQueues' /\ Places' /\ Loop' /\ Turns' /\ Quiet' /\ NoCrash'
    <3>1. HarmlessMoves
      BY <1>0, <1>1, <2>2 DEF HarmlessMoves
    <3>2. NobodyWoken
      BY <1>0, <2>1, <2>2 DEF NobodyWoken, Good, SchedulerInv, Turns
    <3>3. SameHands
      BY <1>0, <2>1, <2>2 DEF SameHands, Carry, ParentOf
    <3> QED BY <1>1, <2>1, <3>1, <3>2, <3>3, LocalStep
  <2>4. JoinQueue'
    <3>1. {u \in Live' : pc'[u] # "wrap_jcb"} = {u \in Live : pc[u] # "wrap_jcb"}
      BY <1>0, <2>1, <2>2 DEF Live
    <3> QED BY <2>1, <3>1, JoinQueueSame DEF Good, SchedulerInv
  <2>5. Creating'
    BY <1>0, <2>1, <2>2, CreatingSame DEF Good, SchedulerInv, Creating
  <2>6. Codes' /\ Waits' /\ Joins' /\ Children'
    <3>1. Waiting' = Waiting /\ Live' = Live
      BY <2>1, QueuesSame DEF Good, SchedulerInv, Live
    <3> QED BY <1>0, <2>1, <2>2, <3>1, JoinsSame DEF JoinExitPc
  <2>7. Tree'
    BY <1>0, <2>1, <2>2, TreeSame DEF Good, SchedulerInv
  <2> QED BY <2>3, <2>4, <2>5, <2>6, <2>7 DEF SchedulerInv
<1>5. CASE isPushed
  <2>0. arg[t] \in Live /\ getThread(arg[t]) # Null
        /\ \A u \in Thread : pc[u] \notin NotPushedPc
    BY <1>0, <1>5, ChildFound
  <2>1. /\ pc' = [pc EXCEPT ![t] = "user"] /\ arg' = [arg EXCEPT ![t] = Null]
        /\ isPushed' = FALSE /\ tcb' = [tcb EXCEPT ![arg[t]].parentTid = t]
        /\ UNCHANGED << queueVars, joinVars, mem, sched, sigVars, rest >>
    BY <1>5, <2>0 DEF CreateCheck, Goto, Leave
  <2>2. /\ pc'[t] = "user" /\ \A u \in Thread : u # t => pc'[u] = pc[u] /\ arg'[u] = arg[u]
        /\ tcb'[arg[t]].parentTid = t
        /\ \A u \in Thread : u # arg[t] => tcb'[u].parentTid = tcb[u].parentTid
        /\ \A u \in Thread : tcb'[u].bRunnable = tcb[u].bRunnable /\ tcb'[u].pExitCode = tcb[u].pExitCode
    BY <1>0, <2>1 DEF TypeOK, TcbType
  <2>2a. tcb[arg[t]].parentTid = Null /\ arg[t] # Root /\ arg[t] # t
    BY <1>0, NoThreads DEF Good, SchedulerInv, Creating, Codes
  <2>3. TcbQueues' /\ Places' /\ Loop' /\ Turns' /\ Quiet' /\ NoCrash'
    <3>1. HarmlessMoves
      BY <1>0, <1>1, <2>2 DEF HarmlessMoves
    <3>2. NobodyWoken
      BY <1>0, <2>1, <2>2 DEF NobodyWoken, Good, SchedulerInv, Turns
    <3>3. SameHands
      <4>1. \A u \in Thread : pc'[u] \notin SuspendPc \cup {"exit_push", "join_push"}
        BY <1>0, <1>1, <2>2, NobodyElse
      <4> QED BY <1>3, <4>1 DEF SameHands, Carry
    <3> QED BY <1>1, <2>1, <3>1, <3>2, <3>3, LocalStep
  <2>4. JoinQueue'
    <3>1. {u \in Live' : pc'[u] # "wrap_jcb"} = {u \in Live : pc[u] # "wrap_jcb"}
      BY <1>0, <2>1, <2>2 DEF Live
    <3> QED BY <2>1, <3>1, JoinQueueSame DEF Good, SchedulerInv
  <2>5. Creating'
    <3>1. \A u \in Thread : pc'[u] \notin CreatePc \cup NotPushedPc
      BY <1>2, <2>0, <2>2
    <3>2. \A c \in Thread : pc'[c] = "none" => tcb'[c].parentTid = Null
      BY <2>0, <2>2 DEF Good, SchedulerInv, Creating, Inv, MadeByWrapper, Live
    <3>3. \A c \in Thread : mem'[c] = "freed" => pc'[c] = "done"
      BY <1>0, <2>1, <2>2 DEF Good, SchedulerInv, Creating
    <3> QED BY <2>1, <3>1, <3>2, <3>3 DEF Creating
  <2>6. Codes'
    BY <1>0, <2>1, <2>2, <2>2a, NoThreads DEF Good, SchedulerInv, Codes, Exiting
  <2>7. Waiting' = Waiting /\ Live' = Live /\ Waiting \subseteq Thread
    BY <2>1, QueuesSame DEF Good, SchedulerInv, Live, Waiting, Members
  <2>8. Waits'
    BY <1>0, <2>2, <2>7 DEF Good, SchedulerInv, Waits
  <2>9. Joins'
    BY <1>0, <2>1, <2>2, <2>2a, <2>7, NoThreads DEF Good, SchedulerInv, Joins, Inv, TypeOK, Live
  <2>10. Children'
    <3>1. mem[t] # "none"
      BY <1>0 DEF Good, Inv, MadeByWrapper
    <3>2. jcb[arg[t]] = Null /\ pc[arg[t]] \notin {"exit_wake", "exit_push"}
      BY <1>0, <2>2a, NoThreads DEF Good, SchedulerInv, Codes, Children
    <3>3. \A c \in Thread : LET p == tcb'[c].parentTid IN
       /\ pc'[c] \in {"exit_wake", "exit_push"} => p \in Thread /\ pc'[p] = "join_wait" /\ arg'[p] = c
       /\ pc'[c] = "exit_wake" => p \in Waiting'
      BY <1>0, <2>2, <2>2a, <2>7, <3>2 DEF Good, SchedulerInv, Children
    <3>4. ASSUME NEW c \in Thread, JoinsUsed, c \in Live', ~ Exiting(c)', jcb'[c] # Null
          PROVE  LET p == tcb'[c].parentTid
                 IN p \in Waiting' /\ pc'[p] \in {"join_enter", "join_wait"} /\ arg'[p] = c
      <4>1. c # arg[t] /\ c \in Live /\ ~ Exiting(c) /\ jcb[c] # Null /\ tcb'[c].parentTid = tcb[c].parentTid
        BY <3>4, <1>0, <2>1, <2>2, <2>7, <3>2 DEF Exiting
      <4>2. LET p == tcb[c].parentTid
            IN p \in Waiting /\ pc[p] \in {"join_enter", "join_wait"} /\ arg[p] = c
        BY <3>4, <4>1 DEF Good, SchedulerInv, Children
      <4> QED BY <4>1, <4>2, <1>0, <2>2, <2>7
    <3>5. \A u, c \in Thread : tcb'[c].parentTid = u =>
            mem'[u] # "none" /\ (Ticks = "between_calls" => pc'[u] \notin WrapPc \cup {"start"})
      BY <1>0, <2>1, <2>2, <3>1 DEF Good, SchedulerInv, Children
    <3> QED BY <3>3, <3>4, <3>5 DEF Children
  <2>11. Tree'
    BY <1>0, <2>1, <2>2, TreeSame DEF Good, SchedulerInv
  <2> QED BY <2>3, <2>4, <2>5, <2>6, <2>8, <2>9, <2>10, <2>11 DEF SchedulerInv
<1> QED BY <1>4, <1>5

\* What LocalStep says when one thread moves and takes nothing in its hands.
FirstHalf ==
  /\ TcbQueues' /\ JoinQueue' /\ Places' /\ Loop' /\ Turns' /\ Quiet' /\ NoCrash'
  /\ Ready' = Ready /\ Waiting' = Waiting /\ Live' = Live

\* One thread that has the processor goes on to another line.
LEMMA OneMoves ==
  ASSUME Good, NEW t \in Thread, Executes(t), NEW l \in PcType, pc' = [pc EXCEPT ![t] = l],
         UNCHANGED << queueVars, joinQ, jlink, mem, sched, sigVars, parked, crashed >>,
         {pc[t], l} \cap (SuspendPc \cup {"exit_push", "join_push", "wrap_jcb"}) = {},
         l \in YieldPc => pc[t] \in YieldPc,
         pc[t] \in YieldPc => l \in YieldPc \cup {"join_wait"} /\ ~ tcb'[t].bRunnable,
         l \in WrapPc => pc[t] \in WrapPc,
         t \in Holder \/ l \in StoppedPc,
         \A u \in Thread : u # t => arg'[u] = arg[u],
         \A u \in Thread : tcb'[u].parentTid = tcb[u].parentTid,
         \A u \in Thread : tcb'[u].bRunnable => tcb[u].bRunnable
  PROVE  FirstHalf
<1>0. TypeOK /\ sched.pc = "tick" /\ (\A u \in Thread : ~ sig[u]) /\ ~ inHandler[t]
  BY BetweenTicks DEF Good, Inv
<1>1. pc'[t] = l /\ \A u \in Thread : u # t => pc'[u] = pc[u]
  BY <1>0 DEF TypeOK
<1>2. HarmlessMoves
  BY <1>0, <1>1 DEF HarmlessMoves
<1>3. NobodyWoken
  BY <1>1 DEF NobodyWoken, Good, SchedulerInv, Turns
<1>4. SameHands
  <2>1. \A u \in Thread : pc[u] = "exit_push" => arg[u] \in Thread
    BY DEF Good, SchedulerInv, Codes
  <2>2. \A u, x \in Thread : u # t => (Carry(u, x)' <=> Carry(u, x))
    BY <1>1, <2>1 DEF Carry, ParentOf
  <2>3. \A x \in Thread : ~ Carry(t, x) /\ ~ Carry(t, x)'
    BY <1>1 DEF Carry
  <2> QED BY <2>2, <2>3 DEF SameHands
<1>5. TcbQueues' /\ Places' /\ Loop' /\ Turns' /\ Quiet' /\ NoCrash'
  BY <1>0, <1>2, <1>3, <1>4, LocalStep
<1>6. JoinQueue'
  <2>1. {u \in Live' : pc'[u] # "wrap_jcb"} = {u \in Live : pc[u] # "wrap_jcb"}
    BY <1>1 DEF Live
  <2> QED BY <2>1, JoinQueueSame DEF Good, SchedulerInv
<1>7. Ready' = Ready /\ Waiting' = Waiting /\ Live' = Live
  BY QueuesSame DEF Good, SchedulerInv, Live
<1> QED BY <1>5, <1>6, <1>7 DEF FirstHalf

\* The flag is set for the one who creates c.
LEMMA WrapFlagSafe ==
  ASSUME Good, Inv', NEW c \in Thread, WrapFlag(c)
  PROVE  SchedulerInv'
<1>0. /\ Executes(c) /\ pc[c] = "wrap_flag" /\ TypeOK
      /\ pc' = [pc EXCEPT ![c] = "wrap_signal"] /\ isPushed' = TRUE
      /\ UNCHANGED << queueVars, joinVars, tcbVars, sched, arg, sigVars, rest >>
  BY DEF WrapFlag, At, Goto, Good, Inv
<1>1. pc'[c] = "wrap_signal" /\ \A u \in Thread : u # c => pc'[u] = pc[u]
  BY <1>0 DEF TypeOK
<1>2. FirstHalf
  BY <1>0, OneMoves
<1>3. Creating'
  <2>1. PICK t \in Thread : pc[t] \in CreatePc /\ arg[t] = c
    BY <1>0 DEF Good, SchedulerInv, Creating
  <2>2. \A u \in Thread : pc[u] \in CreatePc => u = t
    BY <2>1 DEF Good, SchedulerInv, Creating
  <2>3. \A u \in Thread : pc'[u] \notin NotPushedPc
    BY <1>0, <1>1, <2>1, <2>2 DEF Good, SchedulerInv, Creating
  <2>4. \A u \in Thread : (pc'[u] \in CreatePc <=> pc[u] \in CreatePc) /\ (pc'[u] = "none" <=> pc[u] = "none")
                          /\ (pc[u] = "done" => pc'[u] = "done")
    BY <1>0, <1>1
  <2>5. pc'[t] \in CreatePc /\ arg'[t] = c /\ pc'[c] \notin NotPushedPc /\ arg' = arg /\ mem' = mem /\ tcb' = tcb
    BY <1>0, <1>1, <2>1, <2>4
  <2>6. \A u \in Thread : pc[u] \in WrapPc \cup {"start"} => pc'[u] \in WrapPc \cup {"start"}
    BY <1>0, <1>1
  <2> QED BY <2>3, <2>4, <2>5, <2>6 DEF Good, SchedulerInv, Creating
<1>4. Codes' /\ Waits' /\ Joins' /\ Children'
  BY <1>0, <1>1, <1>2, JoinsSame DEF FirstHalf, JoinExitPc
<1>5. Tree'
  BY <1>0, <1>1, TreeSame DEF Good, SchedulerInv
<1> QED BY <1>2, <1>3, <1>4, <1>5 DEF FirstHalf, SchedulerInv

\* The creator, if it sleeps, looks again.
LEMMA WrapSignalSafe ==
  ASSUME Good, Inv', NEW c \in Thread, WrapSignal(c)
  PROVE  SchedulerInv'
<1>0. /\ Executes(c) /\ pc[c] = "wrap_signal" /\ TypeOK
      /\ UNCHANGED << queueVars, joinVars, tcbVars, isPushed, sched, arg, sigVars, rest >>
  BY DEF WrapSignal, At, Good, Inv
<1>1. /\ pc'[c] = "wrap_enter"
      /\ \A u \in Thread : u # c => \/ pc'[u] = pc[u]
                                    \/ pc[u] = "create_sleep" /\ pc'[u] = "create_check"
  BY <1>0 DEF WrapSignal, Goto, TypeOK
<1>2. sched.pc = "tick" /\ (\A u \in Thread : ~ sig[u]) /\ ~ inHandler[c]
  BY <1>0, BetweenTicks
<1>3. TcbQueues' /\ Places' /\ Loop' /\ Turns' /\ Quiet' /\ NoCrash'
  <2>1. HarmlessMoves
    BY <1>0, <1>1, <1>2 DEF HarmlessMoves, Good, SchedulerInv, Quiet
  <2>2. NobodyWoken
    BY <1>0, <1>1 DEF NobodyWoken, Good, SchedulerInv, Turns
  <2>3. SameHands
    BY <1>0, <1>1 DEF SameHands, Carry, ParentOf
  <2> QED BY <1>0, <1>2, <2>1, <2>2, <2>3, LocalStep
<1>4. JoinQueue'
  <2>1. {u \in Live' : pc'[u] # "wrap_jcb"} = {u \in Live : pc[u] # "wrap_jcb"}
    BY <1>0, <1>1 DEF Live
  <2> QED BY <1>0, <2>1, JoinQueueSame DEF Good, SchedulerInv
<1>5. Creating'
  <2>1. \A u \in Thread : /\ pc'[u] \in CreatePc <=> pc[u] \in CreatePc
                          /\ pc'[u] \in NotPushedPc <=> pc[u] \in NotPushedPc
                          /\ pc'[u] = "none" <=> pc[u] = "none"
                          /\ pc[u] \in WrapPc \cup {"start"} => pc'[u] \in WrapPc \cup {"start"}
                          /\ pc[u] = "done" => pc'[u] = "done"
    BY <1>0, <1>1
  <2> QED BY <1>0, <2>1, CreatingSame DEF Good, SchedulerInv, Creating
<1>6. Codes' /\ Waits' /\ Joins' /\ Children'
  <2>1. Waiting' = Waiting /\ Live' = Live
    BY <1>0, QueuesSame DEF Good, SchedulerInv, Live
  <2> QED BY <1>0, <1>1, <2>1, JoinsSame DEF JoinExitPc
<1>7. Tree'
  BY <1>0, <1>1, TreeSame DEF Good, SchedulerInv
<1> QED BY <1>3, <1>4, <1>5, <1>6, <1>7 DEF SchedulerInv

\* The thread finds its own TCB and waits for its first turn.
LEMMA WrapEnterSafe ==
  ASSUME Good, Inv', NEW c \in Thread, WrapEnter(c)
  PROVE  SchedulerInv'
<1>0. Executes(c) /\ pc[c] = "wrap_enter" /\ TypeOK
  BY DEF WrapEnter, WaitEnter, At, Good, Inv
<1>1. getThread(c) # Null
  <2>1. c \in Live
    BY <1>0 DEF Good, Inv, TypeOK, MadeByWrapper, SchedulerInv, Creating, Live
  <2>2. \A t \in Thread : ~ Carry(t, c)
    BY <1>0 DEF Good, SchedulerInv, Places
  <2> QED BY <1>0, <2>1, <2>2, LiveFound, BetweenTicks
<1>2. /\ pc' = [pc EXCEPT ![c] = "start"]
      /\ UNCHANGED << queueVars, joinVars, tcbVars, isPushed, sched, arg, sigVars, rest >>
  BY <1>1 DEF WrapEnter, WaitEnter, Goto
<1>3. pc'[c] = "start" /\ \A u \in Thread : u # c => pc'[u] = pc[u]
  BY <1>0, <1>2 DEF TypeOK
<1>4. FirstHalf
  BY <1>0, <1>2, OneMoves
<1>5. Creating'
  <2>1. \A u \in Thread : /\ pc'[u] \in CreatePc <=> pc[u] \in CreatePc
                          /\ pc'[u] \in NotPushedPc <=> pc[u] \in NotPushedPc
                          /\ pc'[u] = "none" <=> pc[u] = "none"
                          /\ pc[u] \in WrapPc \cup {"start"} => pc'[u] \in WrapPc \cup {"start"}
                          /\ pc[u] = "done" => pc'[u] = "done"
    BY <1>0, <1>3
  <2> QED BY <1>2, <2>1, CreatingSame DEF Good, SchedulerInv, Creating
<1>6. Codes' /\ Waits' /\ Joins' /\ Children'
  BY <1>0, <1>2, <1>3, <1>4, JoinsSame DEF FirstHalf, JoinExitPc
<1>7. Tree'
  BY <1>0, <1>2, <1>3, TreeSame DEF Good, SchedulerInv
<1> QED BY <1>4, <1>5, <1>6, <1>7 DEF FirstHalf, SchedulerInv

\* The thread's first turn: its program begins.
LEMMA WrapRunSafe ==
  ASSUME Good, Inv', NEW c \in Thread, WrapRun(c)
  PROVE  SchedulerInv'
<1>0. /\ Executes(c) /\ pc[c] = "start" /\ tcb[c].bRunnable /\ TypeOK
      /\ pc' = [pc EXCEPT ![c] = "user"]
      /\ UNCHANGED << queueVars, joinVars, tcbVars, isPushed, sched, arg, sigVars, rest >>
  BY DEF WrapRun, WaitReturn, At, Goto, Good, Inv
<1>1. pc'[c] = "user" /\ \A u \in Thread : u # c => pc'[u] = pc[u]
  BY <1>0 DEF TypeOK
<1>2. c \in Holder
  BY <1>0, RunnableAlone
<1>3. FirstHalf
  BY <1>0, <1>2, OneMoves
<1>4. Creating'
  <2>1. \A u \in Thread : /\ pc'[u] \in CreatePc <=> pc[u] \in CreatePc
                          /\ pc'[u] \in NotPushedPc <=> pc[u] \in NotPushedPc
                          /\ pc'[u] = "none" <=> pc[u] = "none"
                          /\ pc[u] = "done" => pc'[u] = "done"
    BY <1>0, <1>1
  <2>2. ASSUME NEW u \in Thread, pc[u] \in CreatePc, Ticks = "between_calls"
        PROVE  pc'[arg[u]] \in WrapPc \cup {"start"}
    <3>1. u = c
      BY <2>2, <1>2, BusyHolds, OneHolder
    <3> QED BY <3>1, <2>2, <1>0
  <2> QED BY <1>0, <2>1, <2>2, CreatingSame DEF Good, SchedulerInv, Creating
<1>5. Codes' /\ Waits' /\ Joins' /\ Children'
  BY <1>0, <1>1, <1>3, JoinsSame DEF FirstHalf, JoinExitPc
<1>6. Tree'
  BY <1>0, <1>1, TreeSame DEF Good, SchedulerInv
<1> QED BY <1>3, <1>4, <1>5, <1>6 DEF FirstHalf, SchedulerInv

\* Between two ticks, who holds the processor when only pc changes and no
\* thread leaves or joins the places by it.
LEMMA TurnsKept ==
  ASSUME Good, runQ' = runQ, sched' = sched, sched.pc = "tick", sigVars' = sigVars,
         \A u \in Thread : ~ sig[u],
         runQ \in Ready' <=> runQ \in Ready,
         \A u \in Thread : mem[u] # "none" => mem'[u] # "none",
         HarmlessMoves, NobodyWoken
  PROVE  Turns' /\ Quiet'
<1>1. Running' = Running /\ Popped' = Popped
  BY DEF Running, Popped
<1>2. Turns'
  <2>1. /\ Yielding' \subseteq Yielding
        /\ \A u \in Thread : u \in Yielding /\ u \notin Yielding' => pc'[u] = "join_wait"
    BY DEF Yielding, HarmlessMoves
  <2>2. \A u \in Thread : u \in Holder /\ u \notin Holder' => pc'[u] = "join_wait" /\ pc[u] \in YieldPc
    BY <1>1, <2>1 DEF Holder, Yielding
  <2>3. \A t \in Thread \ Holder' :
       sig'[t] \/ inHandler'[t] \/ pc'[t] \in StoppedPc
    BY <2>2 DEF Good, SchedulerInv, Turns, HarmlessMoves
  <2>4. \A t \in Thread : tcb'[t].bRunnable => t \in Holder' /\ pc'[t] # "join_enter"
    BY <2>2 DEF Good, SchedulerInv, Turns, NobodyWoken
  <2> QED BY <2>1, <2>3, <2>4 DEF Good, SchedulerInv, Turns
<1>3. Quiet'
  BY DEF Good, SchedulerInv, Quiet, HarmlessMoves
<1> QED BY <1>2, <1>3

\* The new TCB joins the ready queue.
LEMMA WrapTcbSafe ==
  ASSUME Good, Inv', NEW c \in Thread, WrapTcb(c)
  PROVE  SchedulerInv'
<1>0. /\ Executes(c) /\ pc[c] = "wrap_tcb" /\ TypeOK
      /\ tcb' = [tcb EXCEPT ![c] = NewTcb] /\ mem' = [mem EXCEPT ![c] = "live"]
      /\ rq_push(c) /\ pc' = [pc EXCEPT ![c] = "wrap_jcb"]
      /\ UNCHANGED << waitQ, runQ, joinVars, isPushed, sched, arg, sigVars, rest >>
  BY DEF WrapTcb, At, Goto, Good, Inv
<1>1. /\ pc'[c] = "wrap_jcb" /\ mem'[c] = "live" /\ tcb'[c] = NewTcb
      /\ \A u \in Thread : u # c => pc'[u] = pc[u] /\ mem'[u] = mem[u] /\ tcb'[u] = tcb[u]
  BY <1>0 DEF TypeOK
<1>2. mem[c] = "none" /\ tcb[c].parentTid = Null /\ c \notin Live
  BY <1>0, Unmade DEF Good, Inv, MadeByWrapper, Live
<1>3. \A u \in Thread : tcb'[u].parentTid = tcb[u].parentTid /\ (tcb'[u].bRunnable => tcb[u].bRunnable)
  BY <1>1, <1>2 DEF NewTcb
<1>4. c \notin Ready \cup Waiting /\ c # runQ
  BY <1>2, NoThreads DEF Good, SchedulerInv, Places
<1>5. TcbQueues' /\ Ready' = Ready \cup {c} /\ Waiting' = Waiting
  BY <1>0, <1>4, RqPush DEF Good, SchedulerInv
<1>6. Live' = Live \cup {c}
  BY <1>1 DEF Live
<1>7. /\ sched.pc = "tick" /\ Popped = {} /\ Popped' = {} /\ runQ \notin Ready \cup Waiting
      /\ (\A u \in Thread : ~ sig[u]) /\ ~ inHandler[c]
  BY <1>0, BetweenTicks DEF Popped
<1>8. JoinQueue'
  <2>1. {u \in Live' : pc'[u] # "wrap_jcb"} = {u \in Live : pc[u] # "wrap_jcb"}
    BY <1>1, <1>2, <1>6 DEF Live
  <2> QED BY <1>0, <2>1, JoinQueueSame DEF Good, SchedulerInv
<1>9. Places'
  <2>1. SameHands
    <3>1. \A u \in Thread : pc[u] = "exit_push" => arg[u] \in Thread
      BY DEF Good, SchedulerInv, Codes
    <3> QED BY <1>0, <1>1, <1>3, <3>1 DEF SameHands, Carry, ParentOf
  <2>2. \A x \in Live' : \/ x \in Ready' \cup Waiting' \cup Popped' \cup {runQ'}
                         \/ \E t \in Thread : Carry(t, x)'
    BY <1>0, <1>5, <1>6, <1>7, <2>1 DEF Good, SchedulerInv, Places, SameHands, Live
  <2>3a. \A x \in Waiting' : pc'[x] \notin WrapPc
    BY <1>1, <1>4, <1>5 DEF Good, SchedulerInv, Places, Waiting, Members
  <2>3. /\ Ready' \cup Waiting' \cup Popped' \subseteq Live'
        /\ runQ' # Null => runQ' \in Live'
        /\ Popped' \cap (Ready' \cup Waiting') = {}
    BY <1>0, <1>5, <1>6, <1>7 DEF Good, SchedulerInv, Places
  <2>4. ASSUME NEW t \in Thread, NEW x \in Thread, Carry(t, x)'
        PROVE  /\ x \in Live' \ (Ready' \cup Waiting' \cup Popped' \cup {runQ'})
               /\ pc'[x] \notin WrapPc
               /\ \A u \in Thread : Carry(u, x)' => u = t
    <3>1. Carry(t, x)
      BY <2>1, <2>4 DEF SameHands
    <3>2. /\ x \in Live \ (Ready \cup Waiting \cup Popped \cup {runQ})
          /\ pc[x] \notin WrapPc
          /\ \A u \in Thread : Carry(u, x) => u = t
      BY <3>1 DEF Good, SchedulerInv, Places
    <3>3. \A u \in Thread : Carry(u, x)' => u = t
      BY <2>1, <3>2 DEF SameHands
    <3> QED BY <1>0, <1>1, <1>2, <1>5, <1>6, <1>7, <3>2, <3>3
  <2> QED BY <2>2, <2>3, <2>3a, <2>4 DEF Places
<1>10. Loop'
  BY <1>0, <1>4, <1>5, <1>7 DEF Good, SchedulerInv, Loop
<1>11. Turns' /\ Quiet'
  <2>1. HarmlessMoves
    BY <1>0, <1>1, <1>7 DEF HarmlessMoves
  <2>2. NobodyWoken
    BY <1>0, <1>1, <1>3 DEF NobodyWoken, Good, SchedulerInv, Turns
  <2> QED BY <1>0, <1>1, <1>4, <1>5, <1>7, <2>1, <2>2, TurnsKept
<1>12. NoCrash'
  BY <1>0 DEF Good, SchedulerInv, NoCrash
<1>13. Creating'
  <2>1. \A u \in Thread : /\ pc'[u] \in CreatePc <=> pc[u] \in CreatePc
                          /\ pc'[u] \in NotPushedPc <=> pc[u] \in NotPushedPc
                          /\ pc'[u] = "none" <=> pc[u] = "none"
                          /\ pc[u] \in WrapPc \cup {"start"} => pc'[u] \in WrapPc \cup {"start"}
                          /\ pc[u] = "done" => pc'[u] = "done"
                          /\ mem'[u] = "freed" => mem[u] = "freed"
    BY <1>0, <1>1
  <2> QED BY <1>0, <1>3, <2>1, CreatingSame DEF Good, SchedulerInv, Creating
<1>14. Codes' /\ Waits' /\ Joins' /\ Children'
  <2>1. \A u \in Thread : \/ tcb'[u].pExitCode = tcb[u].pExitCode
                          \/ mem[u] = "none" /\ tcb'[u].pExitCode = Garbage
    BY <1>1, <1>2 DEF NewTcb
  <2>2. \A u \in Thread : (mem[u] # "none" => mem'[u] # "none")
                          /\ (u \in Live' => u \in Live \/ mem[u] = "none")
    BY <1>1, <1>2, <1>6
  <2>3. \A u \in Thread : pc[u] \in JoinExitPc \/ pc'[u] \in JoinExitPc => pc'[u] = pc[u] /\ arg'[u] = arg[u]
    BY <1>0, <1>1 DEF JoinExitPc
  <2> QED BY <1>0, <1>1, <1>3, <1>5, <1>6, <2>1, <2>2, <2>3, JoinsSame
<1>15. Tree'
  BY <1>0, <1>1, <1>3, TreeSame DEF Good, SchedulerInv
<1> QED BY <1>5, <1>8, <1>9, <1>10, <1>11, <1>12, <1>13, <1>14, <1>15 DEF SchedulerInv

\* The new join structure joins the join queue.
LEMMA WrapJcbSafe ==
  ASSUME Good, Inv', NEW c \in Thread, WrapJcb(c)
  PROVE  SchedulerInv'
<1>0. /\ Executes(c) /\ pc[c] = "wrap_jcb" /\ TypeOK
      /\ jcb' = [jcb EXCEPT ![c] = Null] /\ jq_push(c)
      /\ pc' = [pc EXCEPT ![c] = "wrap_flag"]
      /\ UNCHANGED << queueVars, tcbVars, isPushed, sched, arg, sigVars, rest >>
  BY DEF WrapJcb, At, Goto, Good, Inv
<1>1. pc'[c] = "wrap_flag" /\ \A u \in Thread : u # c => pc'[u] = pc[u]
  BY <1>0 DEF TypeOK
<1>2. jcb' = jcb
  <2>1. jcb[c] = Null
    BY <1>0 DEF Good, SchedulerInv, Creating, Codes
  <2> QED BY <1>0, <2>1 DEF TypeOK
<1>3. Waiting' = Waiting /\ Live' = Live /\ TcbQueues' /\ Ready' = Ready
  BY <1>0, QueuesSame DEF Good, SchedulerInv, Live
<1>4. TcbQueues' /\ Places' /\ Loop' /\ Turns' /\ Quiet' /\ NoCrash'
  <2>1. HarmlessMoves
    BY <1>0, <1>1, BetweenTicks DEF HarmlessMoves
  <2>2. NobodyWoken
    BY <1>0, <1>1 DEF NobodyWoken, Good, SchedulerInv, Turns
  <2>3. SameHands
    BY <1>0, <1>1 DEF SameHands, Carry, ParentOf
  <2>4. sched.pc = "tick" /\ \A u \in Thread : ~ sig[u]
    BY <1>0, BetweenTicks
  <2> QED BY <1>0, <2>1, <2>2, <2>3, <2>4, LocalStep
<1>5. JoinQueue'
  <2>1. c \in Live
    <3>1. ~ \E t \in Thread : mem[t] = "freed" /\ pc[t] # "done"
      BY DEF Good, SchedulerInv, Creating
    <3> QED BY <1>0, <3>1 DEF Good, Inv, TypeOK, MadeByWrapper, Live
  <2>2. c \notin JoinMembers
    BY <1>0 DEF Good, SchedulerInv, JoinQueue
  <2>3. {u \in Live' : pc'[u] # "wrap_jcb"} = {u \in Live : pc[u] # "wrap_jcb"} \cup {c}
    BY <1>0, <1>1, <1>3, <2>1 DEF Live
  <2> QED BY <1>0, <2>2, <2>3, JqPush DEF Good, SchedulerInv
<1>6. Creating'
  <2>1. \A u \in Thread : /\ pc'[u] \in CreatePc <=> pc[u] \in CreatePc
                          /\ pc'[u] \in NotPushedPc <=> pc[u] \in NotPushedPc
                          /\ pc'[u] = "none" <=> pc[u] = "none"
                          /\ pc[u] \in WrapPc \cup {"start"} => pc'[u] \in WrapPc \cup {"start"}
                          /\ pc[u] = "done" => pc'[u] = "done"
    BY <1>0, <1>1
  <2> QED BY <1>0, <2>1, CreatingSame DEF Good, SchedulerInv, Creating
<1>7. Codes' /\ Waits' /\ Joins' /\ Children'
  BY <1>0, <1>1, <1>2, <1>3, JoinsSame DEF JoinExitPc
<1>8. Tree'
  BY <1>0, <1>1, TreeSame DEF Good, SchedulerInv
<1> QED BY <1>4, <1>5, <1>6, <1>7, <1>8 DEF SchedulerInv

-----------------------------------------------------------------------------
(* thread_join *)

\* Nobody is his own parent.
LEMMA NotOwnParent ==
  ASSUME Good, NEW c \in Thread
  PROVE  tcb[c].parentTid # c
<1>1. {c} \in SUBSET Thread /\ {c} # {}
  OBVIOUS
<1>2. ~ ChildOf(c, c)
  BY <1>1 DEF Good, SchedulerInv, Tree
<1> QED BY <1>2 DEF ChildOf

\* While t executes nobody else has anything in his hands.
LEMMA HandsEmpty ==
  ASSUME Good, NEW t \in Thread, t \in Holder, NEW u \in Thread, u # t, NEW x
  PROVE  ~ Carry(u, x)
BY NobodyElse DEF Carry

\* What a join knows of its child before it waits and after.
LEMMA JoinKnows ==
  ASSUME Good, NEW t \in Thread, pc[t] \in JoinPc \cup {"join_wait"}
  PROVE  /\ JoinsUsed /\ Ticks = "between_calls" /\ "suspend" \notin Ops
         /\ arg[t] \in Live /\ arg[t] \in Thread /\ tcb[arg[t]].parentTid = t /\ arg[t] # t
<1>1. JoinsUsed /\ Ticks = "between_calls" /\ "suspend" \notin Ops
  BY Modes
<1>2. arg[t] \in Live /\ tcb[arg[t]].parentTid = t
  BY DEF Good, SchedulerInv, Joins
<1> QED BY <1>1, <1>2, NotOwnParent DEF Live

\* The caller leaves RunQHead; it is in its own hands.
LEMMA JoinSafe ==
  ASSUME Good, Inv', NEW t \in Thread, NEW c \in Thread, Join(t, c)
  PROVE  SchedulerInv'
<1>0. /\ Executes(t) /\ pc[t] = "user" /\ JoinsUsed /\ TypeOK
      /\ mem[c] = "live" /\ tcb[c].parentTid = t /\ jcb[c] # t
  BY DEF Join, AtCall, MayJoin, Good, Inv, Disciplined
<1>1. /\ t \in Holder /\ sched.pc = "tick" /\ (\A u \in Thread : ~ sig[u]) /\ ~ inHandler[t]
      /\ runQ = t /\ runQ \notin Ready \cup Waiting /\ Popped = {} /\ Ticks = "between_calls"
      /\ \A u \in Thread : u # t => pc[u] \in RestPc \cup WrapPc /\ ~ tcb[u].bRunnable
  BY <1>0, ExecutesAlone, BetweenTicks, NobodyElse, Modes
<1>2. \A u, x \in Thread : ~ Carry(u, x)
  BY <1>0, <1>1, HandsEmpty DEF Carry
<1>3. c # t /\ c \in Live /\ jcb[c] = Null /\ pc[c] \notin ExitPc
  BY <1>0, <1>1, NotOwnParent DEF Good, SchedulerInv, Codes, Live
<1>4. t \in Live
  BY <1>1, NoThreads DEF Good, SchedulerInv, Places
<1>5. getThread(t) # Null /\ getThread(c) # Null
  BY <1>1, <1>2, <1>3, <1>4, LiveFound
<1>6. /\ runQ' = Null /\ arg' = [arg EXCEPT ![t] = c] /\ pc' = [pc EXCEPT ![t] = "join_push"]
      /\ UNCHANGED << readyQ, waitQ, link, joinVars, tcbVars, isPushed, sched, sigVars, rest >>
  BY <1>5 DEF Join, Goto
<1>7. /\ pc'[t] = "join_push" /\ arg'[t] = c
      /\ \A u \in Thread : u # t => pc'[u] = pc[u] /\ arg'[u] = arg[u]
  BY <1>0, <1>6 DEF TypeOK
<1>8. TcbQueues' /\ Ready' = Ready /\ Waiting' = Waiting /\ Live' = Live /\ Popped' = {}
  BY <1>1, <1>6, QueuesSame DEF Good, SchedulerInv, Live, Popped
<1>9. JoinQueue'
  <2>1. {u \in Live' : pc'[u] # "wrap_jcb"} = {u \in Live : pc[u] # "wrap_jcb"}
    BY <1>0, <1>6, <1>7 DEF Live
  <2> QED BY <1>6, <2>1, JoinQueueSame DEF Good, SchedulerInv
<1>10. \A u, x \in Thread : Carry(u, x)' <=> u = t /\ x = t
  BY <1>0, <1>1, <1>7 DEF Carry
<1>11. Places'
  BY <1>1, <1>2, <1>4, <1>6, <1>7, <1>8, <1>10, NoThreads DEF Good, SchedulerInv, Places, Live
<1>12. Loop'
  BY <1>0, <1>1, <1>6, <1>8, NoThreads DEF Good, SchedulerInv, Loop, Ready, Waiting, Members
<1>13. Turns' /\ Quiet'
  <2>1. Running' = {} /\ Yielding' = {t}
    BY <1>1, <1>6, <1>7 DEF Running, Yielding
  <2>2. Holder' = {t} /\ Holder = {t}
    BY <1>1, <1>8, <2>1, OneHolder DEF Holder
  <2>3. Turns'
    BY <1>1, <1>6, <1>7, <1>8, <2>1, <2>2 DEF Good, SchedulerInv, Turns
  <2> QED BY <1>1, <1>6, <1>7, <2>3 DEF Good, SchedulerInv, Quiet
<1>14. Creating'
  BY <1>0, <1>6, <1>7, CreatingSame DEF Good, SchedulerInv, Creating
<1>15. Codes'
  BY <1>0, <1>6, <1>7 DEF Good, SchedulerInv, Codes, Exiting
<1>16. Waits'
  BY <1>0, <1>1, <1>6, <1>7, <1>8 DEF Good, SchedulerInv, Waits, Waiting, Members
<1>17. Joins'
  BY <1>0, <1>1, <1>3, <1>6, <1>7, <1>8 DEF Good, SchedulerInv, Joins, Live
<1>18. Children'
  <2>1. \A d \in Thread : LET p == tcb[d].parentTid IN
       /\ pc'[d] \in {"exit_wake", "exit_push"} => p \in Thread /\ pc'[p] = "join_wait" /\ arg'[p] = d
       /\ pc'[d] = "exit_wake" => p \in Waiting
    BY <1>0, <1>1, <1>7 DEF Good, SchedulerInv, Children
  <2>2. ASSUME NEW d \in Thread, d \in Live, ~ Exiting(d)', jcb[d] # Null
        PROVE  LET p == tcb[d].parentTid
               IN p \in Waiting /\ pc'[p] \in {"join_enter", "join_wait"} /\ arg'[p] = d
    <3>1. ~ Exiting(d)
      BY <2>2, <1>0, <1>7 DEF Exiting
    <3>2. LET p == tcb[d].parentTid
          IN p \in Waiting /\ pc[p] \in {"join_enter", "join_wait"} /\ arg[p] = d
      BY <2>2, <3>1, <1>0 DEF Good, SchedulerInv, Children
    <3> QED BY <3>2, <1>0, <1>7 DEF Waiting, Members
  <2>3. \A u, d \in Thread : tcb[d].parentTid = u =>
          mem[u] # "none" /\ (Ticks = "between_calls" => pc'[u] \notin WrapPc \cup {"start"})
    BY <1>0, <1>7 DEF Good, SchedulerInv, Children
  <2> QED BY <1>6, <1>8, <2>1, <2>2, <2>3 DEF Children
<1>19. Tree'
  BY <1>0, <1>6, <1>7, TreeSame DEF Good, SchedulerInv
<1>20. NoCrash'
  BY <1>6 DEF Good, SchedulerInv, NoCrash
<1> QED BY <1>8, <1>9, <1>11, <1>12, <1>13, <1>14, <1>15, <1>16, <1>17, <1>18, <1>19, <1>20
        DEF SchedulerInv

\* The caller queues itself.
LEMMA JoinPushSafe ==
  ASSUME Good, Inv', NEW t \in Thread, JoinPush(t)
  PROVE  SchedulerInv'
<1>0. /\ Executes(t) /\ pc[t] = "join_push" /\ TypeOK /\ wq_push(t)
      /\ pc' = [pc EXCEPT ![t] = "join_check"]
      /\ UNCHANGED << readyQ, runQ, joinVars, tcbVars, isPushed, sched, arg, sigVars, rest >>
  BY DEF JoinPush, At, Goto, Good, Inv
<1>1. /\ t \in Holder /\ sched.pc = "tick" /\ (\A u \in Thread : ~ sig[u]) /\ ~ inHandler[t]
      /\ runQ = Null /\ Popped = {} /\ Ticks = "between_calls" /\ JoinsUsed
      /\ \A u \in Thread : u # t => pc[u] \in RestPc \cup WrapPc
  BY <1>0, ExecutesAlone, BetweenTicks, NobodyElse, Modes
<1>2. Carry(t, t) /\ t \in Live /\ t \notin Ready \cup Waiting
  BY <1>0 DEF Carry, Good, SchedulerInv, Places
<1>3. pc'[t] = "join_check" /\ \A u \in Thread : u # t => pc'[u] = pc[u]
  BY <1>0 DEF TypeOK
<1>4. TcbQueues' /\ Ready' = Ready /\ Waiting' = Waiting \cup {t} /\ Live' = Live /\ Popped' = {}
  BY <1>0, <1>1, <1>2, WqPush DEF Good, SchedulerInv, Live, Popped
<1>5. JoinQueue'
  <2>1. {u \in Live' : pc'[u] # "wrap_jcb"} = {u \in Live : pc[u] # "wrap_jcb"}
    BY <1>0, <1>3 DEF Live
  <2> QED BY <1>0, <2>1, JoinQueueSame DEF Good, SchedulerInv
<1>6. \A u, x \in Thread : ~ Carry(u, x)' /\ (Carry(u, x) => x = t)
  BY <1>0, <1>1, <1>3, HandsEmpty DEF Carry
<1>7. Places'
  BY <1>0, <1>1, <1>2, <1>4, <1>6, NoThreads DEF Good, SchedulerInv, Places, Live
<1>8. Loop'
  BY <1>0, <1>1, <1>4, NoThreads DEF Good, SchedulerInv, Loop, Ready, Waiting, Members
<1>9. Turns' /\ Quiet'
  <2>1. HarmlessMoves
    BY <1>0, <1>1, <1>3 DEF HarmlessMoves
  <2>2. NobodyWoken
    BY <1>0, <1>3 DEF NobodyWoken, Good, SchedulerInv, Turns
  <2> QED BY <1>0, <1>1, <1>4, <2>1, <2>2, TurnsKept
<1>10. Creating'
  BY <1>0, <1>1, <1>3, CreatingSame DEF Good, SchedulerInv, Creating
<1>11. Codes'
  BY <1>0, <1>3 DEF Good, SchedulerInv, Codes, Exiting
<1>12. Waits'
  BY <1>0, <1>1, <1>3, <1>4 DEF Good, SchedulerInv, Waits, Waiting, Members
<1>13. Joins'
  BY <1>0, <1>1, <1>3, <1>4, JoinKnows DEF Good, SchedulerInv, Joins, Live
<1>14. Children'
  BY <1>0, <1>1, <1>3, <1>4 DEF Good, SchedulerInv, Children, Exiting
<1>15. Tree'
  BY <1>0, <1>3, TreeSame DEF Good, SchedulerInv
<1>16. NoCrash'
  BY <1>0 DEF Good, SchedulerInv, NoCrash
<1> QED BY <1>4, <1>5, <1>7, <1>8, <1>9, <1>10, <1>11, <1>12, <1>13, <1>14, <1>15, <1>16
        DEF SchedulerInv

\* The child has not exited: it is marked, and its parent goes to wait for it.
LEMMA JoinCheckSafe ==
  ASSUME Good, Inv', NEW t \in Thread, JoinCheck(t)
  PROVE  SchedulerInv'
<1> DEFINE c == arg[t]
<1>0. Executes(t) /\ pc[t] = "join_check" /\ TypeOK /\ t \in Holder
  BY ExecutesAlone DEF JoinCheck, At, Good, Inv
<1>1. /\ JoinsUsed /\ Ticks = "between_calls"
      /\ c \in Live /\ c \in Thread /\ tcb[c].parentTid = t /\ c # t
  BY <1>0, JoinKnows
<1>2. jcb[c] = Null /\ pc[c] \notin ExitPc /\ t \in Waiting
  BY <1>0 DEF Good, SchedulerInv, Joins, Waits
<1>3. jq_search(c) # Null
  <2>1. c \in JoinMembers
    BY <1>1, NoThreads DEF Good, SchedulerInv, JoinQueue, Creating
  <2> QED BY <1>1, <2>1, NoThreads DEF jq_search, Search, JoinMembers
<1>4. /\ tcb' = [tcb EXCEPT ![t].bRunnable = FALSE] /\ jcb' = [jcb EXCEPT ![c] = t]
      /\ pc' = [pc EXCEPT ![t] = "join_enter"]
      /\ UNCHANGED << queueVars, joinQ, jlink, mem, isPushed, sched, arg, sigVars, rest >>
  BY <1>2, <1>3 DEF JoinCheck, Goto
<1>5. /\ pc'[t] = "join_enter" /\ \A u \in Thread : u # t => pc'[u] = pc[u]
      /\ jcb'[c] = t /\ \A u \in Thread : u # c => jcb'[u] = jcb[u]
      /\ ~ tcb'[t].bRunnable
      /\ \A u \in Thread : /\ tcb'[u].bRunnable => tcb[u].bRunnable
                           /\ tcb'[u].parentTid = tcb[u].parentTid
                           /\ tcb'[u].pExitCode = tcb[u].pExitCode
  BY <1>0, <1>1, <1>4 DEF TypeOK, TcbType
<1> HIDE DEF c
<1>6. FirstHalf
  BY <1>0, <1>4, <1>5, OneMoves
<1>7. Creating'
  <2>1. \A u \in Thread : pc[u] \in CreatePc => FALSE
    BY <1>0, <1>1, NobodyElse
  <2> QED BY <1>0, <1>4, <1>5, <2>1, CreatingSame DEF Good, SchedulerInv, Creating
<1>8. Codes'
  BY <1>0, <1>1, <1>4, <1>5 DEF Good, SchedulerInv, Codes, Exiting
<1>9. Waits'
  BY <1>0, <1>1, <1>2, <1>4, <1>5, <1>6 DEF FirstHalf, Good, SchedulerInv, Waits, Waiting, Members
<1>10. Joins'
  BY <1>0, <1>1, <1>2, <1>4, <1>5, <1>6 DEF c, FirstHalf, Good, SchedulerInv, Joins, Live
<1>11. Children'
  BY <1>0, <1>1, <1>2, <1>4, <1>5, <1>6 DEF c, FirstHalf, Good, SchedulerInv, Children, Exiting, Live
<1>12. Tree'
  BY <1>0, <1>4, <1>5, TreeSame DEF Good, SchedulerInv
<1> QED BY <1>6, <1>7, <1>8, <1>9, <1>10, <1>11, <1>12 DEF FirstHalf, SchedulerInv

\* The caller finds its own TCB in the wait queue.
LEMMA JoinEnterSafe ==
  ASSUME Good, Inv', NEW t \in Thread, JoinEnter(t)
  PROVE  SchedulerInv'
<1>0. Executes(t) /\ pc[t] = "join_enter" /\ TypeOK /\ t \in Holder
  BY ExecutesAlone DEF JoinEnter, WaitEnter, At, Good, Inv
<1>1. JoinsUsed /\ Ticks = "between_calls" /\ t \in Waiting /\ ~ tcb[t].bRunnable
  BY <1>0, JoinKnows DEF Good, SchedulerInv, Waits, Turns
<1>2. getThread(t) # Null
  BY <1>1, NoThreads DEF getThread
<1>3. /\ pc' = [pc EXCEPT ![t] = "join_wait"]
      /\ UNCHANGED << queueVars, joinVars, tcbVars, isPushed, sched, arg, sigVars, rest >>
  BY <1>2 DEF JoinEnter, WaitEnter, Goto
<1>4. pc'[t] = "join_wait" /\ \A u \in Thread : u # t => pc'[u] = pc[u]
  BY <1>0, <1>3 DEF TypeOK
<1>5. FirstHalf
  BY <1>0, <1>1, <1>3, OneMoves
<1>6. Creating'
  <2>1. \A u \in Thread : pc[u] \in CreatePc => FALSE
    BY <1>0, <1>1, NobodyElse
  <2> QED BY <1>0, <1>3, <1>4, <2>1, CreatingSame DEF Good, SchedulerInv, Creating
<1>7. Codes'
  BY <1>0, <1>3, <1>4 DEF Good, SchedulerInv, Codes, Exiting
<1>8. Waits'
  BY <1>0, <1>1, <1>3, <1>4, <1>5 DEF FirstHalf, Good, SchedulerInv, Waits, Waiting, Members
<1>9. Joins'
  BY <1>0, <1>1, <1>3, <1>4, <1>5 DEF FirstHalf, Good, SchedulerInv, Joins, Live
<1>10. Children'
  BY <1>0, <1>1, <1>3, <1>4, <1>5 DEF FirstHalf, Good, SchedulerInv, Children, Exiting, Live
<1>11. Tree'
  BY <1>0, <1>3, <1>4, TreeSame DEF Good, SchedulerInv
<1> QED BY <1>5, <1>6, <1>7, <1>8, <1>9, <1>10, <1>11 DEF FirstHalf, SchedulerInv

\* A thread that returns from its join's wait was woken by its child, which
\* has ended since.
LEMMA JoinReturnSafe ==
  ASSUME Good, Inv', NEW t \in Thread, JoinReturn(t)
  PROVE  SchedulerInv'
<1> DEFINE c == arg[t]
<1>0. /\ Executes(t) /\ pc[t] = "join_wait" /\ TypeOK /\ tcb[t].bRunnable
      /\ pc' = [pc EXCEPT ![t] = "join_collect"]
      /\ UNCHANGED << queueVars, joinVars, tcbVars, isPushed, sched, arg, sigVars, rest >>
  BY DEF JoinReturn, WaitReturn, At, Goto, Good, Inv
<1>1. /\ JoinsUsed /\ Ticks = "between_calls"
      /\ c \in Live /\ c \in Thread /\ tcb[c].parentTid = t /\ c # t
  BY <1>0, JoinKnows
<1>2. /\ t \in Holder /\ t \notin Waiting
      /\ \A u \in Thread : u # t => pc[u] \in RestPc \cup WrapPc
  <2>1. t \in Holder /\ \A u \in Thread : u # t => pc[u] \in RestPc \cup WrapPc
    BY <1>0, <1>1, RunnableAlone, NobodyElse
  <2>2. t = runQ /\ runQ \notin Waiting
    BY <1>0, <2>1, BetweenTicks DEF Holder, Running, Yielding
  <2> QED BY <2>1, <2>2
<1>3. pc[c] = "done" /\ tcb[c].pExitCode = c
  BY <1>0, <1>1, <1>2 DEF Good, SchedulerInv, Joins
<1>4. pc'[t] = "join_collect" /\ \A u \in Thread : u # t => pc'[u] = pc[u]
  BY <1>0 DEF TypeOK
<1> HIDE DEF c
<1>5. FirstHalf
  BY <1>0, <1>2, OneMoves
<1>6. Creating'
  BY <1>0, <1>2, <1>4, CreatingSame DEF Good, SchedulerInv, Creating
<1>7. Codes'
  BY <1>0, <1>4 DEF Good, SchedulerInv, Codes, Exiting
<1>8. Waits'
  BY <1>0, <1>1, <1>2, <1>4, <1>5 DEF FirstHalf, Good, SchedulerInv, Waits, Waiting, Members
<1>9. Joins'
  BY <1>0, <1>1, <1>2, <1>3, <1>4, <1>5 DEF c, FirstHalf, Good, SchedulerInv, Joins, Live
<1>10. Children'
  BY <1>0, <1>1, <1>2, <1>4, <1>5 DEF FirstHalf, Good, SchedulerInv, Children, Exiting, Live
<1>11. Tree'
  BY <1>0, <1>4, TreeSame DEF Good, SchedulerInv
<1> QED BY <1>5, <1>6, <1>7, <1>8, <1>9, <1>10, <1>11 DEF FirstHalf, SchedulerInv

\* It returns the exit code of that child ...
LEMMA JoinCollectSafe ==
  ASSUME Good, Inv', NEW t \in Thread, JoinCollect(t)
  PROVE  SchedulerInv'
<1> DEFINE c == arg[t]
<1>0. /\ Executes(t) /\ pc[t] = "join_collect" /\ TypeOK
      /\ got' = [got EXCEPT ![c] = tcb[c].pExitCode]
      /\ pc' = [pc EXCEPT ![t] = "join_free"]
      /\ UNCHANGED << queueVars, joinVars, tcbVars, isPushed, sched, arg, sigVars, parked, crashed >>
  BY DEF JoinCollect, At, Goto, Good, Inv
<1>1. /\ JoinsUsed /\ Ticks = "between_calls"
      /\ c \in Live /\ c \in Thread /\ tcb[c].parentTid = t /\ c # t
  BY <1>0, JoinKnows
<1>2. t \in Holder /\ \A u \in Thread : u # t => pc[u] \in RestPc \cup WrapPc
  BY <1>0, <1>1, ExecutesAlone, NobodyElse
<1>3. pc[c] = "done" /\ tcb[c].pExitCode = c /\ t \notin Waiting
  BY <1>0 DEF Good, SchedulerInv, Joins
<1>4. pc'[t] = "join_free" /\ \A u \in Thread : u # t => pc'[u] = pc[u]
  BY <1>0 DEF TypeOK
<1>4a. \A u \in Thread : got'[u] \in {Null, u}
  BY <1>0, <1>1, <1>3 DEF Good, SchedulerInv, Codes, TypeOK
<1> HIDE DEF c
<1>5. FirstHalf
  BY <1>0, <1>2, OneMoves
<1>6. Creating'
  BY <1>0, <1>2, <1>4, CreatingSame DEF Good, SchedulerInv, Creating
<1>7. Codes'
  BY <1>0, <1>4, <1>4a DEF Good, SchedulerInv, Codes, Exiting
<1>8. Waits'
  BY <1>0, <1>1, <1>2, <1>3, <1>4, <1>5 DEF FirstHalf, Good, SchedulerInv, Waits, Waiting, Members
<1>9. Joins'
  BY <1>0, <1>1, <1>2, <1>3, <1>4, <1>5 DEF c, FirstHalf, Good, SchedulerInv, Joins, Live
<1>10. Children'
  BY <1>0, <1>1, <1>2, <1>4, <1>5 DEF FirstHalf, Good, SchedulerInv, Children, Exiting, Live
<1>11. Tree'
  BY <1>0, <1>4, TreeSame DEF Good, SchedulerInv
<1> QED BY <1>5, <1>6, <1>7, <1>8, <1>9, <1>10, <1>11 DEF FirstHalf, SchedulerInv

\* ... and takes it out of the queues before it is freed.
LEMMA JoinFreeSafe ==
  ASSUME Good, Inv', NEW t \in Thread, JoinFree(t),
         Exact(readyQ, link, arg[t]), Exact(joinQ, jlink, arg[t])
  PROVE  SchedulerInv'
<1> DEFINE c == arg[t]
<1>0. /\ Executes(t) /\ pc[t] = "join_free" /\ TypeOK
      /\ rq_remove(c) /\ jq_remove(c) /\ mem' = [mem EXCEPT ![c] = "freed"]
      /\ pc' = [pc EXCEPT ![t] = "user"] /\ arg' = [arg EXCEPT ![t] = Null]
      /\ UNCHANGED << waitQ, runQ, jcb, tcb, isPushed, sched, sigVars, rest >>
  BY DEF JoinFree, At, Leave, Goto, Good, Inv
<1>1. /\ JoinsUsed /\ Ticks = "between_calls"
      /\ c \in Live /\ c \in Thread /\ tcb[c].parentTid = t /\ c # t
  BY <1>0, JoinKnows
<1>2. /\ t \in Holder /\ \A u \in Thread : u # t => pc[u] \in RestPc \cup WrapPc
      /\ sched.pc = "tick" /\ (\A u \in Thread : ~ sig[u]) /\ ~ inHandler[t]
      /\ runQ = t /\ runQ \notin Ready \cup Waiting /\ Popped = {}
  BY <1>0, <1>1, ExecutesAlone, NobodyElse, BetweenTicks
<1>3. pc[c] = "done" /\ t \notin Waiting /\ c \notin Waiting
  BY <1>0, <1>1 DEF Good, SchedulerInv, Joins, Waits
<1>4. /\ pc'[t] = "user" /\ \A u \in Thread : u # t => pc'[u] = pc[u] /\ arg'[u] = arg[u]
      /\ mem'[c] = "freed" /\ \A u \in Thread : u # c => mem'[u] = mem[u]
  BY <1>0, <1>1 DEF TypeOK
<1>5. TcbQueues' /\ Ready' = Ready \ {c} /\ Waiting' = Waiting
  <2>1. CASE c \in Ready
    BY <2>1, <1>0, RqRemove DEF Good, SchedulerInv
  <2>2. CASE c \notin Ready
    <3>1. UNCHANGED << readyQ, link >>
      BY <1>0, <2>2 DEF rq_remove
    <3> QED BY <1>0, <2>2, <3>1, QueuesSame DEF Good, SchedulerInv
  <2> QED BY <2>1, <2>2
<1>6. Live' = Live \ {c} /\ Popped' = {}
  BY <1>0, <1>2, <1>4 DEF Live, Popped
<1>7. JoinQueue'
  <2>1. c \in JoinMembers
    BY <1>1, <1>3 DEF Good, SchedulerInv, JoinQueue
  <2>2. {u \in Live' : pc'[u] # "wrap_jcb"} = {u \in Live : pc[u] # "wrap_jcb"} \ {c}
    BY <1>0, <1>4, <1>6 DEF Live
  <2> QED BY <1>0, <2>1, <2>2, JqRemove DEF Good, SchedulerInv
<1>8. \A u, x \in Thread : ~ Carry(u, x) /\ ~ Carry(u, x)'
  BY <1>0, <1>2, <1>4, HandsEmpty DEF Carry
<1> HIDE DEF c
<1>9. Places'
  BY <1>0, <1>1, <1>2, <1>3, <1>5, <1>6, <1>8 DEF Good, SchedulerInv, Places, Live
<1>10. Loop'
  BY <1>0, <1>2, <1>5 DEF Good, SchedulerInv, Loop
<1>11. Turns' /\ Quiet'
  <2>1. HarmlessMoves
    BY <1>0, <1>2, <1>4 DEF HarmlessMoves
  <2>2. NobodyWoken
    BY <1>0, <1>4 DEF NobodyWoken, Good, SchedulerInv, Turns
  <2>3. \A u \in Thread : mem[u] # "none" => mem'[u] # "none"
    BY <1>4
  <2>4. runQ \in Ready' <=> runQ \in Ready
    BY <1>2, <1>5
  <2> QED BY <1>0, <1>2, <2>1, <2>2, <2>3, <2>4, TurnsKept
<1>12. Creating'
  <2>1. \A u \in Thread : pc[u] \notin CreatePc
    BY <1>0, <1>2
  <2>2. \A u \in Thread : mem'[u] = "freed" => pc'[u] = "done"
    BY <1>0, <1>1, <1>3, <1>4 DEF Good, SchedulerInv, Creating
  <2> QED BY <1>0, <1>4, <2>1, <2>2, CreatingSame DEF Good, SchedulerInv
<1>13. Codes'
  BY <1>0, <1>1, <1>4, NoThreads DEF Good, SchedulerInv, Codes, Exiting
<1>14. Waits'
  BY <1>0, <1>1, <1>2, <1>3, <1>4, <1>5 DEF Good, SchedulerInv, Waits, Waiting, Members
<1>15. Joins'
  BY <1>0, <1>1, <1>4, <1>5, <1>6 DEF Good, SchedulerInv, Joins, Live
<1>16. Children'
  BY <1>0, <1>1, <1>3, <1>4, <1>5, <1>6 DEF Good, SchedulerInv, Children, Exiting, Live
<1>17. Tree'
  BY <1>0, <1>4, TreeSame DEF Good, SchedulerInv
<1>18. NoCrash'
  BY <1>0 DEF Good, SchedulerInv, NoCrash
<1> QED BY <1>5, <1>7, <1>9, <1>10, <1>11, <1>12, <1>13, <1>14, <1>15, <1>16, <1>17, <1>18
        DEF SchedulerInv

-----------------------------------------------------------------------------
(* thread_exit *)

\* A parent that has marked its child waits for it.
LEMMA ExitSafe ==
  ASSUME Good, Inv', NEW t \in Thread, Exit(t)
  PROVE  SchedulerInv'
<1> DEFINE p == tcb[t].parentTid
           l == IF getThread(p) = Null THEN "exit_code"
                ELSE IF jcb[t] = p THEN "exit_wake" ELSE "exit_mark"
<1>0. Executes(t) /\ pc[t] = "user" /\ TypeOK
  BY DEF Exit, AtCall, Good, Inv
<1>1. /\ t \in Holder /\ sched.pc = "tick" /\ runQ = t /\ t \notin Waiting /\ p # t
      /\ \A u \in Thread : u # t => pc[u] \notin SuspendPc \cup JoinPc \cup {"exit_wake", "exit_push"}
  BY <1>0, ExecutesAlone, BetweenTicks, NobodyElse, NotOwnParent
<1>2. t \in Live /\ \A u \in Thread : ~ Carry(u, t)
  <2>1. t \in Live
    BY <1>1, NoThreads DEF Good, SchedulerInv, Places
  <2>2. \A u \in Thread : ~ Carry(u, t)
    BY <1>1 DEF Good, SchedulerInv, Places
  <2> QED BY <2>1, <2>2
<1>3. getThread(t) # Null /\ jq_search(t) # Null
  <2>1. getThread(t) # Null
    BY <1>1, <1>2, LiveFound
  <2>2. t \in JoinMembers
    BY <1>0, <1>2 DEF Good, SchedulerInv, JoinQueue
  <2> QED BY <2>1, <2>2, NoThreads DEF jq_search, Search, JoinMembers
<1>4. /\ pc' = [pc EXCEPT ![t] = l] /\ arg' = [arg EXCEPT ![t] = t]
      /\ UNCHANGED << queueVars, joinVars, tcbVars, isPushed, sched, sigVars, rest >>
  BY <1>3, NoThreads DEF Exit, Goto
<1>5. /\ l \in {"exit_code", "exit_wake", "exit_mark"}
      /\ l = "exit_wake" => jcb[t] = p /\ p \in Thread
      /\ p \in Waiting /\ jcb[t] = p => l = "exit_wake"
  <2>1. getThread(p) # Null => p \in Thread
    BY <1>0, GetThreadFinds
  <2>2. p \in Waiting => getThread(p) # Null
    BY NoThreads DEF getThread, Waiting, Members
  <2> QED BY <2>1, <2>2
<1> HIDE DEF l
<1>6. /\ pc'[t] = l /\ arg'[t] = t
      /\ \A u \in Thread : u # t => pc'[u] = pc[u] /\ arg'[u] = arg[u]
  BY <1>0, <1>4 DEF TypeOK
<1>7. l = "exit_wake" => /\ JoinsUsed /\ p \in Thread /\ p # t /\ p \in Waiting
                         /\ pc[p] = "join_wait" /\ arg[p] = t
  <2> SUFFICES ASSUME l = "exit_wake"
               PROVE  JoinsUsed /\ p \in Thread /\ p \in Waiting /\ pc[p] = "join_wait" /\ arg[p] = t
    BY <1>1
  <2>1. jcb[t] # Null /\ p \in Thread /\ ~ Exiting(t)
    BY <1>0, <1>5, NoThreads DEF Exiting
  <2>2. JoinsUsed
    BY <2>1 DEF Good, SchedulerInv, Codes
  <2>3. p \in Waiting /\ pc[p] \in {"join_enter", "join_wait"} /\ arg[p] = t
    BY <1>2, <2>1, <2>2 DEF Good, SchedulerInv, Children
  <2> QED BY <1>1, <2>1, <2>2, <2>3
<1> HIDE DEF p
<1>8. FirstHalf
  BY <1>0, <1>1, <1>4, <1>5, <1>6, OneMoves
<1>9. Creating'
  BY <1>0, <1>4, <1>5, <1>6, CreatingSame DEF Good, SchedulerInv, Creating
<1>10. Codes'
  BY <1>0, <1>4, <1>5, <1>6 DEF Good, SchedulerInv, Codes, Exiting
<1>11. Waits'
  BY <1>0, <1>1, <1>4, <1>5, <1>6, <1>7, <1>8 DEF FirstHalf, Good, SchedulerInv, Waits, Waiting, Members
<1>12. Joins'
  BY <1>0, <1>1, <1>4, <1>5, <1>6, <1>7, <1>8 DEF p, FirstHalf, Good, SchedulerInv, Joins, Live
<1>13. Children'
  BY <1>0, <1>1, <1>4, <1>5, <1>6, <1>7, <1>8 DEF p, FirstHalf, Good, SchedulerInv, Children, Exiting, Live
<1>14. Tree'
  BY <1>0, <1>4, <1>5, <1>6, TreeSame DEF Good, SchedulerInv
<1> QED BY <1>8, <1>9, <1>10, <1>11, <1>12, <1>13, <1>14 DEF FirstHalf, SchedulerInv

\* The parent that waits is taken in hand ...
LEMMA ExitWakeSafe ==
  ASSUME Good, Inv', NEW t \in Thread, ExitWake(t), Exact(waitQ, link, ParentOf(t))
  PROVE  SchedulerInv'
<1> DEFINE p == ParentOf(t)
<1>0. /\ Executes(t) /\ pc[t] = "exit_wake" /\ TypeOK /\ wq_remove(p)
      /\ pc' = [pc EXCEPT ![t] = "exit_push"]
      /\ UNCHANGED << readyQ, runQ, joinVars, tcbVars, isPushed, sched, arg, sigVars, rest >>
  BY DEF ExitWake, At, Goto, Good, Inv
<1>1. /\ t \in Holder /\ sched.pc = "tick" /\ (\A u \in Thread : ~ sig[u]) /\ ~ inHandler[t]
      /\ runQ = t /\ runQ \notin Ready \cup Waiting /\ Popped = {} /\ Ticks = "between_calls" /\ JoinsUsed
      /\ \A u \in Thread : u # t => pc[u] \in RestPc \cup WrapPc
  BY <1>0, ExecutesAlone, BetweenTicks, NobodyElse, Modes
<1>2. /\ arg[t] = t /\ p = tcb[t].parentTid /\ p \in Thread /\ p # t /\ p \in Waiting
      /\ pc[p] = "join_wait" /\ arg[p] = t /\ p \notin Ready /\ p \in Live
  BY <1>0, NotOwnParent DEF ParentOf, Good, SchedulerInv, Codes, Children, TcbQueues, Places
<1>3. pc'[t] = "exit_push" /\ \A u \in Thread : u # t => pc'[u] = pc[u]
  BY <1>0 DEF TypeOK
<1>4. TcbQueues' /\ Ready' = Ready /\ Waiting' = Waiting \ {p} /\ Live' = Live /\ Popped' = {}
  BY <1>0, <1>1, <1>2, WqRemove DEF Good, SchedulerInv, Live, Popped
<1>5. JoinQueue'
  <2>1. {u \in Live' : pc'[u] # "wrap_jcb"} = {u \in Live : pc[u] # "wrap_jcb"}
    BY <1>0, <1>3 DEF Live
  <2> QED BY <1>0, <2>1, JoinQueueSame DEF Good, SchedulerInv
<1>6. \A u, x \in Thread : ~ Carry(u, x) /\ (Carry(u, x)' <=> u = t /\ x = p)
  BY <1>0, <1>1, <1>2, <1>3, HandsEmpty DEF Carry, ParentOf
<1> HIDE DEF p
<1>7. Places'
  BY <1>0, <1>1, <1>2, <1>3, <1>4, <1>6 DEF Good, SchedulerInv, Places, Live
<1>8. Loop'
  BY <1>0, <1>1, <1>4 DEF Good, SchedulerInv, Loop
<1>9. Turns' /\ Quiet'
  <2>1. HarmlessMoves
    BY <1>0, <1>1, <1>3 DEF HarmlessMoves
  <2>2. NobodyWoken
    BY <1>0, <1>3 DEF NobodyWoken, Good, SchedulerInv, Turns
  <2> QED BY <1>0, <1>1, <1>4, <2>1, <2>2, TurnsKept
<1>10. Creating'
  BY <1>0, <1>1, <1>3, CreatingSame DEF Good, SchedulerInv, Creating
<1>11. Codes'
  BY <1>0, <1>3 DEF Good, SchedulerInv, Codes, Exiting
<1>12. Waits'
  BY <1>0, <1>1, <1>3, <1>4 DEF Good, SchedulerInv, Waits, Waiting, Members
<1>13. Joins'
  BY <1>0, <1>1, <1>2, <1>3, <1>4 DEF Good, SchedulerInv, Joins, Live
<1>14. Children'
  BY <1>0, <1>1, <1>2, <1>3, <1>4 DEF Good, SchedulerInv, Children, Exiting
<1>15. Tree'
  BY <1>0, <1>3, TreeSame DEF Good, SchedulerInv
<1>16. NoCrash'
  BY <1>0 DEF Good, SchedulerInv, NoCrash
<1> QED BY <1>4, <1>5, <1>7, <1>8, <1>9, <1>10, <1>11, <1>12, <1>13, <1>14, <1>15, <1>16
        DEF SchedulerInv

\* ... and made ready.
LEMMA ExitPushSafe ==
  ASSUME Good, Inv', NEW t \in Thread, ExitPush(t)
  PROVE  SchedulerInv'
<1> DEFINE p == ParentOf(t)
<1>0. /\ Executes(t) /\ pc[t] = "exit_push" /\ TypeOK /\ rq_push(p)
      /\ pc' = [pc EXCEPT ![t] = "exit_code"]
      /\ UNCHANGED << waitQ, runQ, joinVars, tcbVars, isPushed, sched, arg, sigVars, rest >>
  BY DEF ExitPush, At, Goto, Good, Inv
<1>1. /\ t \in Holder /\ sched.pc = "tick" /\ (\A u \in Thread : ~ sig[u]) /\ ~ inHandler[t]
      /\ runQ = t /\ runQ \notin Ready \cup Waiting /\ Popped = {} /\ Ticks = "between_calls" /\ JoinsUsed
      /\ \A u \in Thread : u # t => pc[u] \in RestPc \cup WrapPc
  BY <1>0, ExecutesAlone, BetweenTicks, NobodyElse, Modes
<1>2. /\ arg[t] = t /\ p = tcb[t].parentTid /\ p \in Thread /\ p # t
      /\ pc[p] = "join_wait" /\ arg[p] = t
  BY <1>0, NotOwnParent DEF ParentOf, Good, SchedulerInv, Codes, Children
<1>2a. Carry(t, p) /\ p \in Live /\ p \notin Ready \cup Waiting
  BY <1>0, <1>2 DEF Carry, Good, SchedulerInv, Places
<1>3. pc'[t] = "exit_code" /\ \A u \in Thread : u # t => pc'[u] = pc[u]
  BY <1>0 DEF TypeOK
<1>4. TcbQueues' /\ Ready' = Ready \cup {p} /\ Waiting' = Waiting /\ Live' = Live /\ Popped' = {}
  BY <1>0, <1>1, <1>2, <1>2a, RqPush DEF Good, SchedulerInv, Live, Popped
<1>5. JoinQueue'
  <2>1. {u \in Live' : pc'[u] # "wrap_jcb"} = {u \in Live : pc[u] # "wrap_jcb"}
    BY <1>0, <1>3 DEF Live
  <2> QED BY <1>0, <2>1, JoinQueueSame DEF Good, SchedulerInv
<1>6. \A u, x \in Thread : ~ Carry(u, x)' /\ (Carry(u, x) => x = p)
  BY <1>0, <1>1, <1>2, <1>3, HandsEmpty DEF Carry, ParentOf
<1> HIDE DEF p
<1>7. Places'
  BY <1>0, <1>1, <1>2, <1>2a, <1>3, <1>4, <1>6 DEF Good, SchedulerInv, Places, Live
<1>8. Loop'
  BY <1>0, <1>1, <1>2, <1>4 DEF Good, SchedulerInv, Loop
<1>9. Turns' /\ Quiet'
  <2>1. HarmlessMoves
    BY <1>0, <1>1, <1>3 DEF HarmlessMoves
  <2>2. NobodyWoken
    BY <1>0, <1>3 DEF NobodyWoken, Good, SchedulerInv, Turns
  <2> QED BY <1>0, <1>1, <1>2, <1>4, <2>1, <2>2, TurnsKept
<1>10. Creating'
  BY <1>0, <1>1, <1>3, CreatingSame DEF Good, SchedulerInv, Creating
<1>11. Codes'
  BY <1>0, <1>3 DEF Good, SchedulerInv, Codes, Exiting
<1>12. Waits'
  BY <1>0, <1>1, <1>3, <1>4 DEF Good, SchedulerInv, Waits, Waiting, Members
<1>13. Joins'
  BY <1>0, <1>1, <1>2, <1>2a, <1>3, <1>4 DEF Good, SchedulerInv, Joins, Live
<1>14. Children'
  BY <1>0, <1>1, <1>2, <1>3, <1>4 DEF Good, SchedulerInv, Children, Exiting
<1>15. Tree'
  BY <1>0, <1>3, TreeSame DEF Good, SchedulerInv
<1>16. NoCrash'
  BY <1>0 DEF Good, SchedulerInv, NoCrash
<1> QED BY <1>4, <1>5, <1>7, <1>8, <1>9, <1>10, <1>11, <1>12, <1>13, <1>14, <1>15, <1>16
        DEF SchedulerInv

\* An exit in progress has found no join in progress.
LEMMA NotJoined ==
  ASSUME Good, NEW t \in Thread, pc[t] \in {"user", "exit_mark"}, Executes(t),
         NEW u \in Thread, pc[u] \in JoinPc \cup {"join_wait"}, arg[u] = t
  PROVE  pc[t] = "user" /\ pc[u] = "join_wait" /\ u \in Waiting
<1>1. u # t /\ t \in Holder
  BY JoinKnows, ExecutesAlone
<1>2. pc[u] = "join_wait"
  BY <1>1, NobodyElse
<1> QED BY <1>2 DEF Good, SchedulerInv, Joins

\* The mark that is left for a parent to find.
LEMMA ExitMarkSafe ==
  ASSUME Good, Inv', NEW t \in Thread, ExitMark(t)
  PROVE  SchedulerInv'
<1>0. /\ Executes(t) /\ pc[t] = "exit_mark" /\ TypeOK
      /\ jcb' = [jcb EXCEPT ![t] = ParentOf(t)]
      /\ pc' = [pc EXCEPT ![t] = "exit_code"]
      /\ UNCHANGED << queueVars, joinQ, jlink, tcbVars, isPushed, sched, arg, sigVars, rest >>
  BY DEF ExitMark, At, Goto, Good, Inv
<1>1. t \in Holder
  BY <1>0, ExecutesAlone
<1>2. /\ pc'[t] = "exit_code" /\ \A u \in Thread : u # t => pc'[u] = pc[u]
      /\ jcb'[t] = tcb[t].parentTid /\ \A u \in Thread : u # t => jcb'[u] = jcb[u]
  BY <1>0 DEF TypeOK, ParentOf, Good, SchedulerInv, Codes
<1>3. \A u \in Thread : pc[u] \in JoinPc \cup {"join_wait"} => arg[u] # t
  BY <1>0, NotJoined
<1>4. FirstHalf
  BY <1>0, <1>1, OneMoves
<1>5. Creating'
  BY <1>0, <1>2, CreatingSame DEF Good, SchedulerInv, Creating
<1>6. Codes'
  BY <1>0, <1>2 DEF Good, SchedulerInv, Codes, Exiting
<1>7. Waits'
  BY <1>0, <1>2, <1>4 DEF FirstHalf, Good, SchedulerInv, Waits, Waiting, Members
<1>8. Joins'
  BY <1>0, <1>2, <1>3, <1>4 DEF FirstHalf, Good, SchedulerInv, Joins, Live
<1>9. Children'
  BY <1>0, <1>2, <1>4 DEF FirstHalf, Good, SchedulerInv, Children, Exiting, Live
<1>10. Tree'
  BY <1>0, <1>2, TreeSame DEF Good, SchedulerInv
<1> QED BY <1>4, <1>5, <1>6, <1>7, <1>8, <1>9, <1>10 DEF FirstHalf, SchedulerInv

\* The exit code is there before the thread has ended.
LEMMA ExitCodeSafe ==
  ASSUME Good, Inv', NEW t \in Thread, ExitCode(t)
  PROVE  SchedulerInv'
<1>0. /\ Executes(t) /\ pc[t] = "exit_code" /\ TypeOK /\ arg[t] = t
      /\ tcb' = [tcb EXCEPT ![t].pExitCode = t]
      /\ pc' = [pc EXCEPT ![t] = "done"] /\ arg' = [arg EXCEPT ![t] = Null]
      /\ UNCHANGED << queueVars, joinVars, mem, isPushed, sched, sigVars, rest >>
  BY DEF ExitCode, At, Leave, Goto, Good, Inv, SchedulerInv, Codes
<1>1. t \in Holder /\ t \notin Waiting /\ \A u \in Thread : u # t => pc[u] \notin JoinPc
  BY <1>0, ExecutesAlone, BetweenTicks, NobodyElse
<1>2. /\ pc'[t] = "done" /\ \A u \in Thread : u # t => pc'[u] = pc[u] /\ arg'[u] = arg[u]
      /\ tcb'[t].pExitCode = t
      /\ \A u \in Thread : /\ u # t => tcb'[u].pExitCode = tcb[u].pExitCode
                           /\ tcb'[u].parentTid = tcb[u].parentTid
                           /\ tcb'[u].bRunnable = tcb[u].bRunnable
  BY <1>0 DEF TypeOK, TcbType
<1>3. FirstHalf
  BY <1>0, <1>1, <1>2, OneMoves
<1>4. Creating'
  BY <1>0, <1>2, CreatingSame DEF Good, SchedulerInv, Creating
<1>5. Codes'
  BY <1>0, <1>2 DEF Good, SchedulerInv, Codes, Exiting
<1>6. Waits'
  BY <1>0, <1>1, <1>2, <1>3 DEF FirstHalf, Good, SchedulerInv, Waits, Waiting, Members
<1>7. Joins'
  BY <1>0, <1>1, <1>2, <1>3 DEF FirstHalf, Good, SchedulerInv, Joins, Live
<1>8. Children'
  BY <1>0, <1>1, <1>2, <1>3 DEF FirstHalf, Good, SchedulerInv, Children, Exiting, Live
<1>9. Tree'
  BY <1>0, <1>2, TreeSame DEF Good, SchedulerInv
<1> QED BY <1>3, <1>4, <1>5, <1>6, <1>7, <1>8, <1>9 DEF FirstHalf, SchedulerInv

\* A thread that returns is never joined: whoever waits for it goes on waiting.
LEMMA ReturnSafe ==
  ASSUME Good, Inv', NEW t \in Thread, Return(t)
  PROVE  SchedulerInv'
<1>0. /\ Executes(t) /\ pc[t] = "user" /\ TypeOK
      /\ pc' = [pc EXCEPT ![t] = "done"]
      /\ UNCHANGED << queueVars, joinVars, tcbVars, isPushed, sched, arg, sigVars, rest >>
  BY DEF Return, AtCall, Goto, Good, Inv
<1>1. t \in Holder /\ t \notin Waiting
  BY <1>0, ExecutesAlone, BetweenTicks
<1>2. pc'[t] = "done" /\ \A u \in Thread : u # t => pc'[u] = pc[u]
  BY <1>0 DEF TypeOK
<1>3. \A u \in Thread : pc[u] \in JoinPc \cup {"join_wait"} /\ arg[u] = t => pc[u] = "join_wait" /\ u \in Waiting
  BY <1>0, NotJoined
<1>4. FirstHalf
  BY <1>0, <1>1, OneMoves
<1>5. Creating'
  BY <1>0, <1>2, CreatingSame DEF Good, SchedulerInv, Creating
<1>6. Codes'
  BY <1>0, <1>2 DEF Good, SchedulerInv, Codes, Exiting
<1>7. Waits'
  BY <1>0, <1>1, <1>2, <1>4 DEF FirstHalf, Good, SchedulerInv, Waits, Waiting, Members
<1>8. Joins'
  BY <1>0, <1>1, <1>2, <1>3, <1>4 DEF FirstHalf, Good, SchedulerInv, Joins, Live
<1>9. Children'
  BY <1>0, <1>1, <1>2, <1>4 DEF FirstHalf, Good, SchedulerInv, Children, Exiting, Live
<1>10. Tree'
  BY <1>0, <1>2, TreeSame DEF Good, SchedulerInv
<1> QED BY <1>4, <1>5, <1>6, <1>7, <1>8, <1>9, <1>10 DEF FirstHalf, SchedulerInv

-----------------------------------------------------------------------------
(* thread_suspend and thread_resume *)

\* A ready thread is taken in hand ...
LEMMA SuspendSafe ==
  ASSUME Good, Inv', NEW t \in Thread, NEW x \in Thread, Suspend(t, x), Exact(readyQ, link, x)
  PROVE  SchedulerInv'
<1>0. /\ Executes(t) /\ pc[t] = "user" /\ TypeOK /\ "suspend" \in Ops
      /\ x \in Ready /\ mem[x] = "live" /\ pc[x] \notin WrapPc
      /\ rq_remove(x) /\ arg' = [arg EXCEPT ![t] = x]
      /\ pc' = [pc EXCEPT ![t] = "suspend_push"]
      /\ UNCHANGED << waitQ, runQ, joinVars, tcbVars, isPushed, sched, sigVars, rest >>
  BY DEF Suspend, AtCall, Goto, Good, Inv, Disciplined
<1>1. /\ t \in Holder /\ sched.pc = "tick" /\ (\A u \in Thread : ~ sig[u]) /\ ~ inHandler[t]
      /\ runQ = t /\ runQ \notin Ready \cup Waiting /\ Popped = {}
      /\ Ticks = "between_calls" /\ ~ JoinsUsed
      /\ \A u \in Thread : u # t => pc[u] \in RestPc \cup WrapPc
  BY <1>0, ExecutesAlone, BetweenTicks, NobodyElse, Modes DEF Good, SchedulerInv, Waits
<1>2. x # t /\ x \in Live /\ x \notin Waiting /\ pc[x] \notin WrapPc
  BY <1>0, <1>1 DEF Live, Good, SchedulerInv, TcbQueues, Places
<1>3. /\ pc'[t] = "suspend_push" /\ arg'[t] = x
      /\ \A u \in Thread : u # t => pc'[u] = pc[u] /\ arg'[u] = arg[u]
  BY <1>0 DEF TypeOK
<1>4. TcbQueues' /\ Ready' = Ready \ {x} /\ Waiting' = Waiting /\ Live' = Live /\ Popped' = {}
  BY <1>0, <1>1, RqRemove DEF Good, SchedulerInv, Live, Popped
<1>5. JoinQueue'
  <2>1. {u \in Live' : pc'[u] # "wrap_jcb"} = {u \in Live : pc[u] # "wrap_jcb"}
    BY <1>0, <1>3 DEF Live
  <2> QED BY <1>0, <2>1, JoinQueueSame DEF Good, SchedulerInv
<1>6. \A u, y \in Thread : ~ Carry(u, y) /\ (Carry(u, y)' <=> u = t /\ y = x)
  BY <1>0, <1>1, <1>3, HandsEmpty DEF Carry
<1>7. Places'
  BY <1>0, <1>1, <1>2, <1>3, <1>4, <1>6 DEF Good, SchedulerInv, Places, Live
<1>8. Loop'
  BY <1>0, <1>1, <1>4 DEF Good, SchedulerInv, Loop
<1>9. Turns' /\ Quiet'
  <2>1. HarmlessMoves
    BY <1>0, <1>1, <1>3 DEF HarmlessMoves
  <2>2. NobodyWoken
    BY <1>0, <1>3 DEF NobodyWoken, Good, SchedulerInv, Turns
  <2> QED BY <1>0, <1>1, <1>4, <2>1, <2>2, TurnsKept
<1>10. Creating'
  BY <1>0, <1>1, <1>3, CreatingSame DEF Good, SchedulerInv, Creating
<1>11. Codes'
  BY <1>0, <1>3 DEF Good, SchedulerInv, Codes, Exiting
<1>12. Waits'
  BY <1>0, <1>1, <1>3, <1>4 DEF Good, SchedulerInv, Waits
<1>13. Joins'
  BY <1>0, <1>1, <1>3, Modes DEF Joins
<1>14. Children'
  BY <1>0, <1>1, <1>3, Modes DEF Good, SchedulerInv, Children
<1>15. Tree'
  BY <1>0, <1>3, TreeSame DEF Good, SchedulerInv
<1>16. NoCrash'
  BY <1>0 DEF Good, SchedulerInv, NoCrash
<1> QED BY <1>4, <1>5, <1>7, <1>8, <1>9, <1>10, <1>11, <1>12, <1>13, <1>14, <1>15, <1>16
        DEF SchedulerInv

\* ... and queued to wait.
LEMMA SuspendPushSafe ==
  ASSUME Good, Inv', NEW t \in Thread, SuspendPush(t)
  PROVE  SchedulerInv'
<1> DEFINE x == arg[t]
<1>0. /\ Executes(t) /\ pc[t] = "suspend_push" /\ TypeOK
      /\ wq_push(x) /\ pc' = [pc EXCEPT ![t] = "user"] /\ arg' = [arg EXCEPT ![t] = Null]
      /\ UNCHANGED << readyQ, runQ, joinVars, tcbVars, isPushed, sched, sigVars, rest >>
  BY DEF SuspendPush, At, Leave, Goto, Good, Inv
<1>1. /\ t \in Holder /\ sched.pc = "tick" /\ (\A u \in Thread : ~ sig[u]) /\ ~ inHandler[t]
      /\ runQ = t /\ runQ \notin Ready \cup Waiting /\ Popped = {}
      /\ Ticks = "between_calls" /\ ~ JoinsUsed /\ Ops \cap {"join", "suspend"} # {}
      /\ \A u \in Thread : u # t => pc[u] \in RestPc \cup WrapPc
  BY <1>0, ExecutesAlone, BetweenTicks, NobodyElse, Modes DEF Good, SchedulerInv, Waits
<1>2. x \in Thread /\ Carry(t, x)
  BY <1>0 DEF Good, Inv, ArgsLead, Made, Carry
<1>2a. x # t /\ x \in Live /\ x \notin Ready \cup Waiting /\ pc[x] \notin WrapPc
  BY <1>1, <1>2 DEF Good, SchedulerInv, Places
<1>3. /\ pc'[t] = "user"
      /\ \A u \in Thread : u # t => pc'[u] = pc[u] /\ arg'[u] = arg[u]
  BY <1>0 DEF TypeOK
<1>4. TcbQueues' /\ Ready' = Ready /\ Waiting' = Waiting \cup {x} /\ Live' = Live /\ Popped' = {}
  BY <1>0, <1>1, <1>2, <1>2a, WqPush DEF Good, SchedulerInv, Live, Popped
<1>5. JoinQueue'
  <2>1. {u \in Live' : pc'[u] # "wrap_jcb"} = {u \in Live : pc[u] # "wrap_jcb"}
    BY <1>0, <1>3 DEF Live
  <2> QED BY <1>0, <2>1, JoinQueueSame DEF Good, SchedulerInv
<1>6. \A u, y \in Thread : ~ Carry(u, y)' /\ (Carry(u, y) => y = x)
  BY <1>0, <1>1, <1>3, HandsEmpty DEF Carry
<1> HIDE DEF x
<1>7. Places'
  BY <1>0, <1>1, <1>2, <1>2a, <1>3, <1>4, <1>6 DEF Good, SchedulerInv, Places, Live
<1>8. Loop'
  BY <1>0, <1>1, <1>2a, <1>4 DEF Good, SchedulerInv, Loop
<1>9. Turns' /\ Quiet'
  <2>1. HarmlessMoves
    BY <1>0, <1>1, <1>3 DEF HarmlessMoves
  <2>2. NobodyWoken
    BY <1>0, <1>3 DEF NobodyWoken, Good, SchedulerInv, Turns
  <2> QED BY <1>0, <1>1, <1>2a, <1>4, <2>1, <2>2, TurnsKept
<1>10. Creating'
  BY <1>0, <1>1, <1>3, CreatingSame DEF Good, SchedulerInv, Creating
<1>11. Codes'
  BY <1>0, <1>3 DEF Good, SchedulerInv, Codes, Exiting
<1>12. Waits'
  BY <1>0, <1>1, <1>3, <1>4 DEF Good, SchedulerInv, Waits
<1>13. Joins'
  BY <1>0, <1>1, <1>3, Modes DEF Joins
<1>14. Children'
  BY <1>0, <1>1, <1>3, Modes DEF Good, SchedulerInv, Children
<1>15. Tree'
  BY <1>0, <1>3, TreeSame DEF Good, SchedulerInv
<1>16. NoCrash'
  BY <1>0 DEF Good, SchedulerInv, NoCrash
<1> QED BY <1>4, <1>5, <1>7, <1>8, <1>9, <1>10, <1>11, <1>12, <1>13, <1>14, <1>15, <1>16
        DEF SchedulerInv

\* A waiting one is taken in hand ...
LEMMA ResumeSafe ==
  ASSUME Good, Inv', NEW t \in Thread, NEW x \in Thread, Resume(t, x), Exact(waitQ, link, x)
  PROVE  SchedulerInv'
<1>0. /\ Executes(t) /\ pc[t] = "user" /\ TypeOK /\ "resume" \in Ops
      /\ x \in Waiting /\ mem[x] = "live" /\ pc[x] \notin JoinPc \cup {"join_wait"}
      /\ wq_remove(x) /\ arg' = [arg EXCEPT ![t] = x]
      /\ pc' = [pc EXCEPT ![t] = "resume_push"]
      /\ UNCHANGED << readyQ, runQ, joinVars, tcbVars, isPushed, sched, sigVars, rest >>
  BY DEF Resume, AtCall, Goto, Good, Inv, Disciplined
<1>1. /\ t \in Holder /\ sched.pc = "tick" /\ (\A u \in Thread : ~ sig[u]) /\ ~ inHandler[t]
      /\ runQ = t /\ runQ \notin Ready \cup Waiting /\ Popped = {}
      /\ Ticks = "between_calls" /\ ~ JoinsUsed
      /\ \A u \in Thread : u # t => pc[u] \in RestPc \cup WrapPc
  BY <1>0, ExecutesAlone, BetweenTicks, NobodyElse, Modes DEF Good, SchedulerInv, Waits
<1>2. x # t /\ x \in Live /\ x \notin Ready /\ pc[x] \notin WrapPc
  BY <1>0, <1>1 DEF Live, Good, SchedulerInv, TcbQueues, Places
<1>3. /\ pc'[t] = "resume_push" /\ arg'[t] = x
      /\ \A u \in Thread : u # t => pc'[u] = pc[u] /\ arg'[u] = arg[u]
  BY <1>0 DEF TypeOK
<1>4. TcbQueues' /\ Ready' = Ready /\ Waiting' = Waiting \ {x} /\ Live' = Live /\ Popped' = {}
  BY <1>0, <1>1, WqRemove DEF Good, SchedulerInv, Live, Popped
<1>5. JoinQueue'
  <2>1. {u \in Live' : pc'[u] # "wrap_jcb"} = {u \in Live : pc[u] # "wrap_jcb"}
    BY <1>0, <1>3 DEF Live
  <2> QED BY <1>0, <2>1, JoinQueueSame DEF Good, SchedulerInv
<1>6. \A u, y \in Thread : ~ Carry(u, y) /\ (Carry(u, y)' <=> u = t /\ y = x)
  BY <1>0, <1>1, <1>3, HandsEmpty DEF Carry
<1>7. Places'
  BY <1>0, <1>1, <1>2, <1>3, <1>4, <1>6 DEF Good, SchedulerInv, Places, Live
<1>8. Loop'
  BY <1>0, <1>1, <1>4 DEF Good, SchedulerInv, Loop
<1>9. Turns' /\ Quiet'
  <2>1. HarmlessMoves
    BY <1>0, <1>1, <1>3 DEF HarmlessMoves
  <2>2. NobodyWoken
    BY <1>0, <1>3 DEF NobodyWoken, Good, SchedulerInv, Turns
  <2> QED BY <1>0, <1>1, <1>4, <2>1, <2>2, TurnsKept
<1>10. Creating'
  BY <1>0, <1>1, <1>3, CreatingSame DEF Good, SchedulerInv, Creating
<1>11. Codes'
  BY <1>0, <1>3 DEF Good, SchedulerInv, Codes, Exiting
<1>12. Waits'
  BY <1>0, <1>1, <1>3, <1>4 DEF Good, SchedulerInv, Waits
<1>13. Joins'
  BY <1>0, <1>1, <1>3, Modes DEF Joins
<1>14. Children'
  BY <1>0, <1>1, <1>3, Modes DEF Good, SchedulerInv, Children
<1>15. Tree'
  BY <1>0, <1>3, TreeSame DEF Good, SchedulerInv
<1>16. NoCrash'
  BY <1>0 DEF Good, SchedulerInv, NoCrash
<1> QED BY <1>4, <1>5, <1>7, <1>8, <1>9, <1>10, <1>11, <1>12, <1>13, <1>14, <1>15, <1>16
        DEF SchedulerInv

\* ... and made ready.
LEMMA ResumePushSafe ==
  ASSUME Good, Inv', NEW t \in Thread, ResumePush(t)
  PROVE  SchedulerInv'
<1> DEFINE x == arg[t]
<1>0. /\ Executes(t) /\ pc[t] = "resume_push" /\ TypeOK
      /\ rq_push(x) /\ pc' = [pc EXCEPT ![t] = "user"] /\ arg' = [arg EXCEPT ![t] = Null]
      /\ UNCHANGED << waitQ, runQ, joinVars, tcbVars, isPushed, sched, sigVars, rest >>
  BY DEF ResumePush, At, Leave, Goto, Good, Inv
<1>1. /\ t \in Holder /\ sched.pc = "tick" /\ (\A u \in Thread : ~ sig[u]) /\ ~ inHandler[t]
      /\ runQ = t /\ runQ \notin Ready \cup Waiting /\ Popped = {}
      /\ Ticks = "between_calls" /\ ~ JoinsUsed /\ Ops \cap {"join", "suspend"} # {}
      /\ \A u \in Thread : u # t => pc[u] \in RestPc \cup WrapPc
  BY <1>0, ExecutesAlone, BetweenTicks, NobodyElse, Modes DEF Good, SchedulerInv, Waits
<1>2. x \in Thread /\ Carry(t, x)
  BY <1>0 DEF Good, Inv, ArgsLead, Made, Carry
<1>2a. x # t /\ x \in Live /\ x \notin Ready \cup Waiting /\ pc[x] \notin WrapPc
  BY <1>1, <1>2 DEF Good, SchedulerInv, Places
<1>3. /\ pc'[t] = "user"
      /\ \A u \in Thread : u # t => pc'[u] = pc[u] /\ arg'[u] = arg[u]
  BY <1>0 DEF TypeOK
<1>4. TcbQueues' /\ Ready' = Ready \cup {x} /\ Waiting' = Waiting /\ Live' = Live /\ Popped' = {}
  BY <1>0, <1>1, <1>2, <1>2a, RqPush DEF Good, SchedulerInv, Live, Popped
<1>5. JoinQueue'
  <2>1. {u \in Live' : pc'[u] # "wrap_jcb"} = {u \in Live : pc[u] # "wrap_jcb"}
    BY <1>0, <1>3 DEF Live
  <2> QED BY <1>0, <2>1, JoinQueueSame DEF Good, SchedulerInv
<1>6. \A u, y \in Thread : ~ Carry(u, y)' /\ (Carry(u, y) => y = x)
  BY <1>0, <1>1, <1>3, HandsEmpty DEF Carry
<1> HIDE DEF x
<1>7. Places'
  BY <1>0, <1>1, <1>2, <1>2a, <1>3, <1>4, <1>6 DEF Good, SchedulerInv, Places, Live
<1>8. Loop'
  BY <1>0, <1>1, <1>2a, <1>4 DEF Good, SchedulerInv, Loop
<1>9. Turns' /\ Quiet'
  <2>1. HarmlessMoves
    BY <1>0, <1>1, <1>3 DEF HarmlessMoves
  <2>2. NobodyWoken
    BY <1>0, <1>3 DEF NobodyWoken, Good, SchedulerInv, Turns
  <2> QED BY <1>0, <1>1, <1>2a, <1>4, <2>1, <2>2, TurnsKept
<1>10. Creating'
  BY <1>0, <1>1, <1>3, CreatingSame DEF Good, SchedulerInv, Creating
<1>11. Codes'
  BY <1>0, <1>3 DEF Good, SchedulerInv, Codes, Exiting
<1>12. Waits'
  BY <1>0, <1>1, <1>3, <1>4 DEF Good, SchedulerInv, Waits
<1>13. Joins'
  BY <1>0, <1>1, <1>3, Modes DEF Joins
<1>14. Children'
  BY <1>0, <1>1, <1>3, Modes DEF Good, SchedulerInv, Children
<1>15. Tree'
  BY <1>0, <1>3, TreeSame DEF Good, SchedulerInv
<1>16. NoCrash'
  BY <1>0 DEF Good, SchedulerInv, NoCrash
<1> QED BY <1>4, <1>5, <1>7, <1>8, <1>9, <1>10, <1>11, <1>12, <1>13, <1>14, <1>15, <1>16
        DEF SchedulerInv

-----------------------------------------------------------------------------
(* RunScheduler, __ContextSwitch and the signal handler *)

\* What they leave alone.
LEMMA SchedulerStep ==
  ASSUME Good, UNCHANGED << joinVars, mem, isPushed, ctlVars, rest >>, Waiting' = Waiting,
         \A u \in Thread : /\ tcb'[u].parentTid = tcb[u].parentTid
                           /\ tcb'[u].pExitCode = tcb[u].pExitCode
  PROVE  JoinQueue' /\ Creating' /\ Codes' /\ Waits' /\ Joins' /\ Children' /\ Tree' /\ NoCrash'
<1>1. Live' = Live
  BY DEF Live
<1>2. JoinQueue'
  BY <1>1, JoinQueueSame DEF Good, SchedulerInv
<1>3. Creating'
  BY CreatingSame DEF Good, SchedulerInv, Creating
<1>4. Codes' /\ Waits' /\ Joins' /\ Children'
  BY <1>1, JoinsSame
<1>5. Tree'
  BY TreeSame DEF Good, SchedulerInv
<1>6. NoCrash'
  BY DEF Good, SchedulerInv, NoCrash
<1> QED BY <1>2, <1>3, <1>4, <1>5, <1>6

\* A store to bRunnable stores nothing else.
LEMMA RunnableStored ==
  ASSUME TypeOK, NEW u \in Thread, NEW b \in BOOLEAN, tcb' = [tcb EXCEPT ![u].bRunnable = b]
  PROVE  /\ tcb'[u].bRunnable = b
         /\ \A v \in Thread : /\ v # u => tcb'[v].bRunnable = tcb[v].bRunnable
                              /\ tcb'[v].parentTid = tcb[v].parentTid
                              /\ tcb'[v].pExitCode = tcb[v].pExitCode
<1>1. tcb[u] \in TcbType /\ tcb'[u] = [tcb[u] EXCEPT !.bRunnable = b]
  BY DEF TypeOK
<1>2. \A v \in Thread : v # u => tcb'[v] = tcb[v]
  BY DEF TypeOK
<1>3. /\ tcb'[u].bRunnable = b
      /\ tcb'[u].parentTid = tcb[u].parentTid /\ tcb'[u].pExitCode = tcb[u].pExitCode
  BY <1>1 DEF TcbType
<1> QED BY <1>2, <1>3

\* If all threads wait for their children there is one without.
LEMMA SomebodyReady ==
  ASSUME Good, JoinsUsed, runQ = Null, sched.pc = "tick", \A t \in Thread : pc[t] \in RestPc
  PROVE  Ready # {}
<1> SUFFICES ASSUME Ready = {} PROVE FALSE
  OBVIOUS
<1>1. Live \subseteq Waiting /\ Live \subseteq Thread
  BY NoThreads DEF Good, SchedulerInv, Places, Popped, Carry, Live
<1>2. \A x \in Live : arg[x] \in Live /\ tcb[arg[x]].parentTid = x
  <2> SUFFICES ASSUME NEW x \in Live PROVE arg[x] \in Live /\ tcb[arg[x]].parentTid = x
    OBVIOUS
  <2>1. x \in Thread /\ pc[x] = "join_wait"
    BY <1>1 DEF Good, SchedulerInv, Waits
  <2> QED BY <2>1 DEF Good, SchedulerInv, Joins
<1>3. Root \in Live
  BY NoThreads DEF Good, SchedulerInv, Codes, Live
<1>4. PICK x \in Live : \A c \in Live : ~ ChildOf(c, x)
  BY <1>1, <1>3 DEF Good, SchedulerInv, Tree
<1> QED BY <1>2, <1>4 DEF ChildOf

\* A tick finds a thread to run.
LEMMA SchedReadSafe ==
  ASSUME Good, Inv', SchedRead
  PROVE  SchedulerInv'
<1> DEFINE armed == sched.armed \/ (runQ = Null /\ readyQ.head # Null)
           next == IF runQ # Null THEN "preempt" ELSE IF armed THEN "dispatch" ELSE "tick"
<1>0. /\ sched.pc = "tick" /\ TypeOK
      /\ sched' = [pc |-> next, cur |-> runQ, new |-> Null, armed |-> armed]
      /\ UNCHANGED << queueVars, joinVars, tcbVars, isPushed, ctlVars, sigVars, rest >>
  BY DEF SchedRead, Good, Inv
<1>1. /\ Ticks = "between_calls" => \A t \in Thread : pc[t] \in RestPc
      /\ \A t \in Thread : ~ sig[t]
  BY Modes DEF SchedRead, TickMayCome, SignalsArrived
<1>2. TcbQueues' /\ Ready' = Ready /\ Waiting' = Waiting /\ Live' = Live
  BY <1>0, QueuesSame DEF Good, SchedulerInv, Live
<1>3. sched'.pc = next /\ sched'.cur = runQ /\ sched'.armed = armed
  BY <1>0
<1>4. next = "dispatch" => Ready # {}
  <2> SUFFICES ASSUME next = "dispatch" PROVE Ready # {}
    OBVIOUS
  <2>1. CASE readyQ.head # Null
    BY <2>1, HeadOfReady DEF Good, SchedulerInv, Inv
  <2>2. CASE readyQ.head = Null
    <3>1. sched.armed /\ runQ = Null
      BY <2>2
    <3>2. JoinsUsed
      BY <1>0, <3>1 DEF Good, SchedulerInv, Loop
    <3> QED BY <1>0, <1>1, <3>1, <3>2, Modes, SomebodyReady
  <2> QED BY <2>1, <2>2
<1>5. Popped = {} /\ Popped' = {} /\ Running' = Running
  BY <1>0, <1>2, <1>3 DEF Popped, Running
<1>6. Places'
  <2>1. SameHands
    BY <1>0 DEF SameHands, Carry, ParentOf
  <2> QED BY <1>0, <1>2, <1>5, <2>1, PlacesSame DEF Good, SchedulerInv
<1>7. Loop'
  BY <1>0, <1>2, <1>3, <1>4 DEF Good, SchedulerInv, Loop
<1>8. Turns'
  <2>1. next # "tick" => Yielding = {}
    <3> SUFFICES ASSUME next # "tick", NEW t \in Yielding PROVE FALSE
      OBVIOUS
    <3>1. t \in Thread /\ pc[t] \in YieldPc
      BY DEF Yielding
    <3> QED BY <3>1, <1>1, Modes
  <2>2. Yielding' = Yielding /\ Holder' = Holder
    BY <1>0, <1>5 DEF Holder, Yielding
  <2> QED BY <1>0, <1>1, <1>2, <1>3, <2>1, <2>2 DEF Good, SchedulerInv, Turns
<1>9. Quiet'
  BY <1>0, <1>1 DEF Good, SchedulerInv, Quiet
<1> QED BY <1>0, <1>2, <1>6, <1>7, <1>8, <1>9, SchedulerStep DEF SchedulerInv

\* The thread in RunQHead is queued and about to be stopped.
LEMMA SchedPreemptSafe ==
  ASSUME Good, Inv', SchedPreempt
  PROVE  SchedulerInv'
<1>0. /\ sched.pc = "preempt" /\ TypeOK
      /\ tcb' = [tcb EXCEPT ![sched.cur].bRunnable = FALSE]
      /\ sig' = [sig EXCEPT ![sched.cur] = pc[sched.cur] # "done"]
      /\ rq_push(sched.cur)
      /\ sched' = [sched EXCEPT !.pc = IF sched.armed THEN "dispatch" ELSE "tick"]
      /\ UNCHANGED << waitQ, runQ, joinVars, mem, isPushed, ctlVars, inHandler, rest >>
  BY DEF SchedPreempt, Good, Inv
<1>1. sched.cur = runQ /\ runQ \in Live /\ runQ \in Thread /\ runQ \notin Ready \cup Waiting /\ sched.armed
  BY <1>0 DEF Good, SchedulerInv, Loop, Places, Live
<1>2. TcbQueues' /\ Ready' = Ready \cup {runQ} /\ Waiting' = Waiting /\ Live' = Live
  BY <1>0, <1>1, RqPush DEF Good, SchedulerInv, Live
<1>3. /\ sched'.pc = "dispatch" /\ sched'.armed /\ sched'.cur = sched.cur
      /\ sig'[runQ] = (pc[runQ] # "done") /\ \A u \in Thread : u # runQ => sig'[u] = sig[u]
      /\ ~ tcb'[runQ].bRunnable
      /\ \A u \in Thread : /\ u # runQ => tcb'[u].bRunnable = tcb[u].bRunnable
                           /\ tcb'[u].parentTid = tcb[u].parentTid
                           /\ tcb'[u].pExitCode = tcb[u].pExitCode
  <2>1. sched'.pc = "dispatch" /\ sched'.armed /\ sched'.cur = sched.cur
    BY <1>0, <1>1 DEF TypeOK
  <2>2. sig'[runQ] = (pc[runQ] # "done") /\ \A u \in Thread : u # runQ => sig'[u] = sig[u]
    BY <1>0, <1>1, Zenon DEF TypeOK
  <2>3. /\ ~ tcb'[runQ].bRunnable
        /\ \A u \in Thread : /\ u # runQ => tcb'[u].bRunnable = tcb[u].bRunnable
                             /\ tcb'[u].parentTid = tcb[u].parentTid
                             /\ tcb'[u].pExitCode = tcb[u].pExitCode
    BY <1>0, <1>1, RunnableStored
  <2> QED BY <2>1, <2>2, <2>3
<1>4. Popped = {} /\ Popped' = {} /\ Running' = {} /\ Running = {runQ}
  BY <1>0, <1>1, <1>3, NoThreads DEF Popped, Running
<1>5. SameHands
  <2>1. \A u \in Thread : pc[u] = "exit_push" => arg[u] \in Thread
    BY DEF Good, SchedulerInv, Codes
  <2> QED BY <1>0, <1>3, <2>1 DEF SameHands, Carry, ParentOf
<1>6. Places'
  BY <1>0, <1>1, <1>2, <1>4, <1>5 DEF Good, SchedulerInv, Places, SameHands, Live
<1>7. Loop'
  BY <1>0, <1>1, <1>2, <1>3 DEF Good, SchedulerInv, Loop
<1>8. Turns' /\ Quiet'
  <2>1. Yielding = {} /\ Yielding' = {} /\ \A u \in Thread : ~ sig[u]
    BY <1>0 DEF Yielding, Good, SchedulerInv, Turns
  <2>2. Holder = {runQ} /\ Holder' = {}
    BY <1>4, <2>1 DEF Holder
  <2>3. Turns'
    <3>1. \A t \in Thread : sig'[t] \/ inHandler'[t] \/ pc'[t] \in StoppedPc
      BY <1>0, <1>3, <2>2 DEF Good, SchedulerInv, Turns
    <3>2. \A t \in Thread : ~ tcb'[t].bRunnable
      BY <1>3, <2>2 DEF Good, SchedulerInv, Turns
    <3>3. \A t \in Thread : sig'[t] => t = runQ'
      BY <1>0, <1>3, <2>1
    <3>4. \A t \in Thread : inHandler'[t] => mem'[t] # "none"
      BY <1>0 DEF Good, SchedulerInv, Turns
    <3> QED BY <1>3, <2>1, <3>1, <3>2, <3>3, <3>4 DEF Turns
  <2>4. Quiet'
    BY <1>0, <1>3, <2>1 DEF Good, SchedulerInv, Quiet
  <2> QED BY <2>3, <2>4
<1> QED BY <1>0, <1>2, <1>3, <1>6, <1>7, <1>8, SchedulerStep DEF SchedulerInv

\* The first of the ready queue is let go.
LEMMA SchedDispatchSafe ==
  ASSUME Good, Inv', SchedDispatch
  PROVE  SchedulerInv'
<1> DEFINE h == readyQ.head
<1>0. sched.pc = "dispatch" /\ TypeOK /\ runQ \in Ready \cup {Null} /\ Ready # {} /\ sched.armed
  BY DEF SchedDispatch, Good, Inv, SchedulerInv, Loop
<1>1. h # Null /\ h \in Ready /\ h \in Thread /\ h \notin Waiting
  BY <1>0, HeadOfReady DEF Good, SchedulerInv, Ready, Members, TcbQueues
<1>2. /\ rq_pop /\ tcb' = [tcb EXCEPT ![h].bRunnable = TRUE]
      /\ sched' = [sched EXCEPT !.pc = "set", !.new = h]
      /\ UNCHANGED << waitQ, runQ, joinVars, mem, isPushed, ctlVars, sigVars, rest >>
  BY <1>1 DEF SchedDispatch
<1>3. TcbQueues' /\ Ready' = Ready \ {h} /\ Waiting' = Waiting /\ Live' = Live
  BY <1>0, <1>1, <1>2, RqPop DEF Good, SchedulerInv, Live
<1>4. /\ sched'.pc = "set" /\ sched'.armed /\ sched'.new = h
      /\ \A u \in Thread : /\ u # h => tcb'[u].bRunnable = tcb[u].bRunnable
                           /\ tcb'[u].parentTid = tcb[u].parentTid
                           /\ tcb'[u].pExitCode = tcb[u].pExitCode
  <2>1. sched'.pc = "set" /\ sched'.armed /\ sched'.new = h
    BY <1>0, <1>2 DEF TypeOK
  <2>2. \A u \in Thread : /\ u # h => tcb'[u].bRunnable = tcb[u].bRunnable
                          /\ tcb'[u].parentTid = tcb[u].parentTid
                          /\ tcb'[u].pExitCode = tcb[u].pExitCode
    BY <1>0, <1>1, <1>2, RunnableStored
  <2> QED BY <2>1, <2>2
<1>5. Popped = {} /\ Popped' = {h} /\ Running' = {} /\ Running = {}
  BY <1>0, <1>4 DEF Popped, Running
<1>6. SameHands
  <2>1. \A u \in Thread : pc[u] = "exit_push" => arg[u] \in Thread
    BY DEF Good, SchedulerInv, Codes
  <2> QED BY <1>2, <1>4, <2>1 DEF SameHands, Carry, ParentOf
<1> HIDE DEF h
<1>7. Places'
  BY <1>0, <1>1, <1>2, <1>3, <1>5, <1>6 DEF Good, SchedulerInv, Places, SameHands, Live
<1>8. Loop'
  BY <1>0, <1>1, <1>2, <1>3, <1>4, <1>5 DEF Good, SchedulerInv, Loop
<1>9. Turns' /\ Quiet'
  <2>1. Yielding = {} /\ Yielding' = {}
    BY <1>0, <1>2 DEF Yielding, Good, SchedulerInv, Turns
  <2>2. Holder = {} /\ Holder' = {h}
    BY <1>5, <2>1 DEF Holder
  <2>3. pc[h] # "join_enter"
    BY <1>1 DEF Good, SchedulerInv, Waits
  <2>4. Turns'
    BY <1>0, <1>1, <1>2, <1>3, <1>4, <2>1, <2>2, <2>3 DEF Good, SchedulerInv, Turns
  <2>5. Quiet'
    BY <1>0, <1>2, <1>4 DEF Good, SchedulerInv, Quiet
  <2> QED BY <2>4, <2>5
<1> QED BY <1>2, <1>3, <1>4, <1>7, <1>8, <1>9, SchedulerStep DEF SchedulerInv

\* RunQHead names it from now on.
LEMMA SchedSetSafe ==
  ASSUME Good, Inv', SchedSet
  PROVE  SchedulerInv'
<1>0. /\ sched.pc = "set" /\ TypeOK /\ runQ' = sched.new
      /\ sched' = [sched EXCEPT !.pc = "tick", !.cur = Null, !.new = Null]
      /\ UNCHANGED << readyQ, waitQ, link, joinVars, tcbVars, isPushed, ctlVars, sigVars, rest >>
  BY DEF SchedSet, Good, Inv
<1>1. sched.new \in Thread /\ sched.new # Null /\ sched.armed /\ runQ \in Ready \cup {sched.new, Null}
  BY <1>0, NoThreads DEF Good, SchedulerInv, Loop, Popped
<1>2. TcbQueues' /\ Ready' = Ready /\ Waiting' = Waiting /\ Live' = Live
  BY <1>0, QueuesSame DEF Good, SchedulerInv, Live
<1>3. sched'.pc = "tick" /\ sched'.armed = sched.armed
  BY <1>0 DEF TypeOK
<1>4. /\ Popped = {sched.new} /\ Popped' = {} /\ Running = {}
      /\ sched.new \notin Ready \cup Waiting /\ sched.new \in Live
  BY <1>0, <1>3 DEF Popped, Running, Good, SchedulerInv, Places
<1>5. Running' = {sched.new}
  BY <1>0, <1>1, <1>2, <1>3, <1>4 DEF Running
<1>6. SameHands
  BY <1>0 DEF SameHands, Carry, ParentOf
<1>7. Places'
  BY <1>0, <1>1, <1>2, <1>4, <1>6, NoThreads DEF Good, SchedulerInv, Places, SameHands, Live
<1>8. Loop'
  BY <1>0, <1>1, <1>2, <1>3, <1>4 DEF Good, SchedulerInv, Loop
<1>9. Turns' /\ Quiet'
  <2>1. Yielding = {} /\ Yielding' = {}
    BY <1>0 DEF Yielding, Good, SchedulerInv, Turns
  <2>2. Holder = {sched.new} /\ Holder' = {sched.new}
    BY <1>4, <1>5, <2>1 DEF Holder
  <2>3. Turns'
    BY <1>0, <1>1, <1>2, <1>3, <2>1, <2>2, NoThreads DEF Good, SchedulerInv, Turns
  <2>4. Quiet'
    BY <1>0, <1>3 DEF Good, SchedulerInv, Quiet
  <2> QED BY <2>3, <2>4
<1> QED BY <1>0, <1>2, <1>7, <1>8, <1>9, SchedulerStep DEF SchedulerInv

\* A signal finds its thread ready again or still in RunQHead.
LEMMA TakeSignalSafe ==
  ASSUME Good, Inv', NEW t \in Thread, TakeSignal(t)
  PROVE  SchedulerInv'
<1>0. sig[t] /\ TypeOK
  BY DEF TakeSignal, Good, Inv
<1>1. t \in Ready \cup {runQ}
  BY <1>0 DEF Good, SchedulerInv, Turns
<1>2. getThread(t) # Null /\ t \in Live
  BY <1>1, NoThreads DEF getThread, Good, SchedulerInv, Places
<1>3. /\ sig' = [sig EXCEPT ![t] = FALSE] /\ inHandler' = [inHandler EXCEPT ![t] = TRUE]
      /\ UNCHANGED << queueVars, joinVars, tcbVars, isPushed, sched, ctlVars, rest >>
  BY <1>2 DEF TakeSignal
<1>4. /\ ~ sig'[t] /\ inHandler'[t]
      /\ \A u \in Thread : u # t => sig'[u] = sig[u] /\ inHandler'[u] = inHandler[u]
  BY <1>0, <1>3 DEF TypeOK
<1>5. TcbQueues' /\ Ready' = Ready /\ Waiting' = Waiting /\ Live' = Live
  BY <1>3, QueuesSame DEF Good, SchedulerInv, Live
<1>6. Popped' = Popped /\ Running' = Running /\ Yielding' = Yielding /\ Holder' = Holder
  BY <1>3, <1>5 DEF Popped, Running, Yielding, Holder
<1>7. Places'
  <2>1. SameHands
    BY <1>3 DEF SameHands, Carry, ParentOf
  <2> QED BY <1>3, <1>5, <1>6, <2>1, PlacesSame DEF Good, SchedulerInv
<1>8. Loop'
  BY <1>3, <1>5, <1>6 DEF Good, SchedulerInv, Loop
<1>9. Turns'
  BY <1>2, <1>3, <1>4, <1>5, <1>6 DEF Good, SchedulerInv, Turns, Live
<1>10. Quiet'
  BY <1>0, <1>3, <1>4 DEF Good, SchedulerInv, Quiet
<1> QED BY <1>3, <1>5, <1>7, <1>8, <1>9, <1>10, SchedulerStep DEF SchedulerInv

\* Whoever leaves the handler holds the processor.
LEMMA HandlerReturnSafe ==
  ASSUME Good, Inv', NEW t \in Thread, HandlerReturn(t)
  PROVE  SchedulerInv'
<1>0. /\ inHandler[t] /\ tcb[t].bRunnable /\ TypeOK
      /\ inHandler' = [inHandler EXCEPT ![t] = FALSE]
      /\ UNCHANGED << queueVars, joinVars, tcbVars, isPushed, sched, ctlVars, sig, rest >>
  BY DEF HandlerReturn, Good, Inv
<1>1. t \in Holder
  BY <1>0, RunnableAlone
<1>2. ~ inHandler'[t] /\ \A u \in Thread : u # t => inHandler'[u] = inHandler[u]
  BY <1>0 DEF TypeOK
<1>3. TcbQueues' /\ Ready' = Ready /\ Waiting' = Waiting /\ Live' = Live
  BY <1>0, QueuesSame DEF Good, SchedulerInv, Live
<1>4. Popped' = Popped /\ Running' = Running /\ Yielding' = Yielding /\ Holder' = Holder
  BY <1>0, <1>3 DEF Popped, Running, Yielding, Holder
<1>5. Places'
  <2>1. SameHands
    BY <1>0 DEF SameHands, Carry, ParentOf
  <2> QED BY <1>0, <1>3, <1>4, <2>1, PlacesSame DEF Good, SchedulerInv
<1>6. Loop'
  BY <1>0, <1>3, <1>4 DEF Good, SchedulerInv, Loop
<1>7. Turns' /\ Quiet'
  BY <1>0, <1>1, <1>2, <1>3, <1>4 DEF Good, SchedulerInv, Turns, Quiet
<1> QED BY <1>0, <1>3, <1>5, <1>6, <1>7, SchedulerStep DEF SchedulerInv

-----------------------------------------------------------------------------
(* The invariant holds *)

\* The queues at the start: Root alone, and an empty one.
LEMMA FirstQueues ==
  LET q == [head |-> Root, tail |-> Root]
  IN /\ Walk(q, NoLinks) = << Root >> /\ Walk(EmptyQueue, NoLinks) = << >>
     /\ Walk(q, NoLinks) \in Seq(Thread) /\ Walk(EmptyQueue, NoLinks) \in Seq(Thread)
     /\ Members(q, NoLinks) = {Root} /\ Members(EmptyQueue, NoLinks) = {}
     /\ Represents(q, NoLinks, Walk(q, NoLinks))
     /\ Represents(EmptyQueue, NoLinks, Walk(EmptyQueue, NoLinks))
     /\ \A t \in Thread : t # Root => NoLinks.next[t] = Null /\ NoLinks.prev[t] = Null
<1>0. Null \notin Thread /\ Root \in Thread /\ Main \notin Thread /\ Main # Null
  BY NoThreads
<1> DEFINE one == << Root >>
           q == [head |-> Root, tail |-> Root]
<1>1. /\ one \in Seq(Thread) /\ Len(one) = 1 /\ one[1] = Root /\ one # << >>
      /\ NodesOf(one) = {Root} /\ NodesOf(<< >>) = {}
  BY <1>0 DEF NodesOf
<1> HIDE DEF one
<1>2. Q!TwoQueues(q, EmptyQueue, NoLinks, one, << >>, {})
  <2>1. q \in QueueType /\ EmptyQueue \in QueueType /\ NoLinks \in LinkType
    BY <1>0 DEF QueueType, LinkType, EmptyQueue, NoLinks, Pointer
  <2>2. Represents(q, NoLinks, one)
    BY <1>0, <1>1 DEF Represents, Distinct, NextInSeq, PrevInSeq, NoLinks
  <2>3. Represents(EmptyQueue, NoLinks, << >>)
    BY DEF Represents, Distinct, EmptyQueue
  <2>4. Q!Linked(q, NoLinks, one) /\ Q!Linked(EmptyQueue, NoLinks, << >>)
    BY <1>1, <2>1, <2>2, <2>3, SameOperators DEF Q!Linked
  <2>5. \A n \in Thread : NoLinks.next[n] = Null /\ NoLinks.prev[n] = Null
    BY DEF NoLinks
  <2> HIDE DEF q
  <2> QED BY <1>1, <2>4, <2>5, SameOperators DEF Q!TwoQueues
<1>3. /\ Walk(q, NoLinks) = one /\ Walk(EmptyQueue, NoLinks) = << >>
      /\ Members(q, NoLinks) = {Root} /\ Members(EmptyQueue, NoLinks) = {}
      /\ Represents(q, NoLinks, one) /\ Represents(EmptyQueue, NoLinks, << >>)
      /\ \A t \in Thread : t # Root => NoLinks.next[t] = Null /\ NoLinks.prev[t] = Null
  BY <1>1, <1>2, TwoQueuesHold
<1>4. << >> \in Seq(Thread)
  OBVIOUS
<1> QED BY <1>1, <1>3, <1>4 DEF one

\* Root alone is queued, to start.
LEMMA InitSafe == Init => SchedulerInv
<1> SUFFICES ASSUME Init PROVE SchedulerInv
  OBVIOUS
<1>0. Null \notin Thread /\ Root \in Thread /\ Main \notin Thread /\ Main # Null
  BY NoThreads
<1> DEFINE q == [head |-> Root, tail |-> Root]
<1>3. /\ {Walk(q, NoLinks), Walk(EmptyQueue, NoLinks)} \subseteq Seq(Thread)
      /\ Members(q, NoLinks) = {Root} /\ Members(EmptyQueue, NoLinks) = {}
      /\ Represents(q, NoLinks, Walk(q, NoLinks))
      /\ Represents(EmptyQueue, NoLinks, Walk(EmptyQueue, NoLinks))
      /\ \A t \in Thread : t # Root => NoLinks.next[t] = Null /\ NoLinks.prev[t] = Null
  BY FirstQueues
<1>4. /\ readyQ = q /\ waitQ = EmptyQueue /\ joinQ = q /\ link = NoLinks /\ jlink = NoLinks
      /\ runQ = Null /\ parked = {} /\ ~ crashed /\ ~ isPushed
      /\ sched.pc = "tick" /\ ~ sched.armed
      /\ pc[Root] = "start" /\ mem[Root] = "live" /\ tcb[Root].parentTid = Main
      /\ \A t \in Thread : t # Root => pc[t] = "none" /\ mem[t] = "none" /\ tcb[t].parentTid = Null
      /\ \A t \in Thread : /\ jcb[t] = Null /\ ~ sig[t] /\ ~ inHandler[t] /\ got[t] = Null
                           /\ ~ tcb[t].bRunnable /\ tcb[t].pExitCode = Garbage
  BY <1>0 DEF Init, NewTcb
<1>5. Ready = {Root} /\ Waiting = {} /\ Live = {Root} /\ JoinMembers = {Root}
  BY <1>0, <1>3, <1>4 DEF Ready, Waiting, Live, JoinMembers
<1> HIDE DEF q
<1>6. TcbQueues
  BY <1>3, <1>4, <1>5 DEF TcbQueues, QueuesWellLinked
<1>7. JoinQueue
  BY <1>0, <1>3, <1>4, <1>5 DEF JoinQueue
<1>8. Popped = {} /\ Running = {} /\ Yielding = {} /\ Holder = {}
  BY <1>0, <1>4 DEF Popped, Running, Yielding, Holder
<1>9. Places
  BY <1>0, <1>4, <1>5, <1>8 DEF Places, Carry
<1>10. Loop /\ Turns /\ Quiet
  BY <1>0, <1>4, <1>5, <1>8 DEF Loop, Turns, Quiet
<1>11. Creating /\ Codes
  BY <1>0, <1>4 DEF Creating, Codes
<1>12. Waits /\ Joins /\ Children
  BY <1>0, <1>4, <1>5 DEF Waits, Joins, Children
<1>13. Tree
  BY <1>0, <1>4 DEF Tree, ChildOf
<1>14. NoCrash
  BY <1>4 DEF NoCrash
<1> QED BY <1>6, <1>7, <1>9, <1>10, <1>11, <1>12, <1>13, <1>14 DEF SchedulerInv

\* Every step whose removals are exact keeps the invariant.
LEMMA NextSafe ==
  ASSUME Good, [Next]_vars, [RemovalsExact]_vars
  PROVE  SchedulerInv'
<1>0. Inv'
  BY NextKeeps DEF Good
<1>1. CASE UNCHANGED vars
  <2>1. TcbQueues' /\ Ready' = Ready /\ Waiting' = Waiting /\ Live' = Live
    BY <1>1, QueuesSame DEF Good, SchedulerInv, Live
  <2>2. Popped' = Popped /\ Running' = Running /\ Holder' = Holder /\ Yielding' = Yielding
    BY <1>1, <2>1 DEF Popped, Running, Holder, Yielding
  <2>3. Places'
    <3>1. SameHands
      BY <1>1 DEF SameHands, Carry, ParentOf
    <3> QED BY <1>1, <2>1, <2>2, <3>1, PlacesSame DEF Good, SchedulerInv
  <2>4. Loop' /\ Turns' /\ Quiet'
    BY <1>1, <2>1, <2>2 DEF Good, SchedulerInv, Loop, Turns, Quiet
  <2> QED BY <1>1, <2>1, <2>3, <2>4, SchedulerStep DEF SchedulerInv
<1>2. CASE Next /\ RemovalsExact
  <2>1. CASE RunScheduler
    BY <1>0, <2>1, SchedReadSafe, SchedPreemptSafe, SchedDispatchSafe, SchedSetSafe DEF RunScheduler
  <2>2. ASSUME NEW t \in Thread, Call(t) PROVE SchedulerInv'
    <3>1. CASE Exit(t) \/ Return(t)
      BY <1>0, <3>1, ExitSafe, ReturnSafe
    <3>2. ASSUME NEW c \in Thread, Create(t, c) \/ Join(t, c) \/ Suspend(t, c) \/ Resume(t, c)
          PROVE  SchedulerInv'
      BY <1>0, <1>2, <3>2, CreateSafe, JoinSafe, SuspendSafe, ResumeSafe DEF RemovalsExact
    <3> QED BY <2>2, <3>1, <3>2 DEF Call
  <2>3. ASSUME NEW t \in Thread, Continue(t) PROVE SchedulerInv'
    <3>1. CASE CreateCheck(t) \/ WrapTcb(t) \/ WrapJcb(t) \/ WrapFlag(t) \/ WrapSignal(t)
      BY <1>0, <3>1, CreateCheckSafe, WrapTcbSafe, WrapJcbSafe, WrapFlagSafe, WrapSignalSafe
    <3>2. CASE WrapEnter(t) \/ WrapRun(t)
      BY <1>0, <3>2, WrapEnterSafe, WrapRunSafe
    <3>3. CASE JoinPush(t) \/ JoinCheck(t) \/ JoinEnter(t) \/ JoinReturn(t) \/ JoinCollect(t)
      BY <1>0, <3>3, JoinPushSafe, JoinCheckSafe, JoinEnterSafe, JoinReturnSafe, JoinCollectSafe
    <3>4. CASE JoinFree(t)
      BY <1>0, <1>2, <3>4, JoinFreeSafe DEF RemovalsExact
    <3>5. CASE ExitWake(t)
      BY <1>0, <1>2, <3>5, ExitWakeSafe DEF RemovalsExact
    <3>6. CASE ExitPush(t) \/ ExitMark(t) \/ ExitCode(t)
      BY <1>0, <3>6, ExitPushSafe, ExitMarkSafe, ExitCodeSafe
    <3>7. CASE SuspendPush(t) \/ ResumePush(t)
      BY <1>0, <3>7, SuspendPushSafe, ResumePushSafe
    <3> QED BY <2>3, <3>1, <3>2, <3>3, <3>4, <3>5, <3>6, <3>7 DEF Continue
  <2>4. ASSUME NEW t \in Thread, Handler(t) PROVE SchedulerInv'
    BY <1>0, <2>4, TakeSignalSafe, HandlerReturnSafe DEF Handler
  <2> QED BY <1>2, <2>1, <2>2, <2>3, <2>4 DEF Next
<1> QED BY <1>1, <1>2

\* The runs of a program of which no step asks a queue for a removal that its
\* code gets wrong.
ExactSpec == Spec /\ [][RemovalsExact]_vars

\* In all of them the inductive invariant holds.
THEOREM InvariantHolds ==
  ASSUME Disciplined
  PROVE  ExactSpec => [](Inv /\ SchedulerInv)
<1>1. Init => Inv /\ SchedulerInv
  BY InitInv, InitSafe
<1>2. Inv /\ SchedulerInv /\ [Next]_vars /\ [RemovalsExact]_vars => (Inv /\ SchedulerInv)'
  BY NextKeeps, NextSafe DEF Good
<1> QED BY <1>1, <1>2, PTL DEF Spec, ExactSpec

-----------------------------------------------------------------------------
(* What the invariant means for a user of the library *)

\* A thread is on its way between two queues exactly when a call has it in
\* its hands.
LEMMA TransitIsCarried ==
  ASSUME Good
  PROVE  /\ \A x \in Thread : x \in InTransit <=> \E t \in Thread : Carry(t, x)
         /\ InTransit \subseteq Live \ (Ready \cup Waiting \cup Popped \cup {runQ})
<1>1. \A t \in Thread :
        /\ pc[t] \in SuspendPc => arg[t] \in Thread
        /\ pc[t] = "exit_push" => ParentOf(t) \in Thread
  BY DEF Good, Inv, ArgsLead, Made
<1>2. InTransit \subseteq Thread
  BY <1>1 DEF InTransit
<1>3. \A x \in Thread : x \in InTransit <=> \E t \in Thread : Carry(t, x)
  BY DEF InTransit, Carry
<1>4. \A t, x \in Thread : Carry(t, x) => x \in Live \ (Ready \cup Waiting \cup Popped \cup {runQ})
  BY DEF Good, SchedulerInv, Places
<1> QED BY <1>2, <1>3, <1>4

\* The places, as sets: they are disjoint and hold the live threads.
LEMMA PlacesDisjoint ==
  ASSUME Good
  PROVE  /\ parked = {}
         /\ Ready \cap Waiting = {}
         /\ Running \cap (Ready \cup Waiting \cup Popped) = {}
         /\ Popped \cap (Ready \cup Waiting) = {}
         /\ InTransit \cap (Ready \cup Waiting \cup Popped \cup Running) = {}
         /\ Live = Ready \cup Waiting \cup Popped \cup Running \cup InTransit
<1>1. parked = {} /\ Ready \cap Waiting = {} /\ Popped \cap (Ready \cup Waiting) = {}
  BY DEF Good, SchedulerInv, TcbQueues, Places
<1>2. Running \subseteq {runQ} /\ Null \notin Running /\ Live \subseteq Thread
  BY DEF Running, Live
<1>3. Running \cap (Ready \cup Waiting \cup Popped) = {}
  BY DEF Good, SchedulerInv, Loop, Running, Popped, Inv, TypeOK
<1>4. InTransit \cap (Ready \cup Waiting \cup Popped \cup Running) = {}
  BY <1>2, TransitIsCarried
<1>5. Ready \cup Waiting \cup Popped \cup Running \cup InTransit \subseteq Live
  BY <1>2, TransitIsCarried DEF Good, SchedulerInv, Places
<1>6. ASSUME NEW x \in Live
      PROVE  x \in Ready \cup Waiting \cup Popped \cup Running \cup InTransit
  <2>1. x \in Ready \cup Waiting \cup Popped \cup {runQ} \cup InTransit
    BY <1>2, TransitIsCarried DEF Good, SchedulerInv, Places
  <2>2. CASE x = runQ
    <3>1. x # Null
      BY <1>2, NoThreads
    <3>2. sched.pc \in {"dispatch", "set"} => x \in Ready \cup Popped
      BY <2>2, <3>1 DEF Good, SchedulerInv, Loop
    <3>3. x \in Ready \/ sched.pc \in {"dispatch", "set"} \/ x \in Running
      BY <2>2, <3>1 DEF Running
    <3> QED BY <3>2, <3>3
  <2> QED BY <2>1, <2>2
<1> QED BY <1>1, <1>3, <1>4, <1>5, <1>6

\* The invariant has every live thread in one place.
LEMMA GoodPlaces == ASSUME Good PROVE OnePlaceEach
<1> SUFFICES ASSUME NEW t \in Thread
             PROVE  LET is == {p \in {"ready", "wait", "parked", "run", "popped", "transit"} :
                                 \/ p = "ready" /\ t \in Ready
                                 \/ p = "wait" /\ t \in Waiting
                                 \/ p = "parked" /\ t \in parked
                                 \/ p = "run" /\ t \in Running
                                 \/ p = "popped" /\ t \in Popped
                                 \/ p = "transit" /\ t \in InTransit}
                    IN Cardinality(is) = IF t \in Live THEN 1 ELSE 0
  BY DEF OnePlaceEach, OnePlaceWith
<1> DEFINE is == {p \in {"ready", "wait", "parked", "run", "popped", "transit"} :
                    \/ p = "ready" /\ t \in Ready
                    \/ p = "wait" /\ t \in Waiting
                    \/ p = "parked" /\ t \in parked
                    \/ p = "run" /\ t \in Running
                    \/ p = "popped" /\ t \in Popped
                    \/ p = "transit" /\ t \in InTransit}
<1>1. t \in Live <=> t \in Ready \cup Waiting \cup Popped \cup Running \cup InTransit
  BY PlacesDisjoint
<1>2. CASE t \notin Live
  <2>1. is = {}
    BY <1>1, <1>2, PlacesDisjoint
  <2> QED BY <1>2, <2>1, FS_EmptySet
<1>3. CASE t \in Live
  <2>1. \E p : is = {p}
    <3>1. CASE t \in Ready
      <4>1. is = {"ready"}
        BY <3>1, PlacesDisjoint
      <4> QED BY <4>1
    <3>2. CASE t \in Waiting
      <4>1. is = {"wait"}
        BY <3>2, PlacesDisjoint
      <4> QED BY <4>1
    <3>3. CASE t \in Popped
      <4>1. is = {"popped"}
        BY <3>3, PlacesDisjoint
      <4> QED BY <4>1
    <3>4. CASE t \in Running
      <4>1. is = {"run"}
        BY <3>4, PlacesDisjoint
      <4> QED BY <4>1
    <3>5. CASE t \in InTransit
      <4>1. is = {"transit"}
        BY <3>5, PlacesDisjoint
      <4> QED BY <4>1
    <3> HIDE DEF is
    <3> QED BY <1>1, <1>3, <3>1, <3>2, <3>3, <3>4, <3>5
  <2> QED BY <1>3, <2>1, FS_Singleton
<1> QED BY <1>2, <1>3

\* Who executes holds the processor.
LEMMA GoodRunner == ASSUME Good PROVE OneAtATime /\ RunQHeadTracksRunner
<1>1. Executing \subseteq Holder
  BY DEF Good, SchedulerInv, Turns, Executing
<1>2. OneAtATime
  BY <1>1, OneHolder DEF OneAtATime
<1>3. RunQHeadTracksRunner
  BY <1>1 DEF RunQHeadTracksRunner, Holder, Yielding
<1> QED BY <1>2, <1>3

\* A child with a parent has queued its join structure, and keeps it there
\* until it is freed.
LEMMA GoodChildren == ASSUME Good PROVE ChildrenJoinable
<1> SUFFICES ASSUME NEW c \in Live, tcb[c].parentTid \in Live
             PROVE  jq_search(c) = c
  BY DEF ChildrenJoinable
<1>1. c \in Thread /\ tcb[c].parentTid # Null
  BY NoThreads DEF Live
<1>2. pc[c] # "wrap_jcb"
  BY <1>1 DEF Good, SchedulerInv, Creating
<1>3. c \in JoinMembers
  BY <1>2 DEF Good, SchedulerInv, JoinQueue
<1> QED BY <1>3 DEF jq_search, Search, JoinMembers, Members

\* A thread inside thread_exit or thread_join uses TCBs that are not freed.
LEMMA GoodPointers == ASSUME Good PROVE NoUseAfterFree
<1>1. Ready \cup Waiting \cup ({runQ} \ {Null}) \cup Popped \cup InTransit \subseteq Live
  BY TransitIsCarried DEF Good, SchedulerInv, Places
<1>2. ASSUME NEW t \in Thread, pc[t] \in ExitPc
      PROVE  mem[arg[t]] = "live"
  <2>1. arg[t] = t
    BY <1>2 DEF Good, SchedulerInv, Codes
  <2>2. mem[t] # "none" /\ mem[t] # "freed"
    BY <1>2 DEF Good, SchedulerInv, Creating, Inv, MadeByWrapper
  <2> QED BY <2>1, <2>2 DEF Good, Inv, TypeOK
<1>3. ASSUME NEW t \in Thread, pc[t] \in JoinPc \cup {"join_wait"}
      PROVE  mem[arg[t]] = "live"
  BY <1>3 DEF Good, SchedulerInv, Joins, Live
<1> QED BY <1>1, <1>2, <1>3 DEF NoUseAfterFree

\* All that the invariant promises.
LEMMA GoodIsSafe ==
  ASSUME Good
  PROVE  /\ SchedulerOK /\ ChildrenJoinable
         /\ JoinReturnsExitCode /\ NoUseAfterFree
<1>1. QueuesWellLinked /\ NoCrash
  BY DEF Good, SchedulerInv, TcbQueues
<1>2. JoinReturnsExitCode
  BY DEF Good, SchedulerInv, Codes, JoinReturnsExitCode
<1> QED BY <1>1, <1>2, GoodPlaces, GoodRunner, GoodChildren, GoodPointers DEF SchedulerOK

\* The queues stay well linked: every node outside of them has NULL links, so
\* that the next push or removal works.
THEOREM QueuesStayLinked == ASSUME Disciplined PROVE ExactSpec => []QueuesWellLinked
<1>1. Inv /\ SchedulerInv => QueuesWellLinked
  BY GoodIsSafe DEF Good, SchedulerOK
<1> QED BY <1>1, InvariantHolds, PTL

\* No live thread is lost between the queues or is in two places.
THEOREM ThreadsKeepTheirPlace == ASSUME Disciplined PROVE ExactSpec => []OnePlaceEach
<1>1. Inv /\ SchedulerInv => OnePlaceEach
  BY GoodIsSafe DEF Good, SchedulerOK
<1> QED BY <1>1, InvariantHolds, PTL

\* RunQHead, or the switch in progress, names the thread that executes.
THEOREM RunnerIsTracked == ASSUME Disciplined PROVE ExactSpec => []RunQHeadTracksRunner
<1>1. Inv /\ SchedulerInv => RunQHeadTracksRunner
  BY GoodIsSafe DEF Good, SchedulerOK
<1> QED BY <1>1, InvariantHolds, PTL

\* There is one processor: two threads never execute at the same time.
THEOREM MutualExclusion == ASSUME Disciplined PROVE ExactSpec => []OneAtATime
<1>1. Inv /\ SchedulerInv => OneAtATime
  BY GoodIsSafe DEF Good, SchedulerOK
<1> QED BY <1>1, InvariantHolds, PTL

\* Every lookup and pop the code trusts to succeed does.
THEOREM NeverCrashes == ASSUME Disciplined PROVE ExactSpec => []NoCrash
<1>1. Inv /\ SchedulerInv => NoCrash
  BY DEF SchedulerInv
<1> QED BY <1>1, InvariantHolds, PTL

\* The scheduler is right whatever the threads do with it.
THEOREM SchedulerIsOK == ASSUME Disciplined PROVE ExactSpec => []SchedulerOK
<1>1. Inv /\ SchedulerInv => SchedulerOK
  BY GoodIsSafe DEF Good
<1> QED BY <1>1, InvariantHolds, PTL

\* A parent finds the join structure of every child it can still join.
THEOREM ChildrenStayJoinable == ASSUME Disciplined PROVE ExactSpec => []ChildrenJoinable
<1>1. Inv /\ SchedulerInv => ChildrenJoinable
  BY GoodIsSafe DEF Good
<1> QED BY <1>1, InvariantHolds, PTL

\* What a join returns is what the child has given to thread_exit.
THEOREM JoinsReturnTheCode == ASSUME Disciplined PROVE ExactSpec => []JoinReturnsExitCode
<1>1. Inv /\ SchedulerInv => JoinReturnsExitCode
  BY GoodIsSafe DEF Good
<1> QED BY <1>1, InvariantHolds, PTL

\* No queue, scheduler variable or call refers to a freed TCB.
THEOREM NothingFreedIsUsed == ASSUME Disciplined PROVE ExactSpec => []NoUseAfterFree
<1>1. Inv /\ SchedulerInv => NoUseAfterFree
  BY GoodIsSafe DEF Good
<1> QED BY <1>1, InvariantHolds, PTL

-----------------------------------------------------------------------------
(* The scheduler implements the abstract one *)

\* The mapping's values of running and blocked.
AbsRunning == IF Popped # {} THEN sched.new ELSE IF Running # {} THEN runQ ELSE Null
AbsBlocked == Waiting \cup InTransit

AbstractStep == [Abstract!RRNext]_(Abstract!rrVars)

\* What the abstract scheduler sees: the one thread that has the processor or
\* is about to, and as blocked the live threads that are neither that nor ready.
View ==
  /\ \A x : x \in Popped \cup Running <=> x = AbsRunning /\ x # Null
  /\ AbsBlocked = Live \ (Ready \cup Popped \cup Running)
  /\ Ready = Abstract!Elements(Walk(readyQ, link))
  /\ Walk(readyQ, link) \in Seq(Thread)
  /\ Ready \cup Popped \cup Running \subseteq Live

\* The invariant makes the scheduler look like that.
LEMMA ViewNow == Good => View
<1> SUFFICES ASSUME Good PROVE View
  OBVIOUS
<1>1. \A x : x \in Popped \cup Running <=> x = AbsRunning /\ x # Null
  <2>1. sched.pc = "set" => sched.new # Null
    BY NoThreads DEF Good, SchedulerInv, Loop
  <2> QED BY <2>1 DEF Popped, Running, AbsRunning
<1>2. /\ AbsBlocked = Live \ (Ready \cup Popped \cup Running)
      /\ Ready \cup Popped \cup Running \subseteq Live
  BY PlacesDisjoint DEF AbsBlocked
<1>3. Ready = NodesOf(Walk(readyQ, link))
  BY QueuesAreTwo DEF Good, Inv, SchedulerInv
<1>4. NodesOf(Walk(readyQ, link)) = Abstract!Elements(Walk(readyQ, link))
  BY DEF NodesOf, Abstract!Elements
<1>5. Walk(readyQ, link) \in Seq(Thread)
  BY DEF Good, SchedulerInv, TcbQueues
<1> QED BY <1>1, <1>2, <1>3, <1>4, <1>5 DEF View

\* The same in the next state.
LEMMA ViewNext == Good' => View'
BY ViewNow, PTL

\* A step that the abstract scheduler does not see.
LEMMA Unseen ==
  ASSUME Good, Good', Walk(readyQ', link') = Walk(readyQ, link), Live' = Live,
         Popped' \cup Running' = Popped \cup Running
  PROVE  AbstractStep
<1>1. View /\ View'
  BY ViewNow, ViewNext
<1>2. Ready' = Ready
  BY <1>1 DEF View, Abstract!Elements
<1>3. AbsRunning' = AbsRunning
  BY <1>1 DEF View
<1>4. AbsBlocked' = AbsBlocked
  BY <1>1, <1>2 DEF View
<1> QED BY <1>3, <1>4 DEF AbstractStep, Abstract!rrVars, AbsRunning, AbsBlocked

\* In particular one that leaves TCB queues, RunQHead and scheduler alone.
LEMMA UnseenLocal ==
  ASSUME Good, Good', UNCHANGED << queueVars, mem, sched >>
  PROVE  AbstractStep
<1>1. Walk(readyQ', link') = Walk(readyQ, link) /\ Ready' = Ready
  BY DEF Ready
<1>2. Live' = Live /\ Popped' = Popped /\ Running' = Running
  BY <1>1 DEF Live, Popped, Running
<1> QED BY <1>1, <1>2, Unseen

\* A new thread queues up.
LEMMA WrapTcbAdmits ==
  ASSUME Good, Good', NEW c \in Thread, WrapTcb(c)
  PROVE  AbstractStep
<1>0. /\ Executes(c) /\ pc[c] = "wrap_tcb" /\ TypeOK /\ rq_push(c)
      /\ mem' = [mem EXCEPT ![c] = "live"] /\ UNCHANGED << waitQ, runQ, sched, parked >>
  BY DEF WrapTcb, At, Good, Inv
<1>1. View /\ View'
  BY ViewNow, ViewNext
<1>2. mem[c] = "none" /\ c \notin Live
  BY <1>0 DEF Good, Inv, MadeByWrapper, Live
<1>3. c \notin Ready \cup Waiting /\ runQ # c /\ sched.pc = "tick"
  BY <1>0, <1>2, BetweenTicks, NoThreads DEF Good, SchedulerInv, Places
<1>4. Walk(readyQ', link') = Append(Walk(readyQ, link), c) /\ Ready' = Ready \cup {c}
  BY <1>0, <1>3, RqPush DEF Good, SchedulerInv
<1>5. Live' = Live \cup {c}
  BY <1>0 DEF TypeOK, Live
<1>6. Popped' = Popped /\ Running' = Running
  BY <1>0, <1>3, <1>4 DEF Popped, Running
<1>7. AbsRunning' = AbsRunning /\ AbsBlocked' = AbsBlocked
  BY <1>1, <1>2, <1>4, <1>5, <1>6 DEF View
<1>8. c \notin Ready \cup {AbsRunning} \cup AbsBlocked
  BY <1>1, <1>2, NoThreads DEF View
<1>9. Abstract!Admit(c)
  BY <1>1, <1>4, <1>7, <1>8 DEF Abstract!Admit, Abstract!InReady, View, AbsRunning, AbsBlocked
<1> QED BY <1>9 DEF AbstractStep, Abstract!RRNext

\* The preempted thread queues up last.
LEMMA SchedPreemptPreempts ==
  ASSUME Good, Good', SchedPreempt
  PROVE  AbstractStep
<1>0. /\ sched.pc = "preempt" /\ TypeOK /\ rq_push(sched.cur)
      /\ sched' = [sched EXCEPT !.pc = IF sched.armed THEN "dispatch" ELSE "tick"]
      /\ UNCHANGED << waitQ, runQ, mem, parked >>
  BY DEF SchedPreempt, Good, Inv
<1>1. View /\ View'
  BY ViewNow, ViewNext
<1>2. sched.cur = runQ /\ runQ \in Thread /\ runQ \notin Ready \cup Waiting /\ runQ # Null
  BY <1>0 DEF Good, SchedulerInv, Loop, Places, Live
<1>3. Walk(readyQ', link') = Append(Walk(readyQ, link), runQ) /\ Ready' = Ready \cup {runQ}
  BY <1>0, <1>2, RqPush DEF Good, SchedulerInv
<1>4. Popped = {} /\ Running = {runQ} /\ Live' = Live
  BY <1>0, <1>2 DEF Popped, Running, Live
<1>5. Popped' = {} /\ Running' = {}
  <2>1. sched'.pc # "set"
    BY <1>0 DEF TypeOK
  <2> QED BY <1>0, <1>3, <2>1 DEF Popped, Running
<1>6. AbsRunning = runQ /\ AbsRunning' = Null
  BY <1>4, <1>5 DEF AbsRunning
<1>7. AbsBlocked' = AbsBlocked
  BY <1>1, <1>3, <1>4, <1>5 DEF View
<1>8. Abstract!Preempt
  BY <1>2, <1>3, <1>6, <1>7 DEF Abstract!Preempt, AbsRunning, AbsBlocked
<1> QED BY <1>8 DEF AbstractStep, Abstract!RRNext

\* The first in the queue runs next.
LEMMA SchedDispatchDispatches ==
  ASSUME Good, Good', SchedDispatch
  PROVE  AbstractStep
<1> DEFINE h == readyQ.head
<1>0. sched.pc = "dispatch" /\ TypeOK /\ Ready # {}
  BY DEF SchedDispatch, Good, Inv, SchedulerInv, Loop
<1>1. h # Null /\ h \in Ready
  BY <1>0, HeadOfReady DEF Good, SchedulerInv
<1>2. /\ rq_pop /\ sched' = [sched EXCEPT !.pc = "set", !.new = h]
      /\ UNCHANGED << waitQ, runQ, mem, parked >>
  BY <1>1 DEF SchedDispatch
<1>3. View /\ View'
  BY ViewNow, ViewNext
<1>4. /\ Walk(readyQ, link) # << >> /\ h = Head(Walk(readyQ, link))
      /\ Walk(readyQ', link') = Tail(Walk(readyQ, link)) /\ Ready' = Ready \ {h}
  BY <1>0, <1>1, <1>2, RqPop DEF Good, SchedulerInv
<1> HIDE DEF h
<1>5. sched'.pc = "set" /\ sched'.new = h
  BY <1>0, <1>2 DEF TypeOK
<1>6. Popped = {} /\ Running = {} /\ Popped' = {h} /\ Running' = {} /\ Live' = Live
  BY <1>0, <1>2, <1>5 DEF Popped, Running, Live
<1>7. AbsRunning = Null /\ AbsRunning' = h
  BY <1>5, <1>6 DEF AbsRunning
<1>8. AbsBlocked' = AbsBlocked
  BY <1>1, <1>3, <1>4, <1>6 DEF View
<1>9. Abstract!Dispatch
  BY <1>4, <1>7, <1>8 DEF Abstract!Dispatch, AbsRunning, AbsBlocked
<1> QED BY <1>9 DEF AbstractStep, Abstract!RRNext

\* RunQHead catches up with the pop.
LEMMA SchedSetUnseen ==
  ASSUME Good, Good', SchedSet
  PROVE  AbstractStep
<1>0. /\ sched.pc = "set" /\ TypeOK /\ runQ' = sched.new
      /\ sched' = [sched EXCEPT !.pc = "tick", !.cur = Null, !.new = Null]
      /\ UNCHANGED << readyQ, waitQ, link, mem >>
  BY DEF SchedSet, Good, Inv
<1>1. sched'.pc = "tick"
  BY <1>0 DEF TypeOK
<1>2. Popped = {sched.new} /\ Running = {} /\ Popped' = {}
  BY <1>0, <1>1 DEF Popped, Running
<1>3. Ready' = Ready /\ Walk(readyQ', link') = Walk(readyQ, link) /\ Live' = Live
  BY <1>0 DEF Ready, Live
<1>4. sched.new \notin Ready /\ sched.new # Null
  BY <1>0, <1>2, NoThreads DEF Good, SchedulerInv, Loop, Places
<1>5. Running' = {sched.new}
  BY <1>0, <1>1, <1>3, <1>4 DEF Running
<1> QED BY <1>2, <1>3, <1>5, Unseen

\* A tick only looks.
LEMMA SchedReadUnseen ==
  ASSUME Good, Good', SchedRead
  PROVE  AbstractStep
<1>0. /\ sched.pc = "tick"
      /\ sched'.pc \in {"tick", "preempt", "dispatch"}
      /\ sched'.pc = "dispatch" => runQ = Null
      /\ UNCHANGED << queueVars, mem >>
  BY DEF SchedRead
<1>1. Ready' = Ready /\ Walk(readyQ', link') = Walk(readyQ, link) /\ Live' = Live
  BY <1>0 DEF Ready, Live
<1>2. Popped' = Popped /\ Running' = Running
  BY <1>0, <1>1 DEF Popped, Running
<1> QED BY <1>1, <1>2, Unseen

\* A join gives the processor up before it waits.
LEMMA JoinBlocks ==
  ASSUME Good, Good', NEW t \in Thread, NEW c \in Thread, Join(t, c)
  PROVE  AbstractStep
<1>0. Executes(t) /\ pc[t] = "user"
  BY DEF Join, AtCall
<1>1. CASE getThread(t) = Null \/ getThread(c) = Null
  BY <1>1, UnseenLocal DEF Join, Crash
<1>2. CASE ~ (getThread(t) = Null \/ getThread(c) = Null)
  <2>0. runQ' = Null /\ UNCHANGED << readyQ, waitQ, link, mem, sched >>
    BY <1>2 DEF Join
  <2>1. View /\ View'
    BY ViewNow, ViewNext
  <2>2. sched.pc = "tick" /\ runQ = t /\ t \notin Ready /\ Popped = {} /\ t # Null
    BY <1>0, BetweenTicks, ExecutesAlone, NoThreads
  <2>3. Ready' = Ready /\ Walk(readyQ', link') = Walk(readyQ, link) /\ Live' = Live
    BY <2>0 DEF Ready, Live
  <2>4. Running = {t} /\ Running' = {} /\ Popped' = {}
    BY <2>0, <2>2 DEF Running, Popped
  <2>5. AbsRunning = t /\ AbsRunning' = Null
    BY <2>2, <2>4 DEF AbsRunning
  <2>6. AbsBlocked' = AbsBlocked \cup {AbsRunning}
    BY <2>1, <2>2, <2>3, <2>4, <2>5 DEF View
  <2>7. Abstract!Block
    BY <2>2, <2>3, <2>5, <2>6 DEF Abstract!Block, AbsRunning, AbsBlocked
  <2> QED BY <2>7 DEF AbstractStep, Abstract!RRNext
<1> QED BY <1>1, <1>2

\* Somebody who has a thread in his hands queues it to wait: it was blocked
\* before.
LEMMA WqPushUnseen ==
  ASSUME Good, Good', NEW t \in Thread, NEW x \in Thread, Carry(t, x), wq_push(x),
         UNCHANGED << readyQ, runQ, mem, sched, parked >>
  PROVE  AbstractStep
<1>1. x \notin Ready \cup Waiting
  BY DEF Good, SchedulerInv, Places
<1>2. Walk(readyQ', link') = Walk(readyQ, link) /\ Ready' = Ready
  BY <1>1, WqPush DEF Good, Inv, SchedulerInv
<1>3. Live' = Live /\ Popped' = Popped /\ Running' = Running
  BY <1>2 DEF Live, Popped, Running
<1> QED BY <1>2, <1>3, Unseen

\* Taking a thread out of the wait queue leaves it blocked.
LEMMA WqRemoveUnseen ==
  ASSUME Good, Good', NEW x \in Waiting, Exact(waitQ, link, x), wq_remove(x),
         UNCHANGED << readyQ, runQ, mem, sched, parked >>
  PROVE  AbstractStep
<1>1. Walk(readyQ', link') = Walk(readyQ, link) /\ Ready' = Ready
  BY WqRemove DEF Good, Inv, SchedulerInv
<1>2. Live' = Live /\ Popped' = Popped /\ Running' = Running
  BY <1>1 DEF Live, Popped, Running
<1> QED BY <1>1, <1>2, Unseen

\* Whoever has a thread in his hands makes it ready: it wakes up.
LEMMA RqPushWakes ==
  ASSUME Good, Good', NEW t \in Thread, NEW x \in Thread, Carry(t, x), rq_push(x),
         sched.pc = "tick", UNCHANGED << waitQ, runQ, mem, sched, parked >>
  PROVE  AbstractStep
<1>0. View /\ View'
  BY ViewNow, ViewNext
<1>1. x \in Live /\ x \notin Ready \cup Waiting \cup Popped \cup {runQ} /\ x \in InTransit
  BY TransitIsCarried DEF Good, SchedulerInv, Places
<1>2. Walk(readyQ', link') = Append(Walk(readyQ, link), x) /\ Ready' = Ready \cup {x}
  BY <1>1, RqPush DEF Good, Inv, SchedulerInv
<1>3. Live' = Live /\ Popped' = Popped /\ Running' = Running
  BY <1>1, <1>2 DEF Live, Popped, Running
<1>4. AbsRunning' = AbsRunning
  BY <1>0, <1>3 DEF View
<1>5. AbsBlocked' = AbsBlocked \ {x} /\ x \in AbsBlocked
  BY <1>0, <1>1, <1>2, <1>3 DEF View, AbsBlocked
<1>6. Abstract!Wake(x)
  BY <1>2, <1>4, <1>5 DEF Abstract!Wake, AbsRunning, AbsBlocked
<1> QED BY <1>6 DEF AbstractStep, Abstract!RRNext

\* A ready thread is taken out of turn.
LEMMA SuspendSuspends ==
  ASSUME Good, Good', NEW t \in Thread, NEW x \in Thread, Suspend(t, x), Exact(readyQ, link, x)
  PROVE  AbstractStep
<1>0. /\ Executes(t) /\ x \in Ready /\ rq_remove(x)
      /\ UNCHANGED << waitQ, runQ, mem, sched, parked >>
  BY DEF Suspend, AtCall
<1>1. View /\ View'
  BY ViewNow, ViewNext
<1>2. sched.pc = "tick" /\ runQ # x
  BY <1>0, BetweenTicks
<1>3. /\ Ready' = Ready \ {x}
      /\ \E i \in DOMAIN Walk(readyQ, link) :
           /\ Walk(readyQ, link)[i] = x
           /\ Walk(readyQ', link') = Without(Walk(readyQ, link), i)
  BY <1>0, RqRemove DEF Good, Inv, SchedulerInv
<1>4. Live' = Live /\ Popped' = Popped /\ Running' = Running
  BY <1>0, <1>2, <1>3 DEF Live, Popped, Running
<1>5. AbsRunning' = AbsRunning
  BY <1>1, <1>4 DEF View
<1>6. AbsBlocked' = AbsBlocked \cup {x}
  <2>1. x \notin Popped \cup Running
    BY <1>0, PlacesDisjoint
  <2> QED BY <1>0, <1>1, <1>3, <1>4, <2>1 DEF View
<1>7. PICK i \in DOMAIN Walk(readyQ, link) :
        Walk(readyQ, link)[i] = x /\ Walk(readyQ', link') = Without(Walk(readyQ, link), i)
  BY <1>3
<1>8. Abstract!Without(Walk(readyQ, link), i) = Without(Walk(readyQ, link), i)
  BY DEF Abstract!Without, Without
<1>9. Abstract!Suspend(i)
  BY <1>5, <1>6, <1>7, <1>8 DEF Abstract!Suspend, AbsRunning, AbsBlocked
<1> QED BY <1>9 DEF AbstractStep, Abstract!RRNext

\* A thread that has ended is still ready, and is taken out for good.
LEMMA JoinFreeReaps ==
  ASSUME Good, Good', NEW t \in Thread, JoinFree(t), Exact(readyQ, link, arg[t])
  PROVE  AbstractStep
<1> DEFINE c == arg[t]
<1>0. /\ Executes(t) /\ pc[t] = "join_free" /\ TypeOK
      /\ rq_remove(c) /\ mem' = [mem EXCEPT ![c] = "freed"]
      /\ UNCHANGED << waitQ, runQ, sched, parked >>
  BY DEF JoinFree, At, Good, Inv
<1>1. JoinsUsed /\ Ticks = "between_calls" /\ c \in Live /\ c \in Thread /\ c # t
  BY <1>0, JoinKnows
<1>2. sched.pc = "tick" /\ runQ = t /\ Popped = {} /\ t \notin Ready
  BY <1>0, ExecutesAlone, BetweenTicks
<1>3. c \notin Waiting /\ c \in Ready
  <2>1. pc[c] = "done" /\ c \notin Waiting
    BY <1>0, <1>1 DEF Good, SchedulerInv, Joins, Waits
  <2>2. \A u, x \in Thread : ~ Carry(u, x)
    BY <1>0, <1>1, ExecutesAlone, HandsEmpty DEF Carry
  <2> QED BY <1>1, <1>2, <2>1, <2>2 DEF Good, SchedulerInv, Places
<1> HIDE DEF c
<1>4. View /\ View'
  BY ViewNow, ViewNext
<1>5. /\ Ready' = Ready \ {c}
      /\ \E i \in DOMAIN Walk(readyQ, link) :
           /\ Walk(readyQ, link)[i] = c
           /\ Walk(readyQ', link') = Without(Walk(readyQ, link), i)
  BY <1>0, <1>3, RqRemove DEF c, Good, SchedulerInv
<1>6. Live' = Live \ {c}
  BY <1>0, <1>1 DEF TypeOK, Live
<1>7. Popped' = Popped /\ Running' = Running
  BY <1>0, <1>2, <1>5 DEF Popped, Running
<1>8. AbsRunning' = AbsRunning
  <2>1. \A x : x = AbsRunning' /\ x # Null <=> x = AbsRunning /\ x # Null
    BY <1>4, <1>7 DEF View
  <2> QED BY <2>1
<1>9. AbsBlocked' = AbsBlocked
  BY <1>3, <1>4, <1>5, <1>6, <1>7 DEF View
<1>10. PICK i \in DOMAIN Walk(readyQ, link) :
         Walk(readyQ, link)[i] = c /\ Walk(readyQ', link') = Without(Walk(readyQ, link), i)
  BY <1>5
<1>11. Abstract!Without(Walk(readyQ, link), i) = Without(Walk(readyQ, link), i)
  BY DEF Abstract!Without, Without
<1>12. Abstract!Reap(i)
  BY <1>8, <1>9, <1>10, <1>11 DEF Abstract!Reap, AbsRunning, AbsBlocked
<1> QED BY <1>12 DEF AbstractStep, Abstract!RRNext

\* The first thread is ready.
LEMMA InitAbstract == Init => Abstract!RRInit
<1> SUFFICES ASSUME Init PROVE Abstract!RRInit
  OBVIOUS
<1>0. Root \in Thread /\ Null \notin Thread
  BY NoThreads
<1>1. /\ Walk(readyQ, link) = << Root >> /\ Ready = {Root} /\ Waiting = {}
      /\ runQ = Null /\ sched.pc = "tick"
      /\ \A t \in Thread : pc[t] \in {"start", "none"}
  BY <1>0, FirstQueues DEF Init, Ready, Waiting
<1>2. Popped = {} /\ Running = {} /\ InTransit = {}
  BY <1>1 DEF Popped, Running, InTransit
<1>3. Walk(readyQ, link) \in {<< t >> : t \in Thread}
  BY <1>0, <1>1
<1> QED BY <1>1, <1>2, <1>3 DEF Abstract!RRInit

\* Every step is one of the abstract scheduler's or leaves it alone.
LEMMA NextAbstract ==
  ASSUME Good, Good', [Next]_vars, [RemovalsExact]_vars
  PROVE  AbstractStep
<1>1. CASE UNCHANGED vars
  BY <1>1, UnseenLocal
<1>2. CASE Next /\ RemovalsExact
  <2>1. CASE RunScheduler
    BY <2>1, SchedReadUnseen, SchedPreemptPreempts, SchedDispatchDispatches, SchedSetUnseen
       DEF RunScheduler
  <2>2. ASSUME NEW t \in Thread, Call(t) PROVE AbstractStep
    <3>1. CASE Exit(t) \/ Return(t)
      <4>1. UNCHANGED << queueVars, mem, sched >>
        BY <3>1 DEF Exit, Return, Crash
      <4> QED BY <4>1, UnseenLocal
    <3>2. ASSUME NEW c \in Thread, Create(t, c) PROVE AbstractStep
      BY <3>2, UnseenLocal DEF Create
    <3>3. ASSUME NEW c \in Thread, Join(t, c) PROVE AbstractStep
      BY <3>3, JoinBlocks
    <3>4. ASSUME NEW c \in Thread, Suspend(t, c) PROVE AbstractStep
      BY <1>2, <3>4, SuspendSuspends DEF RemovalsExact
    <3>5. ASSUME NEW c \in Thread, Resume(t, c) PROVE AbstractStep
      BY <1>2, <3>5, WqRemoveUnseen DEF RemovalsExact, Resume
    <3> QED BY <2>2, <3>1, <3>2, <3>3, <3>4, <3>5 DEF Call
  <2>3. ASSUME NEW t \in Thread, Continue(t) PROVE AbstractStep
    <3>0. /\ pc[t] \in SuspendPc => arg[t] \in Thread /\ Carry(t, arg[t])
          /\ pc[t] = "exit_push" => ParentOf(t) \in Thread /\ Carry(t, ParentOf(t))
          /\ pc[t] = "join_push" => Carry(t, t)
          /\ pc[t] = "exit_wake" => ParentOf(t) \in Waiting
      <4>1. pc[t] = "exit_wake" => ParentOf(t) \in Waiting
        BY DEF Good, SchedulerInv, Codes, Children, ParentOf
      <4> QED BY <4>1 DEF Good, Inv, ArgsLead, Made, Carry
    <3>1. CASE CreateCheck(t) \/ WrapJcb(t) \/ WrapFlag(t) \/ WrapSignal(t) \/ WrapEnter(t) \/ WrapRun(t)
      <4>1. UNCHANGED << queueVars, mem, sched >>
        BY <3>1 DEF CreateCheck, WrapJcb, WrapFlag, WrapSignal, WrapEnter, WrapRun, WaitEnter,
                    WaitReturn, Crash
      <4> QED BY <4>1, UnseenLocal
    <3>2. CASE JoinCheck(t) \/ JoinEnter(t) \/ JoinReturn(t) \/ JoinCollect(t) \/ ExitMark(t) \/ ExitCode(t)
      <4>1. UNCHANGED << queueVars, mem, sched >>
        BY <3>2 DEF JoinCheck, JoinEnter, JoinReturn, JoinCollect, ExitMark, ExitCode, WaitEnter,
                    WaitReturn, Crash
      <4> QED BY <4>1, UnseenLocal
    <3>3. CASE WrapTcb(t)
      BY <3>3, WrapTcbAdmits
    <3>4. CASE JoinPush(t)
      BY <3>0, <3>4, WqPushUnseen DEF JoinPush, At
    <3>5. CASE SuspendPush(t)
      BY <3>0, <3>5, WqPushUnseen DEF SuspendPush, At
    <3>6. CASE JoinFree(t)
      BY <1>2, <3>6, JoinFreeReaps DEF RemovalsExact
    <3>7. CASE ExitWake(t)
      <4>1. ParentOf(t) \in Waiting /\ ParentOf(t) \in Thread
        BY <3>0, <3>7 DEF ExitWake, At, Waiting, Members
      <4>2. Exact(waitQ, link, ParentOf(t))
        BY <1>2, <3>7, <4>1 DEF RemovalsExact
      <4> QED BY <3>7, <4>1, <4>2, WqRemoveUnseen DEF ExitWake
    <3>8. CASE ExitPush(t)
      BY <3>0, <3>8, BetweenTicks, RqPushWakes DEF ExitPush, At
    <3>9. CASE ResumePush(t)
      BY <3>0, <3>9, BetweenTicks, RqPushWakes DEF ResumePush, At
    <3> QED BY <2>3, <3>1, <3>2, <3>3, <3>4, <3>5, <3>6, <3>7, <3>8, <3>9 DEF Continue
  <2>4. ASSUME NEW t \in Thread, Handler(t) PROVE AbstractStep
    <3>1. UNCHANGED << queueVars, mem, sched >>
      BY <2>4 DEF Handler, TakeSignal, HandlerReturn, Crash
    <3> QED BY <3>1, UnseenLocal
  <2> QED BY <1>2, <2>1, <2>2, <2>3, <2>4 DEF Next
<1> QED BY <1>1, <1>2

\* thread.c and Scheduler.c implement the round-robin scheduler: first come
\* first served, one processor, and nobody in or out but by the calls.
THEOREM Refinement == ASSUME Disciplined PROVE ExactSpec => ImplementsRoundRobin
<1>1. Init => Abstract!RRInit
  BY InitAbstract
<1>2. Inv /\ SchedulerInv /\ (Inv /\ SchedulerInv)' /\ [Next]_vars /\ [RemovalsExact]_vars
        => [Abstract!RRNext]_(Abstract!rrVars)
  BY NextAbstract DEF Good, AbstractStep
<1>3. ExactSpec => [](Inv /\ SchedulerInv)
  BY InvariantHolds
<1> QED BY <1>1, <1>2, <1>3, PTL DEF ExactSpec, Spec, ImplementsRoundRobin, Abstract!RRSpec

-----------------------------------------------------------------------------
(* Programs whose removals are always exact *)

\* There are at most three threads; or at most four and nobody joins, so that
\* the one that removes is in no queue; or nobody joins, suspends or resumes.
SafeRemovals ==
  \/ Cardinality(Thread) <= 3
  \/ Cardinality(Thread) <= 4 /\ ~ JoinsUsed
  \/ Ops \cap {"join", "suspend", "resume"} = {}

\* A queue of at most three threads can lose any of them.
LEMMA ShortQueuesExact ==
  ASSUME NEW q, NEW l, NEW x, Walk(q, l) \in Seq(Thread), Distinct(Walk(q, l)),
         NEW S \in SUBSET Thread, NodesOf(Walk(q, l)) \subseteq S, Cardinality(S) <= 3
  PROVE  Exact(q, l, x)
<1> DEFINE s == Walk(q, l)
<1>1. /\ s \in Seq(Thread) /\ Distinct(s) /\ DOMAIN s = 1..Len(s) /\ Len(s) \in Nat
      /\ s \in [1..Len(s) -> Thread] /\ \A i \in DOMAIN s : s[i] \in S
  BY DEF NodesOf
<1> HIDE DEF s
<1>2. s \in Injection(1..Len(s), S)
  <2>1. s \in [1..Len(s) -> S] /\ \A i, j \in 1..Len(s) : s[i] = s[j] => i = j
    BY <1>1 DEF Distinct
  <2> QED BY <2>1, Fun_IsInj
<1>3. Cardinality(1..Len(s)) = Len(s)
  <2> DEFINE n == Len(s)
  <2>1. n \in Int /\ 1 \in Int /\ (IF 1 > n THEN 0 ELSE n - 1 + 1) = n
    BY <1>1
  <2> HIDE DEF n
  <2>2. Cardinality(1..n) = n
    BY <2>1, FS_Interval
  <2> QED BY <2>2 DEF n
<1>4. Len(s) <= 3
  <2>1. IsFiniteSet(S) /\ Cardinality(S) \in Nat
    BY SchedulerAssumption, FS_Subset, FS_CardinalityType
  <2>2. Cardinality(1..Len(s)) <= Cardinality(S)
    BY <1>2, <2>1, FS_Injection
  <2> QED BY <1>1, <1>3, <2>1, <2>2
<1>5. \A i \in DOMAIN s : RemovablePosition(s, i)
  BY <1>1, <1>4 DEF RemovablePosition
<1> QED BY <1>5 DEF s, Exact

\* In those programs no step asks for another removal.
LEMMA RemovalsAreExact ==
  ASSUME Good, SafeRemovals
  PROVE  RemovalsExact
<1>0. /\ Walk(readyQ, link) \in Seq(Thread) /\ Distinct(Walk(readyQ, link))
      /\ Walk(waitQ, link) \in Seq(Thread) /\ Distinct(Walk(waitQ, link))
      /\ Walk(joinQ, jlink) \in Seq(Thread) /\ Distinct(Walk(joinQ, jlink))
      /\ Ready = NodesOf(Walk(readyQ, link)) /\ Waiting = NodesOf(Walk(waitQ, link))
      /\ JoinMembers = NodesOf(Walk(joinQ, jlink))
      /\ Ready \cup Waiting \cup JoinMembers \subseteq Thread
  <2>1. /\ Walk(readyQ, link) \in Seq(Thread) /\ Distinct(Walk(readyQ, link))
        /\ Walk(waitQ, link) \in Seq(Thread) /\ Distinct(Walk(waitQ, link))
        /\ Walk(joinQ, jlink) \in Seq(Thread) /\ Distinct(Walk(joinQ, jlink))
    BY DEF Good, SchedulerInv, TcbQueues, JoinQueue, QueuesWellLinked, Represents
  <2>2. /\ Ready = NodesOf(Walk(readyQ, link)) /\ Waiting = NodesOf(Walk(waitQ, link))
        /\ JoinMembers = NodesOf(Walk(joinQ, jlink))
    BY QueuesAreTwo, JoinQueueIsOne DEF Good, Inv, SchedulerInv
  <2> QED BY <2>1, <2>2 DEF Ready, Waiting, JoinMembers, Members
<1>1. CASE Cardinality(Thread) <= 3
  <2>1. \A x : Exact(readyQ, link, x) /\ Exact(waitQ, link, x) /\ Exact(joinQ, jlink, x)
    BY <1>0, <1>1, ShortQueuesExact
  <2> QED BY <2>1 DEF RemovalsExact
<1>2. CASE Cardinality(Thread) <= 4 /\ ~ JoinsUsed
  <2>1. \A t \in Thread : ~ ExitWake(t) /\ ~ JoinFree(t)
    BY <1>2, Modes DEF ExitWake, JoinFree, At
  <2>2. ASSUME NEW t \in Thread, NEW x \in Thread, Suspend(t, x) \/ Resume(t, x)
        PROVE  Exact(readyQ, link, x) /\ Exact(waitQ, link, x)
    <3>1. Executes(t) /\ pc[t] = "user"
      BY <2>2 DEF Suspend, Resume, AtCall
    <3>2. t \notin Ready \cup Waiting
      BY <3>1, ExecutesAlone, BetweenTicks
    <3>3. Cardinality(Thread \ {t}) <= 3
      <4>1. Cardinality(Thread) \in Nat /\ Cardinality(Thread \ {t}) = Cardinality(Thread) - 1
        BY SchedulerAssumption, FS_CardinalityType, FS_RemoveElement
      <4> QED BY <1>2, <4>1
    <3>4. Ready \subseteq Thread \ {t} /\ Waiting \subseteq Thread \ {t} /\ Thread \ {t} \in SUBSET Thread
      BY <1>0, <3>2
    <3> QED BY <1>0, <3>3, <3>4, ShortQueuesExact
  <2> QED BY <2>1, <2>2 DEF RemovalsExact
<1>3. CASE Ops \cap {"join", "suspend", "resume"} = {}
  <2>1. \A t \in Thread : pc[t] \notin JoinPc \cup {"exit_wake"}
    BY <1>3, Modes
  <2>2. \A t, x \in Thread :
          ~ Suspend(t, x) /\ ~ Resume(t, x) /\ ~ ExitWake(t) /\ ~ JoinFree(t)
    BY <1>3, <2>1 DEF Suspend, Resume, ExitWake, JoinFree, AtCall, At
  <2> QED BY <2>2 DEF RemovalsExact
<1> QED BY <1>1, <1>2, <1>3 DEF SafeRemovals

\* All that is proved for exact removals holds of those programs as they are.
THEOREM SafeProgramsAreExact ==
  ASSUME Disciplined, SafeRemovals
  PROVE  Spec => ExactSpec
<1>1. Init => Inv /\ SchedulerInv
  BY InitInv, InitSafe
<1>2. Inv /\ SchedulerInv => RemovalsExact
  BY RemovalsAreExact DEF Good
<1>3. Inv /\ SchedulerInv /\ [Next]_vars => (Inv /\ SchedulerInv)'
  BY <1>2, NextKeeps, NextSafe DEF Good
<1> QED BY <1>1, <1>2, <1>3, PTL DEF Spec, ExactSpec

\* So three threads may join each other at will, four suspend and resume each
\* other, and any number create and exit, one with ticks inside its calls.
THEOREM SafeProgramsAreSafe ==
  ASSUME Disciplined, SafeRemovals
  PROVE  Spec => /\ [](SchedulerOK /\ ChildrenJoinable /\ JoinReturnsExitCode /\ NoUseAfterFree)
                 /\ ImplementsRoundRobin
<1>1. Inv /\ SchedulerInv => SchedulerOK /\ ChildrenJoinable /\ JoinReturnsExitCode /\ NoUseAfterFree
  BY GoodIsSafe DEF Good
<1>2. Spec => ExactSpec
  BY SafeProgramsAreExact
<1>3. ExactSpec => [](Inv /\ SchedulerInv)
  BY InvariantHolds
<1>4. ExactSpec => ImplementsRoundRobin
  BY Refinement
<1> QED BY <1>1, <1>2, <1>3, <1>4, PTL
=============================================================================
