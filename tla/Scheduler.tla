----------------------------- MODULE Scheduler -----------------------------
(***************************************************************************)
(* scheduler2: a round-robin scheduler for threads of one process.  The    *)
(* main pthread creates a first thread and then loops in RunScheduler; at  *)
(* every tick it takes the CPU from the thread in RunQHead (SIGUSR1, whose *)
(* handler waits for the thread's bRunnable) and gives it to the head of   *)
(* the ready queue.  Threads create, join, suspend and resume each other   *)
(* and exit.                                                               *)
(*                                                                         *)
(* A thread is its own TCB and its own join structure here: tcb[t], jcb[t] *)
(* and the links link and jlink are indexed by thread.  pc[t] says which   *)
(* statement of which call t executes next.  One step is one operation on  *)
(* a queue or one decision with the stores around it.                      *)
(*                                                                         *)
(* Not modelled: readyMutex, which protects bRunnable only, so that waking *)
(* and waiting are single steps; status, which no code reads.              *)
(***************************************************************************)
EXTENDS Naturals, Sequences, FiniteSets

CONSTANTS
  Thread,       \* the pthreads that may be created
  Root,         \* the one main creates before RunScheduler
  Main,         \* the main pthread: parent of Root, without a TCB
  Null,         \* NULL, and parentTid 0
  Garbage,      \* the value of a field that malloc left uninitialised
  Ops,          \* the calls the program uses
  Creators,     \* the threads whose programs call thread_create
  Ticks,        \* where a tick may find the threads, see Executes
  JoinExited,   \* may a thread join a child that has exited already
  SuspendFresh  \* may a thread be suspended on its way into its first wait

Calls == {"create", "join", "exit", "return", "suspend", "resume"}
MsgCalls == {"msgget", "msgsnd", "msgrcv", "msgctl"}  \* see MsgQueue

ASSUME SchedulerAssumption ==
  /\ IsFiniteSet(Thread) /\ Root \in Thread
  /\ {Main, Null, Garbage} \cap Thread = {}
  /\ Main # Null /\ Main # Garbage /\ Null # Garbage
  /\ Ops \subseteq Calls \cup MsgCalls /\ Creators \subseteq Thread
  /\ Ticks \in {"between_calls", "in_calls", "anywhere"}
  /\ JoinExited \in BOOLEAN /\ SuspendFresh \in BOOLEAN

INSTANCE LinkedQueue WITH Node <- Thread

VARIABLES
  readyQ, waitQ,  \* ReadyQHead and ReadyQTail, WaitQHead and WaitQTail
  link,           \* pNext and pPrev of the TCBs
  runQ,           \* RunQHead
  joinQ, jlink,   \* JoinQHead and JoinQTail, links of the join structures
  tcb,            \* the TCBs' bRunnable, parentTid, pExitCode
  jcb,            \* the join structures' parentTid
  mem,            \* which threads have their TCB and join structure allocated
  isPushed,       \* is_pushed: a created thread has queued itself
  sched,          \* RunScheduler: pc, pCurThread, whether pNewThread is set,
                  \* and the thread that __ContextSwitch has popped
  pc, arg,        \* each thread's next statement, and the thread it is about
  sig,            \* SIGUSR1 sent and not yet delivered
  inHandler,      \* in the signal handler, waiting for bRunnable
  parked,         \* the threads in the waiting lists of message queues
  got,            \* auxiliary: what the join of a thread returned
  crashed         \* a NULL pointer was followed

queueVars == << readyQ, waitQ, link, runQ >>
joinVars  == << joinQ, jlink, jcb >>
tcbVars   == << tcb, mem >>
ctlVars   == << pc, arg >>
sigVars   == << sig, inHandler >>
rest      == << parked, got, crashed >>
vars == << queueVars, joinVars, tcbVars, isPushed, sched, ctlVars, sigVars, rest >>

CreatePc  == {"create_check", "create_sleep"}
WrapPc    == {"wrap_tcb", "wrap_jcb", "wrap_flag", "wrap_signal", "wrap_enter"}
JoinPc    == {"join_push", "join_check", "join_enter", "join_collect", "join_free"}
ExitPc    == {"exit_wake", "exit_push", "exit_mark", "exit_code"}
SuspendPc == {"suspend_push", "resume_push"}
WaitPc    == {"start", "join_wait", "rcv_wait"}
RestPc    == WaitPc \cup {"none", "user", "done"}
PcType    == CreatePc \cup WrapPc \cup JoinPc \cup ExitPc \cup SuspendPc \cup RestPc

TcbType == [bRunnable : BOOLEAN,
            parentTid : Thread \cup {Main, Null},
            pExitCode : Thread \cup {Garbage}]

\* Mutant of NewTcb: parentTid is left as malloc returned it.
NewTcbUnset == [bRunnable |-> FALSE, parentTid |-> Garbage, pExitCode |-> Garbage]

\* What __wrapperFunc stores in a new TCB.
NewTcb  == [bRunnable |-> FALSE, parentTid |-> Null, pExitCode |-> Garbage]

\* The variables hold pointers, records and statements of the right kind; in
\* particular no parentTid is garbage.
TypeOK ==
  /\ {readyQ, waitQ, joinQ} \subseteq QueueType
  /\ {link, jlink} \subseteq LinkType
  /\ runQ \in Pointer
  /\ tcb \in [Thread -> TcbType]
  /\ jcb \in [Thread -> Thread \cup {Main, Null}]
  /\ mem \in [Thread -> {"none", "live", "freed"}]
  /\ isPushed \in BOOLEAN
  /\ sched \in [pc : {"tick", "preempt", "dispatch", "set"},
               cur : Pointer, new : Pointer, armed : BOOLEAN]
  /\ pc \in [Thread -> PcType]
  /\ arg \in [Thread -> Pointer]
  /\ {sig, inHandler} \subseteq [Thread -> BOOLEAN]
  /\ parked \subseteq Thread
  /\ got \in [Thread -> Thread \cup {Null, Garbage}]
  /\ crashed \in BOOLEAN

\* RunScheduler is about to be entered: main's thread_create of Root has
\* returned and Root waits for its first turn.
Init ==
  /\ readyQ = [head |-> Root, tail |-> Root] /\ waitQ = EmptyQueue
  /\ link = NoLinks
  /\ runQ = Null
  /\ joinQ = [head |-> Root, tail |-> Root] /\ jlink = NoLinks
  /\ tcb = [t \in Thread |-> IF t = Root THEN [NewTcb EXCEPT !.parentTid = Main] ELSE NewTcb]
  /\ jcb = [t \in Thread |-> Null]
  /\ mem = [t \in Thread |-> IF t = Root THEN "live" ELSE "none"]
  /\ isPushed = FALSE
  /\ sched = [pc |-> "tick", cur |-> Null, new |-> Null, armed |-> FALSE]
  /\ pc = [t \in Thread |-> IF t = Root THEN "start" ELSE "none"]
  /\ arg = [t \in Thread |-> Null]
  /\ sig = [t \in Thread |-> FALSE] /\ inHandler = [t \in Thread |-> FALSE]
  /\ parked = {}
  /\ got = [t \in Thread |-> Null]
  /\ crashed = FALSE

-----------------------------------------------------------------------------
(* Queues *)

Ready   == Members(readyQ, link)
Waiting == Members(waitQ, link)

\* The TCB of t, looked for in the ready queue, the wait queue, RunQHead and
\* the waiting lists of all message queues.
getThread(t) ==
  IF t \in Ready \cup Waiting \cup ({runQ} \ {Null}) \cup parked THEN t ELSE Null

\* Mutant of rq_push: in front of the queue.
rq_pushFront(t) ==
  /\ readyQ' = [head |-> t, tail |-> IF readyQ.head = Null THEN t ELSE readyQ.tail]
  /\ link' = IF readyQ.head = Null THEN link
             ELSE [next |-> [link.next EXCEPT ![t] = readyQ.head],
                   prev |-> [link.prev EXCEPT ![readyQ.head] = t]]

\* Mutant of jq_push: as if the queue were always empty.
jq_pushAlone(t) == joinQ' = [head |-> t, tail |-> t] /\ jlink' = jlink

rq_push(t) == LET r == Push(readyQ, link, t) IN readyQ' = r.q /\ link' = r.l
wq_push(t) == LET r == Push(waitQ, link, t) IN waitQ' = r.q /\ link' = r.l
jq_push(t) == LET r == Push(joinQ, jlink, t) IN joinQ' = r.q /\ jlink' = r.l

\* A removal of a thread that the queue does not hold changes nothing.
rq_remove(t) ==
  IF t \in Ready
  THEN LET r == Remove(readyQ, link, t) IN readyQ' = r.q /\ link' = r.l
  ELSE UNCHANGED << readyQ, link >>

\* Mutant of wq_remove: it searches the ready queue.
wq_removeReady(t) ==
  IF t \in Ready
  THEN LET r == Remove(waitQ, link, t) IN waitQ' = r.q /\ link' = r.l
  ELSE UNCHANGED << waitQ, link >>

wq_remove(t) ==
  IF t \in Waiting
  THEN LET r == Remove(waitQ, link, t) IN waitQ' = r.q /\ link' = r.l
  ELSE UNCHANGED << waitQ, link >>
jq_search(t) == Search(joinQ, jlink, t)
jq_remove(t) ==
  IF jq_search(t) # Null
  THEN LET r == Remove(joinQ, jlink, t) IN joinQ' = r.q /\ jlink' = r.l
  ELSE UNCHANGED << joinQ, jlink >>

rq_pop == LET r == Pop(readyQ, link) IN readyQ' = r.q /\ link' = r.l

Goto(t, l) == pc' = [pc EXCEPT ![t] = l]

\* t's call is over: its local variables go.
Leave(t, l) == Goto(t, l) /\ arg' = [arg EXCEPT ![t] = Null]

\* A NULL pointer is followed: the process dies.
Crash ==
  /\ crashed' = TRUE
  /\ UNCHANGED << queueVars, joinVars, tcbVars, isPushed, sched, ctlVars, sigVars, parked, got >>

-----------------------------------------------------------------------------
(* When a thread may take a step of its own.  Ticks are a second apart; a  *)
(* call, the switch of a tick, a signal and a wakeup take microseconds.    *)
(*   between_calls   a tick comes when no call is in progress              *)
(*   in_calls        it comes at any statement, but what the last tick did *)
(*                   has taken effect: signals and wakeups have arrived    *)
(*   anywhere        switch, signals and threads interleave freely         *)

SignalsArrived == \A t \in Thread : ~ sig[t]

Executes(t) ==
  /\ ~ crashed
  /\ ~ inHandler[t]
  /\ Ticks = "anywhere" \/ (sched.pc = "tick" /\ SignalsArrived)

\* t's program is about to make the call op.
AtCall(t, op) == Executes(t) /\ pc[t] = "user" /\ op \in Ops

At(t, l) == Executes(t) /\ pc[t] = l

-----------------------------------------------------------------------------
(* thread_create and __wrapperFunc *)

\* pthread_create: c starts in __wrapperFunc, t goes for static_mutex.
Create(t, c) ==
  /\ AtCall(t, "create") /\ t \in Creators /\ pc[c] = "none"
  /\ pc' = [pc EXCEPT ![t] = "create_check", ![c] = "wrap_tcb"]
  /\ arg' = [arg EXCEPT ![t] = c]
  /\ UNCHANGED << queueVars, joinVars, tcbVars, isPushed, sched, sigVars, rest >>

\* Mutant of CreateCheck: is_pushed stays true.
CreateCheckKeepsFlag(t) ==
  /\ At(t, "create_check")
  /\ IF ~ isPushed
     THEN /\ Goto(t, "create_sleep")
          /\ UNCHANGED << queueVars, joinVars, tcbVars, isPushed, sched, arg, sigVars, rest >>
     ELSE IF getThread(arg[t]) = Null THEN Crash
     ELSE /\ tcb' = [tcb EXCEPT ![arg[t]].parentTid = t]
          /\ Leave(t, "user")
          /\ UNCHANGED << queueVars, joinVars, mem, isPushed, sched, sigVars, rest >>

\* Under static_mutex: wait on static_cond while is_pushed is false, else
\* take the flag and become the parent of the new thread.
CreateCheck(t) ==
  /\ At(t, "create_check")
  /\ IF ~ isPushed
     THEN /\ Goto(t, "create_sleep")
          /\ UNCHANGED << queueVars, joinVars, tcbVars, isPushed, sched, arg, sigVars, rest >>
     ELSE IF getThread(arg[t]) = Null THEN Crash
     ELSE /\ isPushed' = FALSE
          /\ tcb' = [tcb EXCEPT ![arg[t]].parentTid = t]
          /\ Leave(t, "user")
          /\ UNCHANGED << queueVars, joinVars, mem, sched, sigVars, rest >>

\* Mutant of WrapTcb: is_pushed is set before the join structure is queued.
WrapTcbFlags(c) ==
  /\ At(c, "wrap_tcb")
  /\ tcb' = [tcb EXCEPT ![c] = NewTcb]
  /\ mem' = [mem EXCEPT ![c] = "live"]
  /\ rq_push(c)
  /\ isPushed' = TRUE
  /\ Goto(c, "wrap_jcb")
  /\ UNCHANGED << waitQ, runQ, joinVars, sched, arg, sigVars, rest >>

\* __wrapperFunc: make the TCB and queue it.
WrapTcb(c) ==
  /\ At(c, "wrap_tcb")
  /\ tcb' = [tcb EXCEPT ![c] = NewTcb]
  /\ mem' = [mem EXCEPT ![c] = "live"]
  /\ rq_push(c)
  /\ Goto(c, "wrap_jcb")
  /\ UNCHANGED << waitQ, runQ, joinVars, isPushed, sched, arg, sigVars, rest >>

\* Make the join structure and queue it.
WrapJcb(c) ==
  /\ At(c, "wrap_jcb")
  /\ jcb' = [jcb EXCEPT ![c] = Null]
  /\ jq_push(c)
  /\ Goto(c, "wrap_flag")
  /\ UNCHANGED << queueVars, tcbVars, isPushed, sched, arg, sigVars, rest >>

WrapFlag(c) ==
  /\ At(c, "wrap_flag")
  /\ isPushed' = TRUE
  /\ Goto(c, "wrap_signal")
  /\ UNCHANGED << queueVars, joinVars, tcbVars, sched, arg, sigVars, rest >>

\* Mutant of WrapSignal: nobody is signalled.
WrapSignalNobody(c) ==
  /\ At(c, "wrap_signal")
  /\ Goto(c, "wrap_enter")
  /\ UNCHANGED << queueVars, joinVars, tcbVars, isPushed, sched, arg, sigVars, rest >>

\* Signal static_cond: one sleeping creator, if any, checks again.
WrapSignal(c) ==
  /\ At(c, "wrap_signal")
  /\ LET sleepers == {t \in Thread : pc[t] = "create_sleep"}
     IN IF sleepers = {} THEN Goto(c, "wrap_enter")
        ELSE \E t \in sleepers :
               pc' = [pc EXCEPT ![t] = "create_check", ![c] = "wrap_enter"]
  /\ UNCHANGED << queueVars, joinVars, tcbVars, isPushed, sched, arg, sigVars, rest >>

\* __thread_wait_handler(0): find the own TCB, then wait for bRunnable.
WaitEnter(t, from, to) ==
  /\ At(t, from)
  /\ IF getThread(t) = Null THEN Crash
     ELSE /\ Goto(t, to)
          /\ UNCHANGED << queueVars, joinVars, tcbVars, isPushed, sched, arg, sigVars, rest >>

\* Mutant of WaitReturn: any wakeup ends the wait.
WaitReturnAtOnce(t, from, to) ==
  /\ At(t, from)
  /\ Goto(t, to)
  /\ UNCHANGED << queueVars, joinVars, tcbVars, isPushed, sched, arg, sigVars, rest >>

WaitReturn(t, from, to) ==
  /\ At(t, from)
  /\ tcb[t].bRunnable
  /\ Goto(t, to)
  /\ UNCHANGED << queueVars, joinVars, tcbVars, isPushed, sched, arg, sigVars, rest >>

WrapEnter(c) == WaitEnter(c, "wrap_enter", "start")
WrapRun(c) == WaitReturn(c, "start", "user")

-----------------------------------------------------------------------------
(* thread_join *)

\* A client joins its own children, each at most once.  A child that has
\* exited carries its parent's id in its join structure.
MayJoin(t, c) ==
  /\ mem[c] = "live" /\ tcb[c].parentTid = t
  /\ JoinExited \/ jcb[c] # t

\* Look both TCBs up and give up RunQHead, "because parent must be running".
Join(t, c) ==
  /\ AtCall(t, "join") /\ MayJoin(t, c)
  /\ IF getThread(t) = Null \/ getThread(c) = Null THEN Crash
     ELSE /\ runQ' = Null
          /\ arg' = [arg EXCEPT ![t] = c]
          /\ Goto(t, "join_push")
          /\ UNCHANGED << readyQ, waitQ, link, joinVars, tcbVars, isPushed, sched, sigVars, rest >>

JoinPush(t) ==
  /\ At(t, "join_push")
  /\ wq_push(t)
  /\ Goto(t, "join_check")
  /\ UNCHANGED << readyQ, runQ, joinVars, tcbVars, isPushed, sched, arg, sigVars, rest >>

\* A child that has not exited is marked as joined and waited for; one that
\* has is collected at once, with the caller left in the wait queue.
JoinCheck(t) ==
  /\ At(t, "join_check")
  /\ IF jq_search(arg[t]) = Null THEN Crash
     ELSE /\ tcb' = [tcb EXCEPT ![t].bRunnable = FALSE]
          /\ IF jcb[arg[t]] = Null
             THEN jcb' = [jcb EXCEPT ![arg[t]] = t] /\ Goto(t, "join_enter")
             ELSE jcb' = jcb /\ Goto(t, "join_collect")
          /\ UNCHANGED << queueVars, joinQ, jlink, mem, isPushed, sched, arg, sigVars, rest >>

JoinEnter(t) == WaitEnter(t, "join_enter", "join_wait")
JoinReturn(t) == WaitReturn(t, "join_wait", "join_collect")

JoinCollect(t) ==
  /\ At(t, "join_collect")
  /\ got' = [got EXCEPT ![arg[t]] = tcb[arg[t]].pExitCode]
  /\ Goto(t, "join_free")
  /\ UNCHANGED << queueVars, joinVars, tcbVars, isPushed, sched, arg, sigVars, parked, crashed >>

\* Mutant of JoinFree: the TCB is freed where it is.
JoinFreeQueued(t) ==
  /\ At(t, "join_free")
  /\ jq_remove(arg[t])
  /\ mem' = [mem EXCEPT ![arg[t]] = "freed"]
  /\ Leave(t, "user")
  /\ UNCHANGED << queueVars, jcb, tcb, isPushed, sched, sigVars, rest >>

\* The TCB is freed whether or not the ready queue held it.
JoinFree(t) ==
  /\ At(t, "join_free")
  /\ rq_remove(arg[t])
  /\ jq_remove(arg[t])
  /\ mem' = [mem EXCEPT ![arg[t]] = "freed"]
  /\ Leave(t, "user")
  /\ UNCHANGED << waitQ, runQ, jcb, tcb, isPushed, sched, sigVars, rest >>

-----------------------------------------------------------------------------
(* thread_exit *)

\* The caller's TCB is looked up, RunQHead standing in for a failed search,
\* and then its parent's TCB and its own join structure; a parent that has
\* marked the join structure is to be woken, one that has not is left a mark.
Exit(t) ==
  /\ AtCall(t, "exit")
  /\ LET me == IF getThread(t) # Null THEN t ELSE runQ
         parent == tcb[me].parentTid
     IN IF me = Null \/ (getThread(parent) # Null /\ jq_search(t) = Null) THEN Crash
        ELSE /\ arg' = [arg EXCEPT ![t] = me]
             /\ Goto(t, IF getThread(parent) = Null THEN "exit_code"
                        ELSE IF jcb[t] = parent THEN "exit_wake" ELSE "exit_mark")
             /\ UNCHANGED << queueVars, joinVars, tcbVars, isPushed, sched, sigVars, rest >>

ParentOf(t) == tcb[arg[t]].parentTid

ExitWake(t) ==
  /\ At(t, "exit_wake")
  /\ wq_remove(ParentOf(t))
  /\ Goto(t, "exit_push")
  /\ UNCHANGED << readyQ, runQ, joinVars, tcbVars, isPushed, sched, arg, sigVars, rest >>

\* Mutant of ExitPush: the parent is not made ready.
ExitPushForgets(t) ==
  /\ At(t, "exit_push")
  /\ Goto(t, "exit_code")
  /\ UNCHANGED << queueVars, joinVars, tcbVars, isPushed, sched, arg, sigVars, rest >>

ExitPush(t) ==
  /\ At(t, "exit_push")
  /\ rq_push(ParentOf(t))
  /\ Goto(t, "exit_code")
  /\ UNCHANGED << waitQ, runQ, joinVars, tcbVars, isPushed, sched, arg, sigVars, rest >>

ExitMark(t) ==
  /\ At(t, "exit_mark")
  /\ jcb' = [jcb EXCEPT ![t] = ParentOf(t)]
  /\ Goto(t, "exit_code")
  /\ UNCHANGED << queueVars, joinQ, jlink, tcbVars, isPushed, sched, arg, sigVars, rest >>

\* The exit code is stored last; then the thread's function returns and the
\* pthread ends.  Its TCB stays where it is, RunQHead included.
ExitCode(t) ==
  /\ At(t, "exit_code")
  /\ tcb' = [tcb EXCEPT ![arg[t]].pExitCode = t]
  /\ Leave(t, "done")
  /\ UNCHANGED << queueVars, joinVars, mem, isPushed, sched, sigVars, rest >>

\* The thread's function returns without thread_exit.
Return(t) ==
  /\ AtCall(t, "return")
  /\ Goto(t, "done")
  /\ UNCHANGED << queueVars, joinVars, tcbVars, isPushed, sched, arg, sigVars, rest >>

-----------------------------------------------------------------------------
(* thread_suspend and thread_resume *)

\* Clients suspend threads that are in the ready queue and not joined yet.
Suspend(t, x) ==
  /\ AtCall(t, "suspend") /\ x \in Ready /\ mem[x] = "live"
  /\ SuspendFresh \/ pc[x] \notin WrapPc
  /\ rq_remove(x)
  /\ arg' = [arg EXCEPT ![t] = x]
  /\ Goto(t, "suspend_push")
  /\ UNCHANGED << waitQ, runQ, joinVars, tcbVars, isPushed, sched, sigVars, rest >>

SuspendPush(t) ==
  /\ At(t, "suspend_push")
  /\ wq_push(arg[t])
  /\ Leave(t, "user")
  /\ UNCHANGED << readyQ, runQ, joinVars, tcbVars, isPushed, sched, sigVars, rest >>

\* Clients resume threads that were suspended, not threads that join.
Resume(t, x) ==
  /\ AtCall(t, "resume") /\ x \in Waiting /\ mem[x] = "live" /\ pc[x] \notin JoinPc \cup {"join_wait"}
  /\ wq_remove(x)
  /\ arg' = [arg EXCEPT ![t] = x]
  /\ Goto(t, "resume_push")
  /\ UNCHANGED << readyQ, runQ, joinVars, tcbVars, isPushed, sched, sigVars, rest >>

ResumePush(t) ==
  /\ At(t, "resume_push")
  /\ rq_push(arg[t])
  /\ Leave(t, "user")
  /\ UNCHANGED << waitQ, runQ, joinVars, tcbVars, isPushed, sched, sigVars, rest >>

-----------------------------------------------------------------------------
(* RunScheduler and __ContextSwitch *)

\* Whoever was woken has left its wait.
WakeupsArrived ==
  \A t \in Thread :
    tcb[t].bRunnable => ~ inHandler[t] /\ pc[t] \notin WaitPc

TickMayCome ==
  \/ Ticks = "anywhere"
  \/ /\ Ticks = "in_calls" \/ \A t \in Thread : pc[t] \in RestPc
     /\ SignalsArrived /\ WakeupsArrived

\* A tick: read RunQHead, and ReadyQHead while no thread is running.  The
\* "continue" for an empty ready queue sits behind that test, and pNewThread
\* is never reset: from the first switch on it stays set.
SchedRead ==
  /\ ~ crashed /\ sched.pc = "tick"
  /\ TickMayCome
  /\ LET armed == sched.armed \/ (runQ = Null /\ readyQ.head # Null)
         next == IF runQ # Null THEN "preempt" ELSE IF armed THEN "dispatch" ELSE "tick"
     IN sched' = [pc |-> next, cur |-> runQ, new |-> Null, armed |-> armed]
  /\ UNCHANGED << queueVars, joinVars, tcbVars, isPushed, ctlVars, sigVars, rest >>

\* Mutant of SchedPreempt: bRunnable stays true.
SchedPreemptRunnable ==
  /\ ~ crashed /\ sched.pc = "preempt"
  /\ sig' = [sig EXCEPT ![sched.cur] = pc[sched.cur] # "done"]
  /\ rq_push(sched.cur)
  /\ sched' = [sched EXCEPT !.pc = IF sched.armed THEN "dispatch" ELSE "tick"]
  /\ UNCHANGED << waitQ, runQ, joinVars, tcbVars, isPushed, ctlVars, inHandler, rest >>

\* Mutant of SchedPreempt: the thread is not queued again.
SchedPreemptDrops ==
  /\ ~ crashed /\ sched.pc = "preempt"
  /\ tcb' = [tcb EXCEPT ![sched.cur].bRunnable = FALSE]
  /\ sig' = [sig EXCEPT ![sched.cur] = pc[sched.cur] # "done"]
  /\ sched' = [sched EXCEPT !.pc = IF sched.armed THEN "dispatch" ELSE "tick"]
  /\ UNCHANGED << queueVars, joinVars, mem, isPushed, ctlVars, inHandler, rest >>

\* Stop the running thread and queue it again.  RunQHead still names it.
SchedPreempt ==
  /\ ~ crashed /\ sched.pc = "preempt"
  /\ tcb' = [tcb EXCEPT ![sched.cur].bRunnable = FALSE]
  /\ sig' = [sig EXCEPT ![sched.cur] = pc[sched.cur] # "done"]
  /\ rq_push(sched.cur)
  /\ sched' = [sched EXCEPT !.pc = IF sched.armed THEN "dispatch" ELSE "tick"]
  /\ UNCHANGED << waitQ, runQ, joinVars, mem, isPushed, ctlVars, inHandler, rest >>

\* rq_pop, not the pNewThread passed in, picks the thread that is woken.
SchedDispatch ==
  /\ ~ crashed /\ sched.pc = "dispatch"
  /\ IF readyQ.head = Null THEN Crash
     ELSE /\ rq_pop
          /\ tcb' = [tcb EXCEPT ![readyQ.head].bRunnable = TRUE]
          /\ sched' = [sched EXCEPT !.pc = "set", !.new = readyQ.head]
          /\ UNCHANGED << waitQ, runQ, joinVars, mem, isPushed, ctlVars, sigVars, rest >>

\* Mutant of SchedSet: RunQHead is not updated.
SchedSetForgets ==
  /\ ~ crashed /\ sched.pc = "set"
  /\ sched' = [sched EXCEPT !.pc = "tick", !.cur = Null, !.new = Null]
  /\ UNCHANGED << queueVars, joinVars, tcbVars, isPushed, ctlVars, sigVars, rest >>

SchedSet ==
  /\ ~ crashed /\ sched.pc = "set"
  /\ runQ' = sched.new
  /\ sched' = [sched EXCEPT !.pc = "tick", !.cur = Null, !.new = Null]
  /\ UNCHANGED << readyQ, waitQ, link, joinVars, tcbVars, isPushed, ctlVars, sigVars, rest >>

\* SIGUSR1 reaches the thread: __thread_wait_handler runs on top of it.
TakeSignal(t) ==
  /\ ~ crashed /\ sig[t] /\ ~ inHandler[t]
  /\ IF getThread(t) = Null THEN Crash
     ELSE /\ sig' = [sig EXCEPT ![t] = FALSE]
          /\ inHandler' = [inHandler EXCEPT ![t] = TRUE]
          /\ UNCHANGED << queueVars, joinVars, tcbVars, isPushed, sched, ctlVars, rest >>

HandlerReturn(t) ==
  /\ ~ crashed /\ inHandler[t] /\ tcb[t].bRunnable
  /\ inHandler' = [inHandler EXCEPT ![t] = FALSE]
  /\ UNCHANGED << queueVars, joinVars, tcbVars, isPushed, sched, ctlVars, sig, rest >>

-----------------------------------------------------------------------------
\* The rest of a call that t has begun.
Continue(t) ==
  \/ CreateCheck(t)
  \/ WrapTcb(t) \/ WrapJcb(t) \/ WrapFlag(t) \/ WrapSignal(t) \/ WrapEnter(t) \/ WrapRun(t)
  \/ JoinPush(t) \/ JoinCheck(t) \/ JoinEnter(t) \/ JoinReturn(t) \/ JoinCollect(t) \/ JoinFree(t)
  \/ ExitWake(t) \/ ExitPush(t) \/ ExitMark(t) \/ ExitCode(t)
  \/ SuspendPush(t) \/ ResumePush(t)

\* What SIGUSR1 does to t.
Handler(t) == TakeSignal(t) \/ HandlerReturn(t)

\* t's program begins a call.
Call(t) ==
  \/ \E c \in Thread : Create(t, c) \/ Join(t, c) \/ Suspend(t, c) \/ Resume(t, c)
  \/ Exit(t) \/ Return(t)

RunScheduler == SchedRead \/ SchedPreempt \/ SchedDispatch \/ SchedSet

Next == RunScheduler \/ \E t \in Thread : Call(t) \/ Continue(t) \/ Handler(t)

Spec == Init /\ [][Next]_vars

\* The kernel runs every pthread that can run, the main one included.  What
\* the program calls, and whether it calls anything, is its own business.
KernelFairness == WF_vars(RunScheduler) /\ \A t \in Thread : WF_vars(Handler(t))

FairSpec == Spec /\ KernelFairness /\ \A t \in Thread : WF_vars(Continue(t))

\* Where ticks land inside calls a thread gets on only in its slices, and a
\* slice is a second: given slices for ever, it finishes its call.
SlicedSpec == Spec /\ KernelFairness /\ \A t \in Thread : SF_vars(Continue(t))
=============================================================================
