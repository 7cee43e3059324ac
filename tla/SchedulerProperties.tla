------------------------ MODULE SchedulerProperties ------------------------
EXTENDS Scheduler

\* The threads that are on their way between two queues, in some other
\* thread's exit, suspend or resume, or in their own join.
InTransit ==
  {arg[t] : t \in {u \in Thread : pc[u] \in SuspendPc}}
  \cup {ParentOf(t) : t \in {u \in Thread : pc[u] = "exit_push"}}
  \cup {t \in Thread : pc[t] = "join_push"}

\* The thread that has been popped and woken while RunQHead is not yet set.
Popped == IF sched.pc = "set" THEN {sched.new} ELSE {}

\* RunQHead, unless it still names the thread the tick has queued again.
Running == IF runQ = Null \/ runQ \in Ready \/ sched.pc \in {"dispatch", "set"}
           THEN {} ELSE {runQ}

Live == {t \in Thread : mem[t] = "live"}

\* Threads that execute statements of their own, a call's or the program's.
Executing == {t \in Thread :
  /\ pc[t] \notin (RestPc \ {"user"}) \cup WrapPc \cup {"create_sleep"}
  /\ ~ inHandler[t] /\ ~ sig[t]}

-----------------------------------------------------------------------------
\* The ready and the wait queue are linked both ways and end in their tails,
\* and every thread outside of them has NULL links, as the push code needs.
QueuesWellLinked ==
  /\ Represents(readyQ, link, Walk(readyQ, link))
  /\ Represents(waitQ, link, Walk(waitQ, link))
  /\ \A t \in Thread \ (Ready \cup Waiting \cup parked) : link.next[t] = Null /\ link.prev[t] = Null

\* A parent finds the join structure of every child it can still join.
ChildrenJoinable ==
  \A c \in Live : tcb[c].parentTid \in Live => jq_search(c) = c

\* A live thread is in exactly one place: the ready queue, the wait queue, a
\* message queue, RunQHead, or on its way.  A freed TCB or one not yet made is
\* in none.
OnePlaceWith(transit) ==
  \A t \in Thread :
    LET is == {p \in {"ready", "wait", "parked", "run", "popped", "transit"} :
                 \/ p = "ready" /\ t \in Ready
                 \/ p = "wait" /\ t \in Waiting
                 \/ p = "parked" /\ t \in parked
                 \/ p = "run" /\ t \in Running
                 \/ p = "popped" /\ t \in Popped
                 \/ p = "transit" /\ t \in transit}
    IN Cardinality(is) = IF t \in Live THEN 1 ELSE 0

\* In a program without message queues.
OnePlaceEach == OnePlaceWith(InTransit)

\* "for track running thread's TCB" (Scheduler.c, __ContextSwitch): a thread
\* that executes its program is the one in RunQHead, or is about to be.
RunQHeadTracksRunner ==
  \A t \in Executing : pc[t] = "user" => t \in Running \cup Popped

\* One processor: two threads never execute at the same time.
OneAtATime == \A t, u \in Executing : t = u

\* "parent thread block until child thread exit" (Thread.c, thread_join): what
\* a join returns is the value the child gave to thread_exit.
JoinReturnsExitCode == \A c \in Thread : got[c] \in {Null, c}

\* No queue, scheduler variable or call in progress refers to a freed TCB.
NoUseAfterFree ==
  /\ Ready \cup Waiting \cup ({runQ} \ {Null}) \cup Popped \cup InTransit \subseteq Live
  /\ \A t \in Thread : pc[t] \in ExitPc => mem[arg[t]] = "live"
  /\ \A t \in Thread : pc[t] \in JoinPc \cup {"join_wait"} => mem[arg[t]] = "live"

\* Every lookup and every pop that the code trusts to succeed does: neither
\* __getThread, jq_search nor rq_pop returns a NULL that is then followed.
NoCrash == ~ crashed

\* What holds of the scheduler whatever the threads do with it: the parts of
\* the invariant that say nothing of joins and exit codes.
SchedulerOK ==
  /\ QueuesWellLinked
  /\ OnePlaceEach
  /\ RunQHeadTracksRunner
  /\ OneAtATime
  /\ NoCrash

-----------------------------------------------------------------------------
\* The queues and RunQHead as the abstract scheduler sees them.
Abstract == INSTANCE RoundRobin WITH
  None    <- Null,
  ready   <- Walk(readyQ, link),
  running <- IF Popped # {} THEN sched.new ELSE IF Running # {} THEN runQ ELSE Null,
  blocked <- Waiting \cup InTransit

\* Every step of thread.c and Scheduler.c is a step of the abstract round-robin
\* scheduler or leaves it alone: the preempted thread queues up last, the first
\* in the queue runs next, nobody else gets in or out.
ImplementsRoundRobin == Abstract!RRSpec

\* A thread_create returns: the new thread's signal is not lost, whichever of
\* the two comes to static_cond first.
CreatesReturn ==
  \A t \in Thread : pc[t] \in CreatePc ~> pc[t] = "user"

\* A ready thread gets the processor, however long the queue, unless it is
\* taken out of the queue by a suspend or, having ended, by its join.
ReadyThreadsRun ==
  \A t \in Thread : t \in Ready ~> t \notin Ready

\* A parent that waits for a child that has exited returns from its join.
JoinsReturn ==
  \A t, c \in Thread :
    (pc[t] = "join_wait" /\ arg[t] = c /\ tcb[c].pExitCode = c) ~> got[c] # Null
=============================================================================
