------------------------- MODULE SchedulerInvariant -------------------------
(***************************************************************************)
(* Why the scheduler is right, where it is: the inductive invariant behind *)
(* SchedulerProperties.  It holds of the programs Disciplined describes as *)
(* long as the queues are only asked for removals their code gets right.   *)
(***************************************************************************)
EXTENDS SchedulerProperties

JoinsUsed == "join" \in Ops

\* No join of a child that has exited, no suspend of a thread that has not
\* waited yet.  If ticks keep out of calls, joins are not mixed with suspends
\* (a join does not expect to be resumed); if they come inside calls, nobody
\* joins, suspends or resumes, and one thread creates all the others.
Disciplined ==
  /\ ~ JoinExited /\ ~ SuspendFresh
  /\ \/ Ticks = "between_calls" /\ ("join" \notin Ops \/ "suspend" \notin Ops)
     \/ /\ Ticks = "in_calls" /\ Ops \cap {"join", "suspend", "resume"} = {}
        /\ \A t, u \in Creators : t = u

\* The queue does not hold x, or where Remove is right about it.
Exact(q, l, x) ==
  \A i \in DOMAIN Walk(q, l) : Walk(q, l)[i] = x => RemovablePosition(Walk(q, l), i)

\* A step removes from queues where the code gets it right, if it removes.
RemovalsExact ==
  \A t, x \in Thread :
    /\ Suspend(t, x) => Exact(readyQ, link, x)
    /\ Resume(t, x) => Exact(waitQ, link, x)
    /\ ExitWake(t) => Exact(waitQ, link, ParentOf(t))
    /\ JoinFree(t) => Exact(readyQ, link, arg[t]) /\ Exact(joinQ, jlink, arg[t])

-----------------------------------------------------------------------------
(* Who has the processor, and who is between two queues *)

\* The statements of a join between giving up RunQHead and waiting.
YieldPc == {"join_push", "join_check", "join_enter"}
Yielding == {t \in Thread : pc[t] \in YieldPc}

\* The threads that may execute: at most one.
Holder == Running \cup Popped \cup Yielding

\* t has x in its hands: out of one queue and not yet in the next.
Carry(t, x) ==
  \/ pc[t] \in SuspendPc /\ x = arg[t]
  \/ pc[t] = "exit_push" /\ x = ParentOf(t)
  \/ pc[t] = "join_push" /\ x = t

JoinMembers == Members(joinQ, jlink)

Exiting(c) == pc[c] \in ExitPc \cup {"done"}

\* The first statements of __wrapperFunc, up to the one that sets is_pushed.
NotPushedPc == {"wrap_tcb", "wrap_jcb", "wrap_flag"}

-----------------------------------------------------------------------------
(* The parts of the invariant *)

\* Ready and wait queue hold sequences of different threads, none in both.
TcbQueues ==
  /\ {Walk(readyQ, link), Walk(waitQ, link)} \subseteq Seq(Thread)
  /\ QueuesWellLinked
  /\ Ready \cap Waiting = {}
  /\ parked = {}

\* The join queue holds the join structures that are queued and not freed.
JoinQueue ==
  /\ Walk(joinQ, jlink) \in Seq(Thread)
  /\ Represents(joinQ, jlink, Walk(joinQ, jlink))
  /\ \A t \in Thread \ JoinMembers : jlink.next[t] = Null /\ jlink.prev[t] = Null
  /\ JoinMembers = {t \in Live : pc[t] # "wrap_jcb"}

\* Every live thread is queued, running or in somebody's hands, and nothing
\* else is; a thread in somebody's hands is nowhere else.  No thread waits or
\* is in somebody's hands before its first turn.
Places ==
  /\ \A x \in Live : \/ x \in Ready \cup Waiting \cup Popped \cup {runQ}
                     \/ \E t \in Thread : Carry(t, x)
  /\ Ready \cup Waiting \cup Popped \subseteq Live
  /\ runQ # Null => runQ \in Live
  /\ Popped \cap (Ready \cup Waiting) = {}
  /\ \A x \in Waiting : pc[x] \notin WrapPc
  /\ \A t, x \in Thread : Carry(t, x) =>
       /\ x \in Live \ (Ready \cup Waiting \cup Popped \cup {runQ})
       /\ pc[x] \notin WrapPc
       /\ \A u \in Thread : Carry(u, x) => u = t

\* What each statement of the scheduler loop finds.
Loop ==
  /\ sched.pc \in {"tick", "preempt"} => runQ \notin Ready \cup Waiting
  /\ sched.pc = "preempt" => sched.cur = runQ /\ runQ # Null
  /\ sched.pc = "dispatch" => runQ \in Ready \cup {Null} /\ Ready # {}
  /\ sched.pc = "set" => runQ \in Ready \cup Popped \cup {Null} /\ sched.new \in Thread
  /\ runQ # Null \/ sched.pc \in {"dispatch", "set"} => sched.armed
  /\ ~ JoinsUsed /\ sched.armed /\ sched.pc = "tick" => runQ # Null

\* Whoever does not hold the processor is stopped or waits, and only a holder
\* is let go; SIGUSR1 is on its way to the thread preempted last at most.
Turns ==
  /\ \A t \in Thread \ Holder :
       sig[t] \/ inHandler[t] \/ pc[t] \in WrapPc \cup WaitPc \cup {"none", "done"}
  /\ \A t \in Thread : tcb[t].bRunnable => t \in Holder /\ pc[t] # "join_enter"
  /\ \A t \in Yielding : runQ = Null /\ sched.pc = "tick" /\ \A u \in Yielding : u = t
  /\ \A t \in Thread : sig[t] =>
       /\ sched.pc = "tick" => t \in Ready \cup {runQ}
       /\ sched.pc # "tick" => t = runQ /\ sched.pc # "preempt"
  /\ \A t \in Thread : inHandler[t] => mem[t] # "none"

\* Ticks between calls find and leave no thread inside a call.
Quiet ==
  Ticks = "between_calls" =>
    /\ sched.pc # "tick" => \A t \in Thread : pc[t] \in RestPc
    /\ \A t \in Thread : sig[t] \/ inHandler[t] => pc[t] \in RestPc

\* At most one thread creates at a time; is_pushed speaks of the thread it
\* creates, which has no parent yet.
Creating ==
  /\ \A t, u \in Thread : pc[t] \in CreatePc /\ pc[u] \in CreatePc => t = u
  /\ \A t \in Thread : pc[t] \in CreatePc =>
       /\ t \in Creators
       /\ arg[t] \in Thread /\ arg[t] # t /\ pc[arg[t]] # "none" /\ mem[arg[t]] # "freed"
       /\ Ticks = "between_calls" => pc[arg[t]] \in WrapPc \cup {"start"}
       /\ tcb[arg[t]].parentTid = Null
  /\ isPushed => \E t \in Thread : pc[t] \in CreatePc /\ pc[arg[t]] \notin NotPushedPc
  /\ \A c \in Thread : pc[c] \in NotPushedPc =>
       ~ isPushed /\ \E t \in Thread : pc[t] \in CreatePc /\ arg[t] = c
  /\ \A c \in Thread : pc[c] \in NotPushedPc \cup {"none"} => tcb[c].parentTid = Null
  /\ \A c \in Thread : mem[c] = "freed" => pc[c] = "done"

\* Exit codes are their threads' own, and so are the marks in join structures.
Codes ==
  /\ mem[Root] = "live" /\ tcb[Root].parentTid = Main
  /\ \A t \in Thread : pc[t] \in ExitPc => arg[t] = t
  /\ \A t \in Thread : tcb[t].pExitCode \in {t, Garbage}
  /\ \A t \in Thread : got[t] \in {Null, t}
  /\ \A t \in Thread : jcb[t] \in {Null, tcb[t].parentTid}
  /\ ~ JoinsUsed => \A t \in Thread : ~ Exiting(t) => jcb[t] = Null

\* Which calls the program makes, and who waits because of them.
Waits ==
  /\ ~ JoinsUsed => \A t \in Thread : pc[t] \notin JoinPc \cup {"join_wait", "exit_wake", "exit_push"}
  /\ JoinsUsed => \A t \in Thread : pc[t] \notin SuspendPc
  /\ JoinsUsed => \A t \in Waiting : pc[t] \in {"join_check", "join_enter", "join_wait"}
  /\ Ops \cap {"join", "suspend"} = {} => Waiting = {} /\ \A t \in Thread : pc[t] \notin SuspendPc
  /\ \A t \in Thread : pc[t] \in {"join_check", "join_enter"} => t \in Waiting

\* A parent t in thread_join and its child c = arg[t].
Joins ==
  \A t \in Thread :
    LET c == arg[t]
        queued == t \in Waiting
    IN /\ pc[t] \in JoinPc \cup {"join_wait"} => c \in Live /\ tcb[c].parentTid = t
       /\ pc[t] \in {"join_push", "join_check"} => jcb[c] = Null /\ pc[c] \notin ExitPc
       /\ pc[t] \in {"join_enter", "join_wait"} /\ queued =>
            jcb[c] = t /\ pc[c] \notin {"exit_push", "exit_code", "exit_mark"}
       /\ pc[t] = "join_wait" /\ ~ queued => pc[c] \in {"exit_push", "exit_code", "done"}
       /\ pc[t] \in {"join_collect", "join_free"} => pc[c] = "done" /\ ~ queued
       /\ pc[t] \in {"join_wait", "join_collect", "join_free"} /\ ~ queued /\ pc[c] = "done"
            => tcb[c].pExitCode = c

\* A child c with a parent that has marked it, and one that wakes its parent.
Children ==
  /\ \A c \in Thread : LET p == tcb[c].parentTid IN
       /\ pc[c] \in {"exit_wake", "exit_push"} => p \in Thread /\ pc[p] = "join_wait" /\ arg[p] = c
       /\ pc[c] = "exit_wake" => p \in Waiting
       /\ JoinsUsed /\ c \in Live /\ ~ Exiting(c) /\ jcb[c] # Null =>
            p \in Waiting /\ pc[p] \in {"join_enter", "join_wait"} /\ arg[p] = c
  /\ \A t, c \in Thread : tcb[c].parentTid = t =>
       mem[t] # "none" /\ (Ticks = "between_calls" => pc[t] \notin WrapPc \cup {"start"})

\* c is a child of t, or about to be.
ChildOf(c, t) == tcb[c].parentTid = t \/ (pc[t] \in CreatePc /\ arg[t] = c)

\* Parents and children form a tree: among any threads there is one without a
\* child among them.
Tree ==
  \A S \in SUBSET Thread : S # {} => \E t \in S : \A c \in S : ~ ChildOf(c, t)

\* The inductive invariant, on top of the types.
SchedulerInv ==
  /\ TcbQueues /\ JoinQueue
  /\ Places /\ Loop /\ Turns /\ Quiet
  /\ Creating /\ Codes /\ Waits /\ Joins /\ Children
  /\ Tree /\ NoCrash
=============================================================================
