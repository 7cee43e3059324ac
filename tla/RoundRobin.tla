----------------------------- MODULE RoundRobin -----------------------------
(***************************************************************************)
(* What the scheduler promises: one processor, a ready queue served first  *)
(* come first served, and threads that are off both while they are blocked. *)
(***************************************************************************)
EXTENDS Naturals, Sequences

CONSTANTS Thread, None

ASSUME NoneAssumption == None \notin Thread

VARIABLES ready,    \* the ready threads, next to run first
          running,  \* the thread that has the processor, or None
          blocked   \* the threads that wait to be woken

rrVars == << ready, running, blocked >>

Elements(s) == {s[i] : i \in DOMAIN s}

InReady == Elements(ready)

Without(s, i) ==
  [j \in 1..(Len(s) - 1) |-> IF j < i THEN s[j] ELSE s[j + 1]]

\* The places hold threads; the processor may be idle, the others not.
RRTypeOK ==
  /\ ready \in Seq(Thread)
  /\ running \in Thread \cup {None}
  /\ blocked \subseteq Thread

\* The scheduler starts with one thread, made by the main pthread.
RRInit ==
  /\ ready \in {<< t >> : t \in Thread}
  /\ running = None
  /\ blocked = {}

\* A new thread queues up.
Admit(t) ==
  /\ t \notin InReady \cup {running} \cup blocked
  /\ ready' = Append(ready, t)
  /\ UNCHANGED << running, blocked >>

\* Mutant of Preempt: the preempted thread keeps the processor.
PreemptInPlace ==
  /\ running # None
  /\ ready' = Append(ready, running)
  /\ UNCHANGED << running, blocked >>

\* Mutant of Preempt: it is queued in front of those that wait.
PreemptToFront ==
  /\ running # None
  /\ ready' = << running >> \o ready
  /\ running' = None
  /\ UNCHANGED blocked

\* The time slice is over.
Preempt ==
  /\ running # None
  /\ ready' = Append(ready, running)
  /\ running' = None
  /\ UNCHANGED blocked

\* Mutant of Dispatch: the thread that queued up last runs first.
DispatchLast ==
  /\ running = None /\ ready # << >>
  /\ running' = ready[Len(ready)]
  /\ ready' = Without(ready, Len(ready))
  /\ UNCHANGED blocked

\* The thread that has waited longest gets the processor.
Dispatch ==
  /\ running = None /\ ready # << >>
  /\ running' = Head(ready)
  /\ ready' = Tail(ready)
  /\ UNCHANGED blocked

\* Mutant of Block: no thread need be running.
BlockAnyway ==
  /\ blocked' = blocked \cup {running}
  /\ running' = None
  /\ UNCHANGED ready

\* The running thread waits for something.
Block ==
  /\ running # None
  /\ blocked' = blocked \cup {running}
  /\ running' = None
  /\ UNCHANGED ready

Wake(t) ==
  /\ t \in blocked
  /\ blocked' = blocked \ {t}
  /\ ready' = Append(ready, t)
  /\ UNCHANGED running

\* Some thread takes a ready one out of turn.
Suspend(i) ==
  /\ ready' = Without(ready, i)
  /\ blocked' = blocked \cup {ready[i]}
  /\ UNCHANGED running

\* A thread that has ended is taken out for good.
Reap(i) ==
  /\ ready' = Without(ready, i)
  /\ UNCHANGED << running, blocked >>

RRNext ==
  \/ Preempt \/ Dispatch \/ Block
  \/ \E t \in Thread : Admit(t) \/ Wake(t)
  \/ \E i \in DOMAIN ready : Suspend(i) \/ Reap(i)

RRSpec == RRInit /\ [][RRNext]_rrVars
=============================================================================
