-------------------------- MODULE RoundRobinTurns --------------------------
(***************************************************************************)
(* RoundRobin with a record of who got the processor since each thread     *)
(* queued up, to say that nobody is overtaken twice.                       *)
(***************************************************************************)
EXTENDS RoundRobin

VARIABLE passed     \* auxiliary: the threads dispatched since t queued up

turnVars == << rrVars, passed >>

\* Threads that enter the ready queue start to count; those in it count the
\* thread that a dispatch picks.
Count ==
  passed' = [t \in Thread |->
    IF t \notin InReady THEN {}
    ELSE IF running' # running /\ running' # None THEN passed[t] \cup {running'}
    ELSE passed[t]]

TurnsInit == RRInit /\ passed = [t \in Thread |-> {}]
TurnsNext == RRNext /\ Count
TurnsSpec == TurnsInit /\ [][TurnsNext]_turnVars

\* A thread has one place: in the queue once, or running, or blocked.
OnePlace ==
  /\ \A i, j \in DOMAIN ready : ready[i] = ready[j] => i = j
  /\ running \notin InReady \cup blocked
  /\ InReady \cap blocked = {}

\* No thread is given the processor twice while another one stays ready.
NoSecondTurn ==
  [][\A t \in Thread :
       (t \in InReady /\ t \in InReady' /\ Dispatch) => running' \notin passed[t]]_turnVars

\* Why: whoever passed a waiting thread is not ahead of it any more.
PassedAreBehind ==
  \A i, j \in DOMAIN ready : i < j => ready[i] \notin passed[ready[j]]
=============================================================================
