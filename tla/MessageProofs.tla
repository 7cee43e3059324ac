---------------------------- MODULE MessageProofs ----------------------------
(***************************************************************************)
(* What becomes of messages, for any finite set of threads, any slots and  *)
(* any memory for Qcbs: MessagesInv of MsgQueueInvariant is inductive on   *)
(* top of MqInv, and implies that messages are neither lost nor doubled,   *)
(* keep their order, and are not slept beside.                             *)
(*                                                                         *)
(* MessagesInv speaks of one Qcb, of one thread, or of one Qcb and one     *)
(* type at a time.  The first lemmas say of each kind what leaves it true; *)
(* then there is one lemma for each action, in the order of MsgQueue.tla,  *)
(* for what it changes.                                                    *)
(***************************************************************************)
EXTENDS MsgQueueProofs

-----------------------------------------------------------------------------
(* What most steps leave alone *)

\* The statements of a call that MessagesInv speaks of.
BusyPc == {"snd_push", "snd_wake", "rcv_remove", "rcv_retry"} \cup ParkingPc

\* Nobody but t moves, or waits where it did not.
OnlyMoves(t) ==
  /\ \A u \in Thread \ {t} : pc'[u] = pc[u] /\ loc'[u] = loc[u] /\ type'[u] = type[u]
  /\ parked' \subseteq parked \cup {t}

\* Between its own steps a thread in a call finds no other in one.
LEMMA OthersIdle ==
  ASSUME MqDisciplined, MqInv, NEW t \in Thread, Executes(t), pc[t] \notin IdlePc
  PROVE  \A u \in Thread \ {t} : pc[u] \notin BusyPc
BY ActsAlone DEF BusyPc, ParkingPc, RestPc, WaitPc, WrapPc

\* A thread waits in the Qcb that it has looked up.
LEMMA ListedAre ==
  ASSUME MqInv, NEW q \in Qcb
  PROVE  \A u \in Thread : u \in Listed(q) <=> u \in parked /\ loc[u].q = q
<1>1. Listed(q) \subseteq parked
  BY DEF MqInv, MqQueues
<1>2. \A u \in Thread, r \in Qcb : u \in Listed(r) => loc[u].q = r
  BY DEF MqInv, CallsKnow, Knows
<1>3. \A u \in parked : \E r \in Qcb : u \in Listed(r)
  BY DEF MqInv, MqQueues
<1> QED BY <1>1, <1>2, <1>3

\* The parked threads after a step that keeps the invariant.
LEMMA ParkedAfter ==
  ASSUME MqInv'
  PROVE  parked' = UNION {Listed(q)' : q \in Qcb}
<1>1. \A u \in parked' : \E q \in Qcb : u \in Listed(q)'
  BY DEF MqInv, MqQueues
<1>2. \A q \in Qcb : Listed(q)' \subseteq parked'
  BY DEF MqInv, MqQueues
<1> QED BY <1>1, <1>2

\* A step that neither adds nor takes messages of Qcb q, and whose callers are
\* not about to.
LEMMA RecordKept ==
  ASSUME MessagesInv, NEW q \in Qcb, qcb'[q].msgs = qcb[q].msgs, qcb'[q].sent = qcb[q].sent,
         \A u \in Thread : pc[u] \in {"snd_push", "rcv_remove"} /\ loc[u].q = q
                             => pc'[u] = pc[u] /\ loc'[u] = loc[u]
  PROVE  QueuedWereSent(q)' /\ SentAreSomewhere(q)' /\ OldestFirst(q)'
<1>1. QueuedWereSent(q)' /\ OldestFirst(q)'
  BY DEF MessagesInv, QueuedWereSent, OldestFirst
<1>2. \A n : Queued(q, n)' <=> Queued(q, n)
  BY DEF Queued
<1>3. \A u \in Thread : \A n : Pushing(u, q, n) => Pushing(u, q, n)'
  BY DEF Pushing
<1>4. \A u \in Thread : \A k : Taking(u, q, k) => Taking(u, q, k)'
  BY DEF Taking
<1>5. SentAreSomewhere(q)
  BY DEF MessagesInv
<1>6. \A n \in DOMAIN qcb[q].sent : qcb[q].sent[n].by = {} =>
        Queued(q, n)' \/ \E u \in Thread : Pushing(u, q, n)'
  BY <1>2, <1>3, <1>5 DEF SentAreSomewhere
<1>7. \A n \in DOMAIN qcb[q].sent : qcb[q].sent[n].by # {} => \E u \in Thread : qcb[q].sent[n].by = {u}
  BY <1>5 DEF SentAreSomewhere
<1>8. \A i \in DOMAIN qcb[q].msgs : qcb[q].sent[qcb[q].msgs[i].id].by # {} =>
        /\ \E u \in qcb[q].sent[qcb[q].msgs[i].id].by : Taking(u, q, qcb[q].msgs[i].type)'
        /\ \A j \in DOMAIN qcb[q].msgs : qcb[q].msgs[j].type = qcb[q].msgs[i].type => i <= j
  <2> SUFFICES ASSUME NEW i \in DOMAIN qcb[q].msgs, qcb[q].sent[qcb[q].msgs[i].id].by # {}
               PROVE  \E u \in qcb[q].sent[qcb[q].msgs[i].id].by : Taking(u, q, qcb[q].msgs[i].type)'
    BY <1>5 DEF SentAreSomewhere
  <2>1. PICK u \in qcb[q].sent[qcb[q].msgs[i].id].by : Taking(u, q, qcb[q].msgs[i].type)
    BY <1>5 DEF SentAreSomewhere
  <2>2. qcb[q].msgs[i].id \in DOMAIN qcb[q].sent
    BY DEF MessagesInv, QueuedWereSent
  <2>3. u \in Thread
    BY <1>7, <2>2
  <2> QED BY <1>4, <2>1, <2>3
<1>9. SentAreSomewhere(q)'
  BY <1>6, <1>7, <1>8 DEF SentAreSomewhere
<1> QED BY <1>1, <1>9

\* Who is in none of those statements, and does nothing.
LEMMA IdleTold ==
  ASSUME MessagesInv, NEW u \in Thread, pc[u] \notin BusyPc,
         pc'[u] = pc[u], loc'[u] = loc[u], type'[u] = type[u], u \in parked' => u \in parked
  PROVE  Sender(u)' /\ Taker(u)' /\ Parker(u)' /\ TypeTold(u)'
<1>1. Sender(u)' /\ Taker(u)' /\ Parker(u)'
  BY DEF Sender, Taker, Parker, BusyPc
<1>2. TypeTold(u)'
  BY DEF MessagesInv, TypeTold
<1> QED BY <1>1, <1>2

\* The same of everybody but t.
LEMMA OthersTold ==
  ASSUME MqDisciplined, MqInv, MessagesInv, NEW t \in Thread, Executes(t), pc[t] \notin IdlePc, OnlyMoves(t)
  PROVE  \A u \in Thread \ {t} : Sender(u)' /\ Taker(u)' /\ Parker(u)' /\ TypeTold(u)'
BY OthersIdle, IdleTold DEF OnlyMoves

\* Who is due, or sleeps, apart from t.
LEMMA OthersDue ==
  ASSUME NEW t \in Thread, OnlyMoves(t), NEW q \in Qcb, NEW k \in Type,
         \A u \in Thread \ {t} : LookedUp(u) /\ loc[u].q = q => LookedUp(u)'
  PROVE  /\ Due(q, k) \ {t} \subseteq Due(q, k)'
         /\ \A u \in Thread \ {t} : Sleeps(u, q, k)' => Sleeps(u, q, k)
<1>1. \A u \in Thread \ {t} : u \in Due(q, k) => u \in Due(q, k)'
  BY DEF OnlyMoves, Due
<1>2. Due(q, k) \subseteq Thread
  BY DEF Due
<1>3. \A u \in Thread \ {t} : Sleeps(u, q, k)' => Sleeps(u, q, k)
  BY DEF OnlyMoves, Sleeps
<1> QED BY <1>1, <1>2, <1>3

\* Threads due are finitely many.
LEMMA DueFinite ==
  ASSUME NEW q, NEW k
  PROVE  IsFiniteSet(Due(q, k)) /\ Cardinality(Due(q, k)) \in Nat
<1>1. Due(q, k) \in SUBSET Thread
  BY DEF Due
<1>2. IsFiniteSet(Thread)
  BY SchedulerAssumption
<1>3. IsFiniteSet(Due(q, k))
  BY <1>1, <1>2, FS_Subset
<1> QED BY <1>3, FS_CardinalityType

\* So are messages.
LEMMA OfTypeFinite ==
  ASSUME MqInv, NEW q \in Qcb, NEW k
  PROVE  IsFiniteSet(OfType(q, k)) /\ Cardinality(OfType(q, k)) \in Nat
<1>1. OfType(q, k) \in SUBSET (1..Len(qcb[q].msgs)) /\ Len(qcb[q].msgs) \in Int
  BY QcbTyped DEF OfType
<1>2. IsFiniteSet(1..Len(qcb[q].msgs))
  BY <1>1, FS_Interval
<1>3. IsFiniteSet(OfType(q, k))
  BY <1>1, <1>2, FS_Subset
<1> QED BY <1>3, FS_CardinalityType

\* Where there is no message nobody is missed.
LEMMA ServedIfNone ==
  ASSUME NEW q, NEW k, OfType(q, k)' = {}
  PROVE  Served(q, k)'
<1>1. Cardinality(Due(q, k)') \in Nat
  <2>1. Due(q, k)' \in SUBSET Thread /\ IsFiniteSet(Thread)
    BY SchedulerAssumption DEF Due
  <2>2. IsFiniteSet(Due(q, k)')
    BY <2>1, FS_Subset
  <2> QED BY <2>2, FS_CardinalityType
<1>2. Cardinality(OfType(q, k)') = 0
  BY FS_EmptySet
<1> QED BY <1>1, <1>2 DEF Served

\* No message comes, nobody due goes, nobody goes to sleep.
LEMMA ServedKept ==
  ASSUME MqInv, NEW q \in Qcb, NEW k, Served(q, k), OfType(q, k)' = OfType(q, k),
         Due(q, k) \subseteq Due(q, k)', \A u \in Thread : Sleeps(u, q, k)' => Sleeps(u, q, k)
  PROVE  Served(q, k)'
<1>1. Due(q, k)' \in SUBSET Thread /\ IsFiniteSet(Thread)
  BY SchedulerAssumption DEF Due
<1>2. IsFiniteSet(Due(q, k)')
  BY <1>1, FS_Subset
<1>3. Cardinality(Due(q, k)') \in Nat /\ Cardinality(Due(q, k)) <= Cardinality(Due(q, k)')
  BY <1>2, FS_Subset, FS_CardinalityType
<1>4. Cardinality(Due(q, k)) \in Nat /\ Cardinality(OfType(q, k)) \in Nat
  BY DueFinite, OfTypeFinite
<1> QED BY <1>3, <1>4 DEF Served

\* Who does nothing in such a statement, while its Qcb rests.
LEMMA BusyTold ==
  ASSUME MqInv, MessagesInv, NEW u \in Thread, pc'[u] = pc[u], loc'[u] = loc[u], type'[u] = type[u],
         u \in parked' => u \in parked,
         \A q \in Qcb : qcb'[q].msgs = qcb[q].msgs /\ qcb'[q].sent = qcb[q].sent
  PROVE  Sender(u)' /\ Taker(u)' /\ Parker(u)' /\ TypeTold(u)'
<1>1. CASE pc[u] \notin BusyPc
  BY <1>1, IdleTold
<1>2. CASE pc[u] \in BusyPc
  <2>1. Sender(u) /\ Taker(u) /\ Parker(u) /\ TypeTold(u)
    BY DEF MessagesInv
  <2>2. pc[u] # "rcv_retry" => loc[u].q \in Qcb
    BY <1>2 DEF MqInv, CallsKnow, Knows, LookedUp, BusyPc, ParkingPc, SendPc, RcvPc
  <2>3. PICK q : q = loc[u].q
    OBVIOUS
  <2>4. pc[u] # "rcv_retry" => /\ qcb'[q].msgs = qcb[q].msgs /\ qcb'[q].sent = qcb[q].sent
                               /\ \A n : Queued(q, n)' <=> Queued(q, n)
                               /\ \A k : OfType(q, k)' = OfType(q, k)
    BY <2>2, <2>3 DEF Queued, OfType
  <2>5. loc'[u].q = q
    BY <2>3
  <2>6. Sender(u)'
    BY <2>1, <2>3, <2>4, <2>5 DEF Sender, Queued
  <2>7. Taker(u)'
    BY <2>1, <2>3, <2>4, <2>5 DEF Taker, OfType
  <2>8. Parker(u)'
    BY <2>1, <2>3, <2>4, <2>5 DEF Parker, OfType, ParkingPc
  <2>9. TypeTold(u)'
    BY <2>1 DEF TypeTold
  <2> QED BY <2>6, <2>7, <2>8, <2>9
<1> QED BY <1>1, <1>2

\* A step that concerns no message, no sender of one and no receiver.
LEMMA MessagesRest ==
  ASSUME MqInv, MessagesInv,
         \A q \in Qcb : qcb'[q].msgs = qcb[q].msgs /\ qcb'[q].sent = qcb[q].sent,
         \A u \in Thread : \/ pc'[u] = pc[u] /\ loc'[u] = loc[u]
                           \/ {pc[u], pc'[u]} \cap (BusyPc \cup {"rcv_wait"}) = {},
         \A u \in Thread : type'[u] = type[u], parked' \subseteq parked,
         \A u \in Thread : pc[u] \in {"rcv_wait", "rcv_retry"} /\ LookedUp(u) => LookedUp(u)'
  PROVE  MessagesInv'
<1>1. ASSUME NEW q \in Qcb
      PROVE  QueuedWereSent(q)' /\ SentAreSomewhere(q)' /\ OldestFirst(q)'
  <2>1. \A u \in Thread : pc[u] \in {"snd_push", "rcv_remove"} => pc'[u] = pc[u] /\ loc'[u] = loc[u]
    BY DEF BusyPc
  <2> QED BY <2>1, RecordKept
<1>2. ASSUME NEW u \in Thread
      PROVE  Sender(u)' /\ Taker(u)' /\ Parker(u)' /\ TypeTold(u)'
  <2>1. CASE pc'[u] = pc[u] /\ loc'[u] = loc[u]
    BY <2>1, BusyTold
  <2>2. CASE {pc[u], pc'[u]} \cap (BusyPc \cup {"rcv_wait"}) = {}
    <3>1. pc'[u] \notin {"snd_push", "rcv_remove", "rcv_enter", "rcv_wait"} \cup ParkingPc
      BY <2>2 DEF BusyPc, ParkingPc
    <3> QED BY <3>1 DEF Sender, Taker, Parker, TypeTold
  <2> QED BY <2>1, <2>2
<1>3. ASSUME NEW q \in Qcb, NEW k \in Type
      PROVE  Served(q, k)'
  <2>1. OfType(q, k)' = OfType(q, k)
    BY DEF OfType
  <2>2. ASSUME NEW u \in Thread
        PROVE  /\ u \in Due(q, k) => u \in Due(q, k)'
               /\ Sleeps(u, q, k)' => Sleeps(u, q, k)
    <3>1. CASE pc'[u] = pc[u] /\ loc'[u] = loc[u]
      BY <3>1 DEF Due, Sleeps
    <3>2. CASE {pc[u], pc'[u]} \cap (BusyPc \cup {"rcv_wait"}) = {}
      BY <3>2 DEF Due, Sleeps, BusyPc
    <3> QED BY <3>1, <3>2
  <2>3. Due(q, k) \subseteq Due(q, k)'
    BY <2>2 DEF Due
  <2> QED BY <2>1, <2>2, <2>3, ServedKept DEF MessagesInv
<1> QED BY <1>1, <1>2, <1>3 DEF MessagesInv

\* A statement of the caller, and its local variables.
LEMMA CallerAt ==
  ASSUME MqInv, NEW t \in Thread, NEW l, Goto(t, l)
  PROVE  pc'[t] = l /\ \A u \in Thread \ {t} : pc'[u] = pc[u]
BY DEF MqInv, MqTypeOK, Goto

\* What a call has looked up is stored for its own thread only.
LEMMA CallerHas ==
  ASSUME MqInv, NEW t \in Thread, NEW v, loc' = [loc EXCEPT ![t] = v]
  PROVE  loc'[t] = v /\ \A u \in Thread \ {t} : loc'[u] = loc[u]
BY DEF MqInv, MqTypeOK

-----------------------------------------------------------------------------
(* mymsgget, mymsgctl and the moves to the ready queue: no message is      *)
(* touched                                                                 *)

\* A Qcb stays the one a thread has looked up unless its slot is changed.
LEMMA GetMessages ==
  ASSUME MqDisciplined, MqInv, MessagesInv, NEW t \in Thread, NEW k \in Key, Get(t, k)
  PROVE  MessagesInv'
<1>1. /\ pc[t] = "user" /\ Goto(t, "get_store") /\ UNCHANGED << tbl, qcb, type, parked >>
      /\ \A u \in Thread \ {t} : loc'[u] = loc[u]
  BY DEF Get, AtCall, MqInv, MqTypeOK
<1>2. pc'[t] = "get_store" /\ \A u \in Thread \ {t} : pc'[u] = pc[u]
  BY <1>1, CallerAt
<1>3. {pc[t], pc'[t]} \cap (BusyPc \cup {"rcv_wait"}) = {}
  BY <1>1, <1>2 DEF BusyPc, ParkingPc
<1>4. \A u \in Thread : pc[u] \in {"rcv_wait", "rcv_retry"} /\ LookedUp(u) => LookedUp(u)'
  BY <1>1 DEF LookedUp
<1> QED BY <1>1, <1>2, <1>3, <1>4, MessagesRest

\* mymsgctl's tests (MsgQueue.c 155-176) change no message.
LEMMA ControlMessages ==
  ASSUME MqDisciplined, MqInv, MessagesInv, NEW t \in Thread, NEW s \in Slot, Control(t, s)
  PROVE  MessagesInv'
<1>1. /\ pc[t] = "user" /\ Goto(t, "ctl_pop") /\ UNCHANGED << tbl, qcb, type, parked >>
      /\ \A u \in Thread \ {t} : loc'[u] = loc[u]
  BY DEF Control, AtCall, MqInv, MqTypeOK
<1>2. pc'[t] = "ctl_pop" /\ \A u \in Thread \ {t} : pc'[u] = pc[u]
  BY <1>1, CallerAt
<1>3. {pc[t], pc'[t]} \cap (BusyPc \cup {"rcv_wait"}) = {}
  BY <1>1, <1>2 DEF BusyPc, ParkingPc
<1>4. \A u \in Thread : pc[u] \in {"rcv_wait", "rcv_retry"} /\ LookedUp(u) => LookedUp(u)'
  BY <1>1 DEF LookedUp
<1> QED BY <1>1, <1>2, <1>3, <1>4, MessagesRest

\* A thread in hand becomes ready.
LEMMA HandedMessages ==
  ASSUME MqDisciplined, MqInv, MessagesInv, NEW t \in Thread, SendReady(t) \/ ControlPush(t)
  PROVE  MessagesInv'
<1>1. /\ UNCHANGED << tbl, qcb, type, parked >>
      /\ \A u \in Thread \ {t} : loc'[u] = loc[u]
  BY DEF SendReady, ControlPush, Done, mqVars, SameButQueues, MqInv, MqTypeOK
<1>2. PICK l : Goto(t, l) /\ l \in {"user", "ctl_pop"} /\ pc[t] \in {"snd_ready", "ctl_push"}
  BY DEF SendReady, ControlPush, Done, At
<1>3. pc'[t] = l /\ \A u \in Thread \ {t} : pc'[u] = pc[u]
  BY <1>2, CallerAt
<1>4. {pc[t], pc'[t]} \cap (BusyPc \cup {"rcv_wait"}) = {}
  BY <1>2, <1>3 DEF BusyPc, ParkingPc
<1>5. \A u \in Thread : pc[u] \in {"rcv_wait", "rcv_retry"} /\ LookedUp(u) => LookedUp(u)'
  BY <1>1, <1>2 DEF LookedUp
<1> QED BY <1>1, <1>3, <1>4, <1>5, MessagesRest

\* A new Qcb is empty, and in a slot that nobody has looked up.
LEMMA GetStoreMessages ==
  ASSUME MqDisciplined, MqInv, MessagesInv, NEW t \in Thread, GetStore(t)
  PROVE  MessagesInv'
<1>1. PICK q \in Qcb :
        /\ qcb' = [qcb EXCEPT ![q].used = TRUE]
        /\ tbl' = [tbl EXCEPT ![loc[t].slot] = [key |-> loc[t].what, pQcb |-> q]]
  BY DEF GetStore
<1>2. pc[t] = "get_store" /\ Goto(t, "user") /\ loc' = [loc EXCEPT ![t] = NoLocals] /\ type' = type
  BY DEF GetStore, At, Done
<1>3. pc'[t] = "user" /\ \A u \in Thread \ {t} : pc'[u] = pc[u] /\ loc'[u] = loc[u]
  BY <1>2, CallerAt, CallerHas
<1>4. {pc[t], pc'[t]} \cap (BusyPc \cup {"rcv_wait"}) = {}
  BY <1>2, <1>3 DEF BusyPc, ParkingPc
<1>5. \A r \in Qcb : /\ qcb'[r].msgs = qcb[r].msgs /\ qcb'[r].sent = qcb[r].sent
                     /\ qcb'[r].waiters = qcb[r].waiters
  <2>1. \A r \in Qcb : qcb[r] \in QcbType
    BY QcbTyped
  <2> QED BY <1>1, <2>1 DEF QcbType, MqInv, MqTypeOK
<1>6. parked' = parked
  <2>1. MqInv'
    BY GetStoreKeeps
  <2>2. UNCHANGED << readyQ, waitQ, link >>
    BY DEF GetStore, SameButQueues
  <2>3. \A r \in Qcb : Listed(r)' = Listed(r)
    BY <1>5, <2>2, QueuesRest DEF MqInv
  <2>4. parked' = UNION {Listed(r)' : r \in Qcb}
    BY <2>1, ParkedAfter
  <2> QED BY <2>3, <2>4, ParkedAre DEF MqInv
<1>7. ASSUME NEW u \in Thread, pc[u] \in {"rcv_wait", "rcv_retry"}, LookedUp(u) PROVE LookedUp(u)'
  <2>1. loc[t].slot \in Slot /\ tbl[loc[t].slot].pQcb = Null
    BY <1>2 DEF MqInv, CallsKnow, Knows, Table
  <2>2. loc'[u] = loc[u]
    BY <1>2, <1>3, <1>7
  <2>3. loc[u].slot # loc[t].slot
    BY <1>7, <2>1, MsgQueueAssumption DEF LookedUp
  <2>4. tbl'[loc[u].slot] = tbl[loc[u].slot]
    BY <1>1, <1>7, <2>3 DEF LookedUp, MqInv, MqTypeOK
  <2> QED BY <1>7, <2>2, <2>4 DEF LookedUp
<1> QED BY <1>2, <1>3, <1>4, <1>5, <1>6, <1>7, MessagesRest

\* mymsgctl takes a waiting thread in hand: it is due from now on, or was to.
LEMMA ControlPopMessages ==
  ASSUME MqDisciplined, MqInv, MessagesInv, NEW t \in Thread, ControlPop(t)
  PROVE  MessagesInv'
<1>1. /\ Executes(t) /\ pc[t] = "ctl_pop" /\ UNCHANGED << tbl, type >>
      /\ \A u \in Thread \ {t} : loc'[u] = loc[u]
  BY DEF ControlPop, At, SameButQueues, MqInv, MqTypeOK
<1>2. PICK l : Goto(t, l) /\ l \in {"ctl_free", "ctl_push"}
  BY DEF ControlPop
<1>3. pc'[t] = l /\ \A u \in Thread \ {t} : pc'[u] = pc[u]
  BY <1>2, CallerAt
<1>4. {pc[t], pc'[t]} \cap (BusyPc \cup {"rcv_wait"}) = {}
  BY <1>1, <1>2, <1>3 DEF BusyPc, ParkingPc
<1>5. \A r \in Qcb : qcb'[r].msgs = qcb[r].msgs /\ qcb'[r].sent = qcb[r].sent
  <2>1. UNCHANGED qcb \/ tq_pop(loc[t].q)
    BY DEF ControlPop
  <2>2. \A r \in Qcb : qcb[r] \in QcbType
    BY QcbTyped
  <2>3. CASE tq_pop(loc[t].q)
    <3>1. PICK w : qcb' = [qcb EXCEPT ![loc[t].q].waiters = w]
      BY <2>3 DEF tq_pop
    <3> QED BY <2>2, <3>1 DEF QcbType, MqInv, MqTypeOK
  <2> QED BY <2>1, <2>3
<1>6. \A u \in Thread : pc[u] \in {"rcv_wait", "rcv_retry"} /\ LookedUp(u) => LookedUp(u)'
  BY <1>1 DEF LookedUp
<1>7. parked' \subseteq parked
  <2>1. MqInv' /\ UNCHANGED << readyQ, waitQ >> /\ loc[t].q \in Qcb
    BY <1>1, ControlPopKeeps DEF ControlPop, SameButQueues, MqInv, CallsKnow, Knows, LookedUp, CtlPc
  <2>2. parked' = UNION {Listed(r)' : r \in Qcb}
    BY <2>1, ParkedAfter
  <2>3. PICK q \in Qcb : q = loc[t].q
    BY <2>1
  <2>4. CASE qcb[q].waiters.head = Null
    <3>1. qcb' = qcb /\ link' = link
      BY <2>3, <2>4 DEF ControlPop
    <3>2. \A r \in Qcb : Listed(r)' = Listed(r)
      BY <2>1, <3>1, QueuesRest DEF MqInv
    <3> QED BY <2>2, <3>2, ParkedAre DEF MqInv
  <2>5. CASE qcb[q].waiters.head # Null
    <3>1. tq_pop(q)
      BY <2>3, <2>5 DEF ControlPop
    <3>2. parked' = parked \ {qcb[q].waiters.head}
      BY <2>1, <2>2, <2>5, <3>1, ListPopped DEF MqInv
    <3> QED BY <3>2
  <2> QED BY <2>4, <2>5
<1> QED BY <1>1, <1>3, <1>4, <1>5, <1>6, <1>7, MessagesRest

-----------------------------------------------------------------------------
(* The thread library and the scheduler *)

\* Where their steps find and leave a program.
OutsidePc == LibraryPc \cup {"none"}

\* Statements outside the message calls are none of a message call.
LEMMA OutsideIsQuiet == OutsidePc \cap (BusyPc \cup {"rcv_wait"}) = {}
BY DEF OutsidePc, LibraryPc, CreatePc, WrapPc, BusyPc, ParkingPc

\* No step of theirs is of a message call.
LEMMA LibraryRest ==
  ASSUME MqInv, MessagesInv, UNCHANGED mqVars, parked' = parked,
         \A u \in Thread : pc'[u] = pc[u] \/ (pc[u] \in OutsidePc /\ pc'[u] \in OutsidePc)
  PROVE  MessagesInv'
<1>1. UNCHANGED << tbl, qcb, type, loc >>
  BY DEF mqVars
<1>2. \A u \in Thread : pc'[u] = pc[u] \/ {pc[u], pc'[u]} \cap (BusyPc \cup {"rcv_wait"}) = {}
  BY OutsideIsQuiet
<1>3. \A u \in Thread : LookedUp(u) => LookedUp(u)'
  BY <1>1 DEF LookedUp
<1> QED BY <1>1, <1>2, <1>3, MessagesRest

\* A step of the thread library.
LEMMA LibrarySteps ==
  ASSUME MqDisciplined, MqInv, NEW t \in Thread, Call(t) \/ Continue(t)
  PROVE  /\ parked' = parked
         /\ \A u \in Thread : pc'[u] = pc[u] \/ (pc[u] \in OutsidePc /\ pc'[u] \in OutsidePc)
<1> USE DEF OutsidePc, LibraryPc, CreatePc, WrapPc
<1>1. ASSUME NEW c \in Thread, Create(t, c)
      PROVE  /\ parked' = parked
             /\ \A u \in Thread : pc'[u] = pc[u] \/ (pc[u] \in OutsidePc /\ pc'[u] \in OutsidePc)
  BY <1>1 DEF Create, AtCall, rest, MqInv, MqTypeOK
<1>2. ASSUME Return(t)
      PROVE  /\ parked' = parked
             /\ \A u \in Thread : pc'[u] = pc[u] \/ (pc[u] \in OutsidePc /\ pc'[u] \in OutsidePc)
  BY <1>2 DEF Return, AtCall, Goto, rest, MqInv, MqTypeOK
<1>3. ASSUME CreateCheck(t)
      PROVE  /\ parked' = parked
             /\ \A u \in Thread : pc'[u] = pc[u] \/ (pc[u] \in OutsidePc /\ pc'[u] \in OutsidePc)
  BY <1>3 DEF CreateCheck, At, Goto, Leave, Crash, rest, ctlVars, MqInv, MqTypeOK
<1>4. ASSUME WrapTcb(t) \/ WrapJcb(t) \/ WrapFlag(t)
      PROVE  /\ parked' = parked
             /\ \A u \in Thread : pc'[u] = pc[u] \/ (pc[u] \in OutsidePc /\ pc'[u] \in OutsidePc)
  BY <1>4 DEF WrapTcb, WrapJcb, WrapFlag, At, Goto, rest, MqInv, MqTypeOK
<1>5. ASSUME WrapSignal(t)
      PROVE  /\ parked' = parked
             /\ \A u \in Thread : pc'[u] = pc[u] \/ (pc[u] \in OutsidePc /\ pc'[u] \in OutsidePc)
  BY <1>5 DEF WrapSignal, At, Goto, rest, MqInv, MqTypeOK
<1>6. ASSUME WrapEnter(t) \/ WrapRun(t)
      PROVE  /\ parked' = parked
             /\ \A u \in Thread : pc'[u] = pc[u] \/ (pc[u] \in OutsidePc /\ pc'[u] \in OutsidePc)
  BY <1>6 DEF WrapEnter, WrapRun, WaitEnter, WaitReturn, At, Goto, Crash, rest, ctlVars, MqInv, MqTypeOK
<1> QED BY <1>1, <1>2, <1>3, <1>4, <1>5, <1>6, MqNoOtherCalls DEF Call, Continue

\* The steps of the scheduler and of the thread calls keep what is known of
\* messages.
LEMMA NextMessages ==
  ASSUME MqDisciplined, MqInv, MessagesInv, Next, UNCHANGED mqVars
  PROVE  MessagesInv'
<1>1. CASE RunScheduler
  <2>1. parked' = parked /\ pc' = pc
    BY <1>1 DEF RunScheduler, SchedRead, SchedPreempt, SchedDispatch, SchedSet, Crash, ctlVars, rest
  <2> QED BY <2>1, LibraryRest
<1>2. ASSUME NEW t \in Thread, Handler(t) PROVE MessagesInv'
  <2>1. parked' = parked /\ pc' = pc
    BY <1>2 DEF Handler, TakeSignal, HandlerReturn, Crash, ctlVars, rest
  <2> QED BY <2>1, LibraryRest
<1>3. ASSUME NEW t \in Thread, Call(t) \/ Continue(t) PROVE MessagesInv'
  BY <1>3, LibrarySteps, LibraryRest
<1> QED BY <1>1, <1>2, <1>3 DEF Next

\* So does no step.
LEMMA StutterMessages ==
  ASSUME MqInv, MessagesInv, UNCHANGED allVars
  PROVE  MessagesInv'
<1>1. UNCHANGED mqVars /\ parked' = parked /\ pc' = pc
  BY DEF allVars, vars, ctlVars, rest
<1> QED BY <1>1, LibraryRest

-----------------------------------------------------------------------------
(* mymsgctl's end and the way into a waiting list *)

\* A thread that goes to the program's next statement tells nothing.
LEMMA BackTold ==
  ASSUME NEW t \in Thread, pc'[t] = "user"
  PROVE  Sender(t)' /\ Taker(t)' /\ Parker(t)' /\ TypeTold(t)'
BY DEF Sender, Taker, Parker, TypeTold, ParkingPc

\* The Qcb that is freed has no message, and nobody waits in it.
LEMMA ControlFreeMessages ==
  ASSUME MqDisciplined, MqInv, MessagesInv, NEW t \in Thread, ControlFree(t)
  PROVE  MessagesInv'
<1>1. /\ Executes(t) /\ pc[t] = "ctl_free" /\ pc[t] \notin IdlePc
      /\ Goto(t, "user") /\ loc' = [loc EXCEPT ![t] = NoLocals] /\ type' = type
  BY DEF ControlFree, At, Done, IdlePc, WrapPc, WaitPc
<1>2. PICK q \in Qcb : /\ q = loc[t].q /\ loc[t].slot \in Slot /\ tbl[loc[t].slot].pQcb = q
                       /\ Listed(q) = {}
  BY <1>1 DEF MqInv, CallsKnow, Knows, LookedUp, CtlPc
<1>3. /\ qcb' = [qcb EXCEPT ![q] = FreeQcb]
      /\ tbl' = [tbl EXCEPT ![loc[t].slot] = [key |-> NoKey, pQcb |-> Null]]
  BY <1>2 DEF ControlFree
<1>4. qcb'[q] = FreeQcb /\ \A r \in Qcb \ {q} : qcb'[r] = qcb[r]
  BY <1>3 DEF MqInv, MqTypeOK
<1>5. pc'[t] = "user" /\ \A u \in Thread \ {t} : pc'[u] = pc[u] /\ loc'[u] = loc[u]
  BY <1>1, CallerAt, CallerHas
<1>6. OnlyMoves(t)
  <2>1. parked' = UNION {Listed(r)' : r \in Qcb}
    BY ControlFreeKeeps, ParkedAfter
  <2>2. UNCHANGED << readyQ, waitQ, link >>
    BY DEF ControlFree, SameButQueues
  <2>3. \A r \in Qcb : \/ qcb'[r].waiters = qcb[r].waiters
                       \/ Listed(r) = {} /\ qcb'[r].waiters = EmptyQueue
    BY <1>2, <1>4 DEF FreeQcb
  <2>4. parked' = parked
    BY <2>1, <2>2, <2>3, ListsRest DEF MqInv
  <2> QED BY <1>1, <1>5, <2>4 DEF OnlyMoves
<1>7. \A u \in Thread : pc[u] \notin BusyPc
  BY <1>1, OthersIdle DEF BusyPc, ParkingPc
<1>8. ASSUME NEW r \in Qcb
      PROVE  QueuedWereSent(r)' /\ SentAreSomewhere(r)' /\ OldestFirst(r)'
  <2>1. CASE r = q
    <3>1. qcb'[r].msgs = << >> /\ qcb'[r].sent = << >>
      BY <1>4, <2>1 DEF FreeQcb
    <3> QED BY <3>1 DEF QueuedWereSent, SentAreSomewhere, OldestFirst
  <2>2. CASE r # q
    BY <1>4, <1>7, <2>2, RecordKept DEF BusyPc
  <2> QED BY <2>1, <2>2
<1>9. ASSUME NEW r \in Qcb, NEW k \in Type
      PROVE  Served(r, k)'
  <2>1. CASE r = q
    <3>1. OfType(r, k)' = {}
      BY <1>4, <2>1 DEF OfType, FreeQcb
    <3> QED BY <3>1, ServedIfNone
  <2>2. CASE r # q
    <3>1. OfType(r, k)' = OfType(r, k)
      BY <1>4, <2>2 DEF OfType
    <3>2. ASSUME NEW u \in Thread \ {t}, LookedUp(u), loc[u].q = r PROVE LookedUp(u)'
      <4>1. loc[u].slot \in Slot /\ tbl[loc[u].slot].pQcb = r /\ loc[u].slot # loc[t].slot
        BY <1>2, <2>2, <3>2 DEF LookedUp
      <4>2. tbl'[loc[u].slot] = tbl[loc[u].slot]
        BY <1>3, <4>1 DEF MqInv, MqTypeOK
      <4> QED BY <1>5, <3>2, <4>1, <4>2 DEF LookedUp
    <3>3. t \notin Due(r, k) /\ ~ Sleeps(t, r, k)'
      BY <1>1, <1>5 DEF Due, Sleeps
    <3>4. Due(r, k) \subseteq Due(r, k)' /\ \A u \in Thread : Sleeps(u, r, k)' => Sleeps(u, r, k)
      BY <1>6, <3>2, <3>3, OthersDue
    <3> QED BY <3>1, <3>4, ServedKept DEF MessagesInv
  <2> QED BY <2>1, <2>2
<1> QED BY <1>1, <1>5, <1>6, <1>8, <1>9, OthersTold, BackTold DEF MessagesInv

\* A receiver on its way to sleep: it has found no message of its type, and
\* none comes meanwhile.
LEMMA ParkingStep ==
  ASSUME MqDisciplined, MqInv, MessagesInv, NEW t \in Thread, Executes(t), pc[t] \in ParkingPc,
         NEW l \in ParkingPc \cup {"rcv_wait"}, Goto(t, l), UNCHANGED << tbl, loc >>,
         \A q \in Qcb : qcb'[q].msgs = qcb[q].msgs /\ qcb'[q].sent = qcb[q].sent,
         OnlyMoves(t), l \in {"rcv_enter", "rcv_wait"} => type'[t] = loc[t].what,
         l = "rcv_wait" => t \in parked'
  PROVE  MessagesInv'
<1>1. pc'[t] = l /\ pc[t] \notin IdlePc /\ pc[t] \notin {"snd_push", "rcv_remove", "snd_wake", "rcv_retry", "rcv_wait"}
  BY CallerAt DEF ParkingPc, IdlePc, WrapPc, WaitPc
<1>2. PICK p \in Qcb : p = loc[t].q
  BY DEF MqInv, CallsKnow, Knows, LookedUp, ParkingPc, RcvPc
<1>3. OfType(p, loc[t].what) = {} /\ \A k : OfType(p, k)' = OfType(p, k)
  BY <1>2 DEF MessagesInv, Parker, OfType
<1>4. \A u \in Thread : pc[u] \notin {"snd_push", "rcv_remove"}
  BY <1>1, OthersIdle DEF BusyPc
<1>5. \A r \in Qcb : QueuedWereSent(r)' /\ SentAreSomewhere(r)' /\ OldestFirst(r)'
  BY <1>4, RecordKept
<1>6. Sender(t)' /\ Taker(t)' /\ Parker(t)' /\ TypeTold(t)'
  <2>1. loc'[t].q = p /\ loc'[t].what = loc[t].what
    BY <1>2
  <2>2. OfType(p, loc[t].what)' = {}
    BY <1>3 DEF OfType
  <2>3. Parker(t)'
    BY <1>1, <1>2, <2>1, <2>2 DEF Parker, OfType
  <2>4. Sender(t)' /\ Taker(t)' /\ TypeTold(t)'
    BY <1>1, <2>1 DEF Sender, Taker, TypeTold, ParkingPc
  <2> QED BY <2>3, <2>4
<1>7. ASSUME NEW r \in Qcb, NEW k \in Type
      PROVE  Served(r, k)'
  <2>1. OfType(r, k)' = OfType(r, k)
    BY DEF OfType
  <2>2. CASE Sleeps(t, r, k)'
    <3>1. r = p /\ k = loc[t].what
      BY <1>2, <2>2 DEF Sleeps
    <3> QED BY <1>3, <2>1, <3>1, ServedIfNone
  <2>3. CASE ~ Sleeps(t, r, k)'
    <3>1. t \notin Due(r, k)
      BY <1>1 DEF Due
    <3>2. \A u \in Thread \ {t} : LookedUp(u) => LookedUp(u)'
      BY DEF LookedUp
    <3>3. Due(r, k) \subseteq Due(r, k)' /\ \A u \in Thread : Sleeps(u, r, k)' => Sleeps(u, r, k)
      BY <2>3, <3>1, <3>2, OthersDue
    <3> QED BY <2>1, <3>3, ServedKept DEF MessagesInv
  <2> QED BY <2>2, <2>3
<1> QED BY <1>1, <1>5, <1>6, <1>7, OthersTold DEF MessagesInv

\* mymsgrcv gives up RunQHead: no message is touched, and the receiver still
\* knows that there is none of its type.
LEMMA ReceiveLeaveMessages ==
  ASSUME MqDisciplined, MqInv, MessagesInv, NEW t \in Thread, ReceiveLeave(t)
  PROVE  MessagesInv'
<1>1. Executes(t) /\ pc[t] = "rcv_leave"
  BY DEF ReceiveLeave, At
<1>2. CASE getThread(t) = Null
  <2>1. pc' = pc /\ parked' = parked /\ UNCHANGED mqVars
    BY <1>2 DEF ReceiveLeave, Crash, ctlVars
  <2> QED BY <2>1, LibraryRest
<1>3. CASE getThread(t) # Null
  <2>1. Goto(t, "rcv_park") /\ UNCHANGED << tbl, loc, qcb, type, parked >>
    BY <1>3 DEF ReceiveLeave, mqVars
  <2>2. OnlyMoves(t)
    BY <2>1, CallerAt DEF OnlyMoves
  <2>3. pc[t] \in ParkingPc /\ "rcv_park" \in ParkingPc
    BY <1>1 DEF ParkingPc
  <2> QED BY <1>1, <2>1, <2>2, <2>3, ParkingStep
<1> QED BY <1>2, <1>3

\* mymsgrcv's tq_push: the receiver is in the waiting list, found no message of
\* its type and nobody has sent one since.
LEMMA ReceiveParkMessages ==
  ASSUME MqDisciplined, MqInv, MessagesInv, NEW t \in Thread, ReceivePark(t)
  PROVE  MessagesInv'
<1>1. /\ Executes(t) /\ pc[t] = "rcv_park" /\ Goto(t, "rcv_type") /\ UNCHANGED << tbl, loc, type >>
      /\ UNCHANGED << readyQ, waitQ >> /\ tq_push(loc[t].q, t)
  BY DEF ReceivePark, At, SameButQueues
<1>2. PICK q \in Qcb : q = loc[t].q
  BY <1>1 DEF MqInv, CallsKnow, Knows, LookedUp, RcvPc
<1>3. \A r \in Qcb : qcb'[r].msgs = qcb[r].msgs /\ qcb'[r].sent = qcb[r].sent
  <2>1. \A r \in Qcb : qcb[r] \in QcbType
    BY QcbTyped
  <2>2. PICK w : qcb' = [qcb EXCEPT ![q].waiters = w]
    BY <1>1, <1>2 DEF tq_push
  <2> QED BY <2>1, <2>2 DEF QcbType, MqInv, MqTypeOK
<1>4. parked' = parked \cup {t}
  <2>1. parked' = UNION {Listed(r)' : r \in Qcb}
    BY ReceiveParkKeeps, ParkedAfter
  <2>2. t \in Thread \ (Ready \cup parked)
    <3>1. Hands(t, t)
      BY <1>1 DEF Hands
    <3> QED BY <3>1 DEF MqInv, MqPlaces
  <2> QED BY <1>1, <1>2, <2>1, <2>2, ListPushed DEF MqInv
<1>5. OnlyMoves(t)
  BY <1>1, <1>4, CallerAt DEF OnlyMoves
<1>6. pc[t] \in ParkingPc /\ "rcv_type" \in ParkingPc
  BY <1>1 DEF ParkingPc
<1> QED BY <1>1, <1>3, <1>5, <1>6, ParkingStep

\* mymsgrcv stores the type that mymsgsnd will compare.
LEMMA ReceiveTypeMessages ==
  ASSUME MqDisciplined, MqInv, MessagesInv, NEW t \in Thread, ReceiveType(t)
  PROVE  MessagesInv'
<1>1. /\ Executes(t) /\ pc[t] = "rcv_type" /\ Goto(t, "rcv_enter")
      /\ UNCHANGED << tbl, loc, qcb, parked >> /\ type' = [type EXCEPT ![t] = loc[t].what]
  BY DEF ReceiveType, At
<1>2. type'[t] = loc[t].what /\ \A u \in Thread \ {t} : type'[u] = type[u]
  BY <1>1 DEF MqInv, MqTypeOK
<1>3. OnlyMoves(t)
  BY <1>1, <1>2, CallerAt DEF OnlyMoves
<1>4. pc[t] \in ParkingPc /\ "rcv_enter" \in ParkingPc
  BY <1>1 DEF ParkingPc
<1> QED BY <1>1, <1>2, <1>3, <1>4, ParkingStep

\* mymsgrcv begins to wait: who sleeps for a type found no message of it, so that
\* Served holds of it.
LEMMA ReceiveEnterMessages ==
  ASSUME MqDisciplined, MqInv, MessagesInv, NEW t \in Thread, ReceiveEnter(t)
  PROVE  MessagesInv'
<1>1. Executes(t) /\ pc[t] = "rcv_enter" /\ t \in parked
  BY DEF ReceiveEnter, WaitEnter, At, MqInv, MqPlaces
<1>2. CASE getThread(t) = Null
  <2>1. pc' = pc /\ parked' = parked /\ UNCHANGED mqVars
    BY <1>2 DEF ReceiveEnter, WaitEnter, Crash, ctlVars
  <2> QED BY <2>1, LibraryRest
<1>3. CASE getThread(t) # Null
  <2>1. Goto(t, "rcv_wait") /\ UNCHANGED << tbl, loc, qcb, type, parked >>
    BY <1>3 DEF ReceiveEnter, WaitEnter, mqVars, rest
  <2>2. OnlyMoves(t)
    BY <2>1, CallerAt DEF OnlyMoves
  <2>3. type[t] = loc[t].what
    BY <1>1 DEF MessagesInv, TypeTold
  <2>4. pc[t] \in ParkingPc
    BY <1>1 DEF ParkingPc
  <2> QED BY <1>1, <2>1, <2>2, <2>3, <2>4, ParkingStep
<1> QED BY <1>2, <1>3

\* Awake: it stays due, to look for the message it was woken for.
LEMMA ReceiveReturnMessages ==
  ASSUME MqDisciplined, MqInv, MessagesInv, NEW t \in Thread, ReceiveReturn(t)
  PROVE  MessagesInv'
<1>1. /\ pc[t] = "rcv_wait" /\ Goto(t, "rcv_retry") /\ UNCHANGED << tbl, loc, qcb, type, parked >>
  BY DEF ReceiveReturn, WaitReturn, At, mqVars, rest
<1>2. pc'[t] = "rcv_retry" /\ \A u \in Thread \ {t} : pc'[u] = pc[u]
  BY <1>1, CallerAt
<1>3. OnlyMoves(t)
  BY <1>1, <1>2 DEF OnlyMoves
<1>4. \A r \in Qcb : QueuedWereSent(r)' /\ SentAreSomewhere(r)' /\ OldestFirst(r)'
  BY <1>1, <1>2, RecordKept
<1>5. \A u \in Thread \ {t} : Sender(u)' /\ Taker(u)' /\ Parker(u)' /\ TypeTold(u)'
  BY <1>1, <1>2, BusyTold
<1>6. Sender(t)' /\ Taker(t)' /\ Parker(t)' /\ TypeTold(t)'
  BY <1>2 DEF Sender, Taker, Parker, TypeTold, ParkingPc
<1>7. ASSUME NEW r \in Qcb, NEW k \in Type
      PROVE  Served(r, k)'
  <2>1. OfType(r, k)' = OfType(r, k)
    BY <1>1 DEF OfType
  <2>2. \A u \in Thread : LookedUp(u) => LookedUp(u)'
    BY <1>1 DEF LookedUp
  <2>3. t \in Due(r, k) => t \in Due(r, k)'
    BY <1>1, <1>2, <2>2 DEF Due
  <2>4. ~ Sleeps(t, r, k)'
    BY <1>2 DEF Sleeps
  <2>5. Due(r, k) \subseteq Due(r, k)' /\ \A u \in Thread : Sleeps(u, r, k)' => Sleeps(u, r, k)
    BY <1>3, <2>2, <2>3, <2>4, OthersDue
  <2> QED BY <2>1, <2>5, ServedKept DEF MessagesInv
<1> QED BY <1>4, <1>5, <1>6, <1>7 DEF MessagesInv

-----------------------------------------------------------------------------
(* mymsgsnd *)

\* A Qcb that nobody is about to take a message out of holds messages that
\* nobody has received.
LEMMA NobodyTakes ==
  ASSUME MessagesInv, NEW q \in Qcb, \A u \in Thread : pc[u] = "rcv_remove" => loc[u].q # q
  PROVE  \A i \in DOMAIN qcb[q].msgs : qcb[q].sent[qcb[q].msgs[i].id].by = {}
<1>1. SentAreSomewhere(q) /\ QueuedWereSent(q)
  BY DEF MessagesInv
<1>2. ASSUME NEW i \in DOMAIN qcb[q].msgs, qcb[q].sent[qcb[q].msgs[i].id].by # {} PROVE FALSE
  <2>1. PICK u \in qcb[q].sent[qcb[q].msgs[i].id].by : Taking(u, q, qcb[q].msgs[i].type)
    BY <1>1, <1>2 DEF SentAreSomewhere
  <2>2. \E v \in Thread : qcb[q].sent[qcb[q].msgs[i].id].by = {v}
    BY <1>1, <1>2 DEF SentAreSomewhere, QueuedWereSent
  <2>3. u \in Thread
    BY <2>1, <2>2
  <2> QED BY <2>1, <2>3 DEF Taking
<1> QED BY <1>2

\* The message is numbered and noted.
LEMMA SendMessages ==
  ASSUME MqDisciplined, MqInv, MessagesInv, NEW t \in Thread, NEW s \in Slot, NEW k \in Type, Send(t, s, k)
  PROVE  MessagesInv'
<1>1. /\ Executes(t) /\ pc[t] = "user" /\ pc[t] \notin IdlePc /\ Goto(t, "snd_push")
      /\ tbl[s].pQcb # Null /\ UNCHANGED << parked, tbl, type >>
  BY DEF Send, AtCall, IdlePc, WrapPc, WaitPc
<1>2. PICK q \in Qcb : q = tbl[s].pQcb
  BY <1>1, SlotUsed
<1>3. PICK n : n = Len(qcb[q].sent) + 1
  OBVIOUS
<1>4. /\ qcb' = [qcb EXCEPT ![q].sent = Append(@, [type |-> k, by |-> {}])]
      /\ loc' = [loc EXCEPT ![t] = [slot |-> s, q |-> q, what |-> [type |-> k, id |-> n]]]
  BY <1>2, <1>3 DEF Send
<1>5. /\ qcb'[q].msgs = qcb[q].msgs /\ qcb'[q].sent = Append(qcb[q].sent, [type |-> k, by |-> {}])
      /\ \A r \in Qcb \ {q} : qcb'[r] = qcb[r]
  <2>1. \A r \in Qcb : qcb[r] \in QcbType
    BY QcbTyped
  <2> QED BY <1>4, <2>1 DEF QcbType, MqInv, MqTypeOK
<1>6. /\ pc'[t] = "snd_push" /\ \A u \in Thread \ {t} : pc'[u] = pc[u] /\ loc'[u] = loc[u]
      /\ loc'[t].q = q /\ loc'[t].what = [type |-> k, id |-> n]
  <2>1. pc'[t] = "snd_push" /\ \A u \in Thread \ {t} : pc'[u] = pc[u]
    BY <1>1, CallerAt
  <2>2. /\ loc'[t] = [slot |-> s, q |-> q, what |-> [type |-> k, id |-> n]]
        /\ \A u \in Thread \ {t} : loc'[u] = loc[u]
    BY <1>4, CallerHas
  <2> QED BY <2>1, <2>2
<1>7. OnlyMoves(t)
  BY <1>1, <1>6 DEF OnlyMoves
<1>8. \A u \in Thread : pc[u] \notin BusyPc
  BY <1>1, OthersIdle DEF BusyPc, ParkingPc
<1>9. /\ n \in Nat /\ DOMAIN qcb[q].sent = 1..(n - 1) /\ DOMAIN qcb'[q].sent = 1..n
      /\ \A j \in 1..(n - 1) : qcb'[q].sent[j] = qcb[q].sent[j]
      /\ qcb'[q].sent[n].by = {} /\ qcb'[q].sent[n].type = k /\ Len(qcb'[q].sent) = n
  <2>1. qcb[q].sent \in Seq(Sending)
    BY QcbTyped
  <2> QED BY <1>3, <1>5, <2>1
<1>10. /\ \A j \in 1..(n - 1) : qcb[q].sent[j].by = {} => Queued(q, j)
       /\ \A i \in DOMAIN qcb[q].msgs : qcb[q].sent[qcb[q].msgs[i].id].by = {}
  <2>1. \A u \in Thread : pc[u] # "rcv_remove" /\ pc[u] # "snd_push"
    BY <1>8 DEF BusyPc
  <2>2. SentAreSomewhere(q)
    BY DEF MessagesInv
  <2>3. \A j \in 1..(n - 1) : qcb[q].sent[j].by = {} => Queued(q, j)
    BY <1>9, <2>1, <2>2 DEF SentAreSomewhere, Pushing
  <2>4. \A i \in DOMAIN qcb[q].msgs : qcb[q].sent[qcb[q].msgs[i].id].by = {}
    BY <2>1, NobodyTakes
  <2> QED BY <2>3, <2>4
<1>11. QueuedWereSent(q) /\ SentAreSomewhere(q) /\ OldestFirst(q)
  BY DEF MessagesInv
<1>12. QueuedWereSent(q)'
  BY <1>5, <1>9, <1>11 DEF QueuedWereSent
<1>13. SentAreSomewhere(q)'
  <2>1. Pushing(t, q, n)'
    BY <1>6 DEF Pushing
  <2>2. \A j : Queued(q, j) => Queued(q, j)'
    BY <1>5 DEF Queued
  <2>3. \A j \in DOMAIN qcb'[q].sent : qcb'[q].sent[j].by = {} =>
          Queued(q, j)' \/ \E u \in Thread : Pushing(u, q, j)'
    BY <1>9, <1>10, <2>1, <2>2
  <2>4. \A j \in DOMAIN qcb'[q].sent : qcb'[q].sent[j].by # {} => \E u \in Thread : qcb'[q].sent[j].by = {u}
    BY <1>9, <1>11 DEF SentAreSomewhere
  <2>5. \A i \in DOMAIN qcb'[q].msgs : qcb'[q].sent[qcb'[q].msgs[i].id].by = {}
    BY <1>5, <1>9, <1>10, <1>11 DEF QueuedWereSent
  <2> QED BY <2>3, <2>4, <2>5 DEF SentAreSomewhere
<1>14. OldestFirst(q)'
  <2>1. ASSUME NEW i \in 1..n, NEW j \in 1..n, i < j,
               qcb'[q].sent[i].type = qcb'[q].sent[j].type, qcb'[q].sent[j].by # {}
        PROVE  qcb'[q].sent[i].by # {}
    <3>1. i \in 1..(n - 1) /\ j \in 1..(n - 1)
      BY <1>9, <2>1
    <3> QED BY <1>9, <1>11, <2>1, <3>1 DEF OldestFirst
  <2> QED BY <1>9, <2>1 DEF OldestFirst
<1>15. \A r \in Qcb : QueuedWereSent(r)' /\ SentAreSomewhere(r)' /\ OldestFirst(r)'
  <2>1. ASSUME NEW r \in Qcb \ {q}
        PROVE  QueuedWereSent(r)' /\ SentAreSomewhere(r)' /\ OldestFirst(r)'
    BY <1>5, <1>8, RecordKept DEF BusyPc
  <2> QED BY <1>12, <1>13, <1>14, <2>1
<1>16. Sender(t)' /\ Taker(t)' /\ Parker(t)' /\ TypeTold(t)'
  <2>1. ~ Queued(q, n)'
    BY <1>5, <1>9, <1>11 DEF Queued, QueuedWereSent
  <2>2. /\ n > 0 /\ loc'[t].what = [type |-> qcb'[q].sent[n].type, id |-> n]
        /\ loc'[t].q = q /\ qcb'[q].sent[n].by = {} /\ n = Len(qcb'[q].sent)
    <3>1. n > 0
      BY <1>3, <1>9, QcbTyped
    <3> QED BY <1>6, <1>9, <3>1
  <2>3. Sender(t)'
    BY <2>1, <2>2 DEF Sender
  <2> QED BY <1>6, <2>3 DEF Taker, Parker, TypeTold, ParkingPc
<1>17. ASSUME NEW r \in Qcb, NEW j \in Type
       PROVE  Served(r, j)'
  <2>1. OfType(r, j)' = OfType(r, j)
    BY <1>5 DEF OfType
  <2>2. \A u \in Thread \ {t} : LookedUp(u) => LookedUp(u)'
    BY <1>1, <1>6 DEF LookedUp
  <2>3. t \notin Due(r, j) /\ ~ Sleeps(t, r, j)'
    BY <1>1, <1>6 DEF Due, Sleeps
  <2>4. Due(r, j) \subseteq Due(r, j)' /\ \A u \in Thread : Sleeps(u, r, j)' => Sleeps(u, r, j)
    BY <1>7, <2>2, <2>3, OthersDue
  <2> QED BY <2>1, <2>4, ServedKept DEF MessagesInv
<1> QED BY <1>1, <1>7, <1>15, <1>16, <1>17, OthersTold DEF MessagesInv

\* One message more, and one thread more due.
LEMMA ServedOneMore ==
  ASSUME MqInv, NEW q \in Qcb, NEW k, Served(q, k), NEW l, OfType(q, k)' = OfType(q, k) \cup {l},
         NEW t, t \notin Due(q, k), Due(q, k) \cup {t} \subseteq Due(q, k)',
         \A u \in Thread : Sleeps(u, q, k)' => Sleeps(u, q, k)
  PROVE  Served(q, k)'
<1>1. IsFiniteSet(Due(q, k)) /\ IsFiniteSet(OfType(q, k))
  BY DueFinite, OfTypeFinite
<1>2. Cardinality(Due(q, k)) \in Nat /\ Cardinality(OfType(q, k)) \in Nat
  BY DueFinite, OfTypeFinite
<1>3. Cardinality(Due(q, k) \cup {t}) = Cardinality(Due(q, k)) + 1
  BY <1>1, FS_AddElement
<1>4. Cardinality(OfType(q, k) \cup {l}) <= Cardinality(OfType(q, k)) + 1
  <2>1. Cardinality(OfType(q, k) \cup {l}) = IF l \in OfType(q, k) THEN Cardinality(OfType(q, k))
                                                                ELSE Cardinality(OfType(q, k)) + 1
    BY <1>1, FS_AddElement
  <2> QED BY <1>2, <2>1
<1>5. Cardinality(Due(q, k)') \in Nat /\ Cardinality(Due(q, k) \cup {t}) <= Cardinality(Due(q, k)')
  <2>1. Due(q, k)' \in SUBSET Thread /\ IsFiniteSet(Thread)
    BY SchedulerAssumption DEF Due
  <2>2. IsFiniteSet(Due(q, k)')
    BY <2>1, FS_Subset
  <2> QED BY <2>2, FS_Subset, FS_CardinalityType
<1>6. Cardinality(OfType(q, k) \cup {l}) \in Nat
  BY <1>1, FS_AddElement, FS_CardinalityType
<1>7. Cardinality(OfType(q, k)') = Cardinality(OfType(q, k) \cup {l})
  OBVIOUS
<1> QED BY <1>2, <1>3, <1>4, <1>5, <1>6, <1>7 DEF Served

\* The message noted last goes behind the others, and its sender is due to wake
\* somebody.
LEMMA SendPushMessages ==
  ASSUME MqDisciplined, MqInv, MessagesInv, NEW t \in Thread, SendPush(t)
  PROVE  MessagesInv'
<1>1. /\ Executes(t) /\ pc[t] = "snd_push" /\ pc[t] \notin IdlePc /\ Goto(t, "snd_wake")
      /\ UNCHANGED << parked, tbl, type, loc >>
  BY DEF SendPush, At, IdlePc, WrapPc, WaitPc
<1>2. PICK q \in Qcb : q = loc[t].q
  BY <1>1 DEF MqInv, CallsKnow, Knows, LookedUp, SendPc
<1>3. PICK n : n = Len(qcb[q].sent)
  OBVIOUS
<1>4. PICK m \in Message : m = loc[t].what
  BY <1>1 DEF MqInv, CallsKnow, Knows
<1>5. /\ n \in Nat \ {0} /\ DOMAIN qcb[q].sent = 1..n
      /\ m.id = n /\ m.type = qcb[q].sent[n].type /\ m.type \in Type
      /\ qcb[q].sent[n].by = {} /\ ~ Queued(q, n)
  <2>1. Sender(t)
    BY DEF MessagesInv
  <2>2. qcb[q].sent \in Seq(Sending)
    BY QcbTyped
  <2>3. n \in Nat /\ DOMAIN qcb[q].sent = 1..n
    BY <1>3, <2>2
  <2>4. n > 0 /\ m = [type |-> qcb[q].sent[n].type, id |-> n] /\ qcb[q].sent[n].by = {} /\ ~ Queued(q, n)
    BY <1>1, <1>2, <1>3, <1>4, <2>1 DEF Sender
  <2> QED BY <2>3, <2>4 DEF Message
<1>6. PICK l : l = Len(qcb[q].msgs) + 1
  OBVIOUS
<1>7. /\ qcb'[q].sent = qcb[q].sent /\ qcb'[q].msgs = Append(qcb[q].msgs, m)
      /\ \A r \in Qcb \ {q} : qcb'[r] = qcb[r]
  <2>1. qcb' = [qcb EXCEPT ![q].msgs = Append(@, m)]
    BY <1>2, <1>4 DEF SendPush, mq_push
  <2>2. \A r \in Qcb : qcb[r] \in QcbType
    BY QcbTyped
  <2> QED BY <2>1, <2>2 DEF QcbType, MqInv, MqTypeOK
<1>8. /\ l \in Nat /\ DOMAIN qcb[q].msgs = 1..(l - 1) /\ DOMAIN qcb'[q].msgs = 1..l
      /\ qcb'[q].msgs[l] = m /\ \A i \in 1..(l - 1) : qcb'[q].msgs[i] = qcb[q].msgs[i]
  <2>1. qcb[q].msgs \in Seq(Message)
    BY QcbTyped
  <2> QED BY <1>4, <1>6, <1>7, <2>1
<1>9. pc'[t] = "snd_wake" /\ \A u \in Thread \ {t} : pc'[u] = pc[u]
  BY <1>1, CallerAt
<1>10. OnlyMoves(t)
  BY <1>1, <1>9 DEF OnlyMoves
<1>11. \A u \in Thread \ {t} : pc[u] \notin BusyPc
  BY <1>1, OthersIdle
<1>12. QueuedWereSent(q) /\ SentAreSomewhere(q) /\ OldestFirst(q)
  BY DEF MessagesInv
<1>13. QueuedWereSent(q)'
  <2>1. \A i \in 1..(l - 1) : qcb[q].msgs[i].id \in 1..(n - 1)
    BY <1>5, <1>8, <1>12 DEF QueuedWereSent, Queued
  <2>2. \A i \in 1..l : /\ qcb'[q].msgs[i].id \in DOMAIN qcb'[q].sent
                        /\ qcb'[q].sent[qcb'[q].msgs[i].id].type = qcb'[q].msgs[i].type
    <3>1. \A i \in 1..(l - 1) : /\ qcb[q].msgs[i].id \in DOMAIN qcb[q].sent
                                /\ qcb[q].sent[qcb[q].msgs[i].id].type = qcb[q].msgs[i].type
      BY <1>8, <1>12 DEF QueuedWereSent
    <3>2. \A i \in 1..(l - 1) : /\ qcb'[q].msgs[i].id \in DOMAIN qcb'[q].sent
                                /\ qcb'[q].sent[qcb'[q].msgs[i].id].type = qcb'[q].msgs[i].type
      BY <1>7, <1>8, <3>1
    <3>3. /\ qcb'[q].msgs[l].id \in DOMAIN qcb'[q].sent
          /\ qcb'[q].sent[qcb'[q].msgs[l].id].type = qcb'[q].msgs[l].type
      BY <1>5, <1>7, <1>8
    <3>4. \A i \in 1..l : i = l \/ i \in 1..(l - 1)
      BY <1>8
    <3> QED BY <3>2, <3>3, <3>4
  <2>3. ASSUME NEW i \in 1..l, NEW j \in 1..l, i < j PROVE qcb'[q].msgs[i].id < qcb'[q].msgs[j].id
    <3>1. CASE j = l
      <4>1. i \in 1..(l - 1)
        BY <1>8, <2>3, <3>1
      <4>2. qcb'[q].msgs[i].id \in 1..(n - 1)
        BY <1>8, <2>1, <4>1
      <4>3. qcb'[q].msgs[j].id = n
        BY <1>5, <1>8, <3>1
      <4> QED BY <1>5, <4>2, <4>3
    <3>2. CASE j # l
      <4>1. i \in 1..(l - 1) /\ j \in 1..(l - 1)
        BY <1>8, <2>3, <3>2
      <4> QED BY <1>8, <1>12, <2>3, <4>1 DEF QueuedWereSent
    <3> QED BY <3>1, <3>2
  <2> QED BY <1>8, <2>2, <2>3 DEF QueuedWereSent
<1>14. SentAreSomewhere(q)'
  <2>1. \A j : Queued(q, j) => Queued(q, j)'
    BY <1>8 DEF Queued
  <2>2. Queued(q, n)'
    <3>1. l \in DOMAIN qcb'[q].msgs /\ qcb'[q].msgs[l].id = n
      BY <1>5, <1>6, <1>8, QcbTyped
    <3> QED BY <3>1 DEF Queued
  <2>3. \A u \in Thread, j \in DOMAIN qcb[q].sent : Pushing(u, q, j) => j = n
    BY <1>4, <1>5, <1>11 DEF Pushing, BusyPc
  <2>4. \A j \in DOMAIN qcb'[q].sent : qcb'[q].sent[j].by = {} => Queued(q, j)'
    BY <1>7, <1>12, <2>1, <2>2, <2>3 DEF SentAreSomewhere
  <2>5. \A j \in DOMAIN qcb'[q].sent : qcb'[q].sent[j].by # {} => \E u \in Thread : qcb'[q].sent[j].by = {u}
    BY <1>7, <1>12 DEF SentAreSomewhere
  <2>6. \A i \in DOMAIN qcb[q].msgs : qcb[q].sent[qcb[q].msgs[i].id].by = {}
    <3>1. \A u \in Thread : pc[u] # "rcv_remove"
      BY <1>1, <1>11 DEF BusyPc
    <3> QED BY <3>1, NobodyTakes
  <2>7. \A i \in DOMAIN qcb'[q].msgs : qcb'[q].sent[qcb'[q].msgs[i].id].by = {}
    <3>1. \A i \in 1..(l - 1) : qcb'[q].sent[qcb'[q].msgs[i].id].by = {}
      BY <1>7, <1>8, <2>6
    <3>2. qcb'[q].sent[qcb'[q].msgs[l].id].by = {}
      BY <1>5, <1>7, <1>8
    <3>3. \A i \in 1..l : i = l \/ i \in 1..(l - 1)
      BY <1>8
    <3> QED BY <1>8, <3>1, <3>2, <3>3
  <2> QED BY <2>4, <2>5, <2>7 DEF SentAreSomewhere
<1>15. OldestFirst(q)'
  BY <1>7, <1>12 DEF OldestFirst
<1>16. \A r \in Qcb : QueuedWereSent(r)' /\ SentAreSomewhere(r)' /\ OldestFirst(r)'
  <2>1. ASSUME NEW r \in Qcb \ {q}
        PROVE  QueuedWereSent(r)' /\ SentAreSomewhere(r)' /\ OldestFirst(r)'
    <3>1. \A u \in Thread : pc[u] \in {"snd_push", "rcv_remove"} /\ loc[u].q = r
                              => pc'[u] = pc[u] /\ loc'[u] = loc[u]
      BY <1>2, <1>11 DEF BusyPc
    <3> QED BY <1>7, <3>1, RecordKept
  <2> QED BY <1>13, <1>14, <1>15, <2>1
<1>17. Sender(t)' /\ Taker(t)' /\ Parker(t)' /\ TypeTold(t)'
  BY <1>9 DEF Sender, Taker, Parker, TypeTold, ParkingPc
<1>18. ASSUME NEW r \in Qcb, NEW j \in Type
       PROVE  Served(r, j)'
  <2>1. t \notin Due(r, j) /\ ~ Sleeps(t, r, j)'
    BY <1>1, <1>9 DEF Due, Sleeps
  <2>2. \A u \in Thread : LookedUp(u) => LookedUp(u)'
    BY <1>1 DEF LookedUp
  <2>3. Due(r, j) \subseteq Due(r, j)' /\ \A u \in Thread : Sleeps(u, r, j)' => Sleeps(u, r, j)
    BY <1>10, <2>1, <2>2, OthersDue
  <2>4. CASE r = q /\ j = m.type
    <3>1. \A i \in 1..l : i = l \/ i \in 1..(l - 1)
      BY <1>8
    <3>2. l \in 1..l /\ 1..(l - 1) \subseteq 1..l
      BY <1>6, <1>8, QcbTyped
    <3>3. OfType(q, m.type)' = OfType(q, m.type) \cup {l}
      BY <1>8, <3>1, <3>2 DEF OfType
    <3>4. OfType(r, j)' = OfType(r, j) \cup {l}
      BY <2>4, <3>3
    <3>5. t \in Due(r, j)'
      BY <1>1, <1>2, <1>4, <1>9, <2>4 DEF Due
    <3> QED BY <2>1, <2>3, <3>4, <3>5, ServedOneMore DEF MessagesInv
  <2>5. CASE r # q \/ j # m.type
    <3>1. OfType(r, j)' = OfType(r, j)
      BY <1>7, <1>8, <2>5 DEF OfType
    <3> QED BY <2>3, <3>1, ServedKept DEF MessagesInv
  <2> QED BY <2>4, <2>5
<1> QED BY <1>1, <1>10, <1>16, <1>17, <1>18, OthersTold DEF MessagesInv

\* One thread is due for another.
LEMMA ServedInstead ==
  ASSUME MqInv, NEW q \in Qcb, NEW k, Served(q, k), OfType(q, k)' = OfType(q, k),
         NEW t \in Due(q, k), NEW w, w \notin Due(q, k),
         (Due(q, k) \ {t}) \cup {w} \subseteq Due(q, k)',
         \A u \in Thread : Sleeps(u, q, k)' => Sleeps(u, q, k)
  PROVE  Served(q, k)'
<1>1. IsFiniteSet(Due(q, k)) /\ Cardinality(Due(q, k)) \in Nat /\ Cardinality(OfType(q, k)) \in Nat
  BY DueFinite, OfTypeFinite
<1>2. IsFiniteSet(Due(q, k) \ {t}) /\ Cardinality(Due(q, k) \ {t}) = Cardinality(Due(q, k)) - 1
  BY <1>1, FS_RemoveElement
<1>3. Cardinality((Due(q, k) \ {t}) \cup {w}) = Cardinality(Due(q, k) \ {t}) + 1
  BY <1>2, FS_AddElement
<1>4. Cardinality(Due(q, k)') \in Nat /\ Cardinality((Due(q, k) \ {t}) \cup {w}) <= Cardinality(Due(q, k)')
  <2>1. Due(q, k)' \in SUBSET Thread /\ IsFiniteSet(Thread)
    BY SchedulerAssumption DEF Due
  <2>2. IsFiniteSet(Due(q, k)')
    BY <2>1, FS_Subset
  <2> QED BY <2>2, FS_Subset, FS_CardinalityType
<1>5. Cardinality(OfType(q, k)') = Cardinality(OfType(q, k))
  OBVIOUS
<1> QED BY <1>1, <1>2, <1>3, <1>4, <1>5 DEF Served

\* What a step of the caller leaves of the messages where it touches none.
LEMMA RecordsKept ==
  ASSUME MessagesInv, NEW t \in Thread, pc[t] \notin {"snd_push", "rcv_remove"}, OnlyMoves(t),
         \A q \in Qcb : qcb'[q].msgs = qcb[q].msgs /\ qcb'[q].sent = qcb[q].sent
  PROVE  \A q \in Qcb : QueuedWereSent(q)' /\ SentAreSomewhere(q)' /\ OldestFirst(q)'
<1>1. \A u \in Thread : pc[u] \in {"snd_push", "rcv_remove"} => pc'[u] = pc[u] /\ loc'[u] = loc[u]
  BY DEF OnlyMoves
<1> QED BY <1>1, RecordKept

\* The first thread that waits for the type is due from now on, in place of the
\* sender; where nobody waits for it nobody is missed.
LEMMA SendWakeMessages ==
  ASSUME MqDisciplined, MqInv, WaitersRemovedExactly, MessagesInv, NEW t \in Thread, SendWake(t)
  PROVE  MessagesInv'
<1>1. /\ Executes(t) /\ pc[t] = "snd_wake" /\ pc[t] \notin IdlePc
      /\ UNCHANGED << readyQ, waitQ, tbl, type >>
  BY DEF SendWake, At, IdlePc, WrapPc, WaitPc, SameButQueues
<1>2. PICK q \in Qcb : q = loc[t].q
  BY <1>1 DEF MqInv, CallsKnow, Knows, LookedUp, SendPc
<1>3. PICK k \in Type : k = loc[t].what.type
  BY <1>1 DEF MqInv, CallsKnow, Knows, Message
<1>4. PICK i : i = tq_search(q, k)
  OBVIOUS
<1>5. /\ \A u \in Thread \ {t} : pc[u] \notin BusyPc
      /\ \A u \in Thread : LookedUp(u) /\ loc'[u] = loc[u] => LookedUp(u)'
  BY <1>1, OthersIdle DEF LookedUp
<1>6. \/ i = 0 /\ \A j \in 1..Len(Waiters(q)) : type[Waiters(q)[j]] # k
      \/ i \in 1..Len(Waiters(q)) /\ type[Waiters(q)[i]] = k
  BY <1>4, WaiterFound
<1>7. MqInv'
  BY SendWakeKeeps
<1>8. ASSUME NEW r \in Qcb, NEW j \in Type
      PROVE  t \in Due(r, j) <=> r = q /\ j = k
  BY <1>1, <1>2, <1>3 DEF Due
<1>9. CASE i = 0
  <2>1. Goto(t, "user") /\ loc' = [loc EXCEPT ![t] = NoLocals] /\ UNCHANGED << qcb, link >>
    BY <1>2, <1>3, <1>4, <1>9 DEF SendWake, Done
  <2>2. pc'[t] = "user" /\ \A u \in Thread \ {t} : pc'[u] = pc[u] /\ loc'[u] = loc[u]
    BY <2>1, CallerAt, CallerHas
  <2>3. parked' = parked
    <3>1. \A r \in Qcb : Listed(r)' = Listed(r)
      BY <1>1, <2>1, QueuesRest DEF MqInv
    <3> QED BY <1>7, <3>1, ParkedAfter, ParkedAre DEF MqInv
  <2>4. OnlyMoves(t)
    BY <1>1, <2>2, <2>3 DEF OnlyMoves
  <2>5. ASSUME NEW r \in Qcb, NEW j \in Type
        PROVE  Served(r, j)'
    <3>1. ~ Sleeps(t, r, j)' /\ \A u \in Thread \ {t} : LookedUp(u) => LookedUp(u)'
      BY <1>5, <2>2 DEF Sleeps
    <3>2. /\ Due(r, j) \ {t} \subseteq Due(r, j)'
          /\ \A u \in Thread : Sleeps(u, r, j)' => Sleeps(u, r, j)
      BY <2>4, <3>1, OthersDue
    <3>3. CASE r = q /\ j = k
      <4>1. ASSUME NEW u \in Thread, Sleeps(u, r, j)' PROVE FALSE
        <5>1. Sleeps(u, q, k)
          BY <3>2, <3>3, <4>1
        <5>2. u \in Listed(q) /\ type[u] = k
          BY <5>1, ListedAre DEF Sleeps, MessagesInv, TypeTold
        <5>3. \E n \in 1..Len(Waiters(q)) : u = Waiters(q)[n]
          BY <5>2 DEF Listed, Members, Q!Members, Seqs!Range, Waiters, MqInv, MqQueues
        <5> QED BY <1>6, <1>9, <5>2, <5>3
      <4> QED BY <4>1 DEF Served
    <3>4. CASE ~ (r = q /\ j = k)
      <4>1. Due(r, j) \subseteq Due(r, j)' /\ OfType(r, j)' = OfType(r, j)
        BY <1>8, <2>1, <3>2, <3>4 DEF OfType
      <4> QED BY <3>2, <4>1, ServedKept DEF MessagesInv
    <3> QED BY <3>3, <3>4
  <2> QED BY <1>1, <2>1, <2>2, <2>4, <2>5, OthersTold, BackTold, RecordsKept DEF MessagesInv
<1>10. CASE i # 0
  <2>1. PICK w \in Thread : w = Waiters(q)[i] /\ type[w] = k /\ i \in 1..Len(Waiters(q))
    BY <1>6, <1>10 DEF MqInv, MqQueues
  <2>2. tq_remove(q, w) /\ loc' = [loc EXCEPT ![t] = [@ EXCEPT !.what = w]] /\ Goto(t, "snd_ready")
    BY <1>2, <1>3, <1>4, <1>10, <2>1 DEF SendWake
  <2>3. RemovablePosition(Waiters(q), i)
    BY <1>2, <1>3, <1>4, <1>10 DEF WaitersRemovedExactly
  <2>4. parked' = parked \ {w} /\ w \in Listed(q)
    BY <1>1, <1>7, <2>1, <2>2, <2>3, ListRemoved, ParkedAfter DEF MqInv
  <2>5. pc'[t] = "snd_ready" /\ \A u \in Thread \ {t} : pc'[u] = pc[u] /\ loc'[u] = loc[u]
    BY <2>2, CallerAt, CallerHas
  <2>6. OnlyMoves(t)
    BY <1>1, <2>4, <2>5 DEF OnlyMoves
  <2>7. \A r \in Qcb : qcb'[r].msgs = qcb[r].msgs /\ qcb'[r].sent = qcb[r].sent
    <3>1. \A r \in Qcb : qcb[r] \in QcbType
      BY QcbTyped
    <3>2. PICK v : qcb' = [qcb EXCEPT ![q].waiters = v]
      BY <2>2 DEF tq_remove
    <3> QED BY <3>1, <3>2 DEF QcbType, MqInv, MqTypeOK
  <2>8. /\ w # t /\ w \in parked /\ pc[w] = "rcv_wait" /\ LookedUp(w) /\ loc[w].q = q
        /\ loc[w].what = k
    <3>1. w \in parked /\ loc[w].q = q /\ LookedUp(w)
      BY <2>4, ListedAre DEF MqInv, CallsKnow, Knows
    <3>2. pc[w] \in {"rcv_type", "rcv_enter", "rcv_wait"}
      BY <3>1 DEF MqInv, MqPlaces
    <3>3. w # t /\ pc[w] = "rcv_wait"
      BY <1>1, <1>5, <3>2 DEF BusyPc, ParkingPc
    <3> QED BY <2>1, <3>1, <3>3 DEF MessagesInv, TypeTold
  <2>9. ASSUME NEW r \in Qcb, NEW j \in Type
        PROVE  Served(r, j)'
    <3>1. ~ Sleeps(t, r, j)' /\ \A u \in Thread \ {t} : LookedUp(u) => LookedUp(u)'
      BY <1>5, <2>5 DEF Sleeps
    <3>2. /\ Due(r, j) \ {t} \subseteq Due(r, j)'
          /\ \A u \in Thread : Sleeps(u, r, j)' => Sleeps(u, r, j)
          /\ OfType(r, j)' = OfType(r, j)
      BY <2>6, <2>7, <3>1, OthersDue DEF OfType
    <3>3. CASE r = q /\ j = k
      <4>1. t \in Due(r, j) /\ w \notin Due(r, j)
        BY <1>8, <2>8, <3>3 DEF Due
      <4>2. w \in Due(r, j)'
        BY <2>4, <2>5, <2>8, <3>1, <3>3 DEF Due
      <4> QED BY <3>2, <4>1, <4>2, ServedInstead DEF MessagesInv
    <3>4. CASE ~ (r = q /\ j = k)
      BY <1>8, <3>2, <3>4, ServedKept DEF MessagesInv
    <3> QED BY <3>3, <3>4
  <2>10. Sender(t)' /\ Taker(t)' /\ Parker(t)' /\ TypeTold(t)'
    BY <2>5 DEF Sender, Taker, Parker, TypeTold, ParkingPc
  <2> QED BY <1>1, <2>6, <2>7, <2>9, <2>10, OthersTold, RecordsKept DEF MessagesInv
<1> QED BY <1>9, <1>10

-----------------------------------------------------------------------------
(* mymsgrcv *)

\* t, and nobody before it, has received the message q numbered n.
Noted(t, q, n) ==
  /\ qcb'[q].msgs = qcb[q].msgs /\ \A r \in Qcb \ {q} : qcb'[r] = qcb[r]
  /\ n \in DOMAIN qcb[q].sent /\ DOMAIN qcb'[q].sent = DOMAIN qcb[q].sent
  /\ qcb[q].sent[n].by = {} /\ qcb'[q].sent[n].by = {t}
  /\ \A j \in DOMAIN qcb[q].sent :
       /\ qcb'[q].sent[j].type = qcb[q].sent[j].type
       /\ j # n => qcb'[q].sent[j].by = qcb[q].sent[j].by

\* A message that is copied has been received by nobody before.
LEMMA Copied ==
  ASSUME MqInv, MessagesInv, NEW t \in Thread, NEW q \in Qcb, qcb[q].used,
         \A u \in Thread : pc[u] = "rcv_remove" => loc[u].q # q,
         NEW i \in 1..Len(qcb[q].msgs), NEW n, n = qcb[q].msgs[i].id, Copy(t, q, i)
  PROVE  Noted(t, q, n)
<1>1. PICK s : s = qcb[q].sent
  OBVIOUS
<1>2. PICK x : x = [s EXCEPT ![n] = [s[n] EXCEPT !.by = s[n].by \cup {t}]]
  OBVIOUS
<1>3. /\ x \in Seq(Sending) /\ DOMAIN x = DOMAIN s
      /\ \A j \in DOMAIN s : /\ x[j].type = s[j].type
                             /\ j # n => x[j] = s[j]
      /\ n \in DOMAIN s => x[n] = [s[n] EXCEPT !.by = s[n].by \cup {t}] /\ s[n] \in Sending
  <2>1. s \in Seq(Sending)
    BY <1>1, QcbTyped
  <2>2. x \in Seq(Sending) /\ DOMAIN x = DOMAIN s
    BY <1>2, <2>1, NameEntered
  <2>3. ASSUME NEW j \in DOMAIN s PROVE x[j].type = s[j].type
    BY <1>2, <2>1, NameEntered
  <2>4. s \in [DOMAIN s -> Sending]
    BY <2>1
  <2>5. \A j \in DOMAIN s : j # n => x[j] = s[j]
    BY <1>2, <2>4
  <2>6. n \in DOMAIN s => x[n] = [s[n] EXCEPT !.by = s[n].by \cup {t}] /\ s[n] \in Sending
    BY <1>2, <2>4
  <2> QED BY <2>2, <2>3, <2>5, <2>6
<1>4. /\ \A r \in Qcb \ {q} : qcb'[r] = qcb[r]
      /\ qcb'[q].msgs = qcb[q].msgs /\ qcb'[q].sent = x
  <2>1. qcb' = [qcb EXCEPT ![q] = [qcb[q] EXCEPT !.sent = x]]
    BY <1>1, <1>2 DEF Copy
  <2> QED BY <1>3, <2>1, EntryStored
<1>5. n \in DOMAIN s /\ s[n].by = {}
  <2>1. i \in DOMAIN qcb[q].msgs
    BY QcbTyped
  <2> QED BY <1>1, <2>1, NobodyTakes DEF MessagesInv, QueuedWereSent
<1>6. x[n].by = {t}
  BY <1>3, <1>5 DEF Sending
<1> QED BY <1>1, <1>3, <1>4, <1>5, <1>6 DEF Noted

\* The first message of the type is copied: the one sent first, and the caller
\* is to remove it.
LEMMA CopyMessages ==
  ASSUME MqDisciplined, MqInv, MessagesInv, NEW t \in Thread, Executes(t), pc[t] \notin IdlePc,
         pc[t] \notin {"snd_push", "rcv_remove"},
         NEW q \in Qcb, qcb[q].used, NEW k \in Type, NEW i, i = mq_search(q, k), i # 0, Copy(t, q, i),
         loc'[t].q = q, loc'[t].what = k, \A u \in Thread \ {t} : loc'[u] = loc[u],
         UNCHANGED << tbl, type, parked >>,
         \A r \in Qcb, j \in Type : t \in Due(r, j) => r = q /\ j = k
  PROVE  MessagesInv'
<1>1. pc'[t] = "rcv_remove" /\ \A u \in Thread \ {t} : pc'[u] = pc[u]
  BY CopyGoes, CallerAt
<1>2. OnlyMoves(t)
  BY <1>1 DEF OnlyMoves
<1>3. \A u \in Thread : pc[u] # "snd_push" /\ pc[u] # "rcv_remove"
  BY OthersIdle DEF BusyPc
<1>4. /\ i \in 1..Len(qcb[q].msgs) /\ qcb[q].msgs[i].type = k
      /\ \A j \in 1..Len(qcb[q].msgs) : qcb[q].msgs[j].type = k => i <= j
  BY MessageFound DEF MqInv
<1>5. PICK n : n = qcb[q].msgs[i].id
  OBVIOUS
<1>6. /\ qcb'[q].msgs = qcb[q].msgs /\ \A r \in Qcb \ {q} : qcb'[r] = qcb[r]
      /\ n \in DOMAIN qcb[q].sent /\ DOMAIN qcb'[q].sent = DOMAIN qcb[q].sent
      /\ qcb[q].sent[n].by = {} /\ qcb'[q].sent[n].by = {t}
      /\ \A j \in DOMAIN qcb[q].sent :
           /\ qcb'[q].sent[j].type = qcb[q].sent[j].type
           /\ j # n => qcb'[q].sent[j].by = qcb[q].sent[j].by
  <2>1. \A u \in Thread : pc[u] = "rcv_remove" => loc[u].q # q
    BY <1>3
  <2>2. i \in 1..Len(qcb[q].msgs)
    BY <1>4
  <2>3. Noted(t, q, n)
    BY <1>5, <2>1, <2>2, Copied
  <2> QED BY <2>3 DEF Noted
<1>7. PICK l \in Nat : DOMAIN qcb[q].msgs = 1..l /\ 1..Len(qcb[q].msgs) = 1..l
  BY QcbTyped
<1>8. QueuedWereSent(q) /\ SentAreSomewhere(q) /\ OldestFirst(q)
  BY DEF MessagesInv
<1>9. \A j \in 1..l : qcb[q].msgs[j].id \in Nat
  <2>1. \A j \in 1..l : qcb[q].msgs[j] \in Message
    BY <1>7, QcbTyped
  <2> QED BY <2>1 DEF Message
<1>10. QueuedWereSent(q)'
  BY <1>6, <1>8 DEF QueuedWereSent
<1>11. SentAreSomewhere(q)'
  <2>1. \A j : Queued(q, j) => Queued(q, j)'
    BY <1>6 DEF Queued
  <2>2. \A j \in DOMAIN qcb'[q].sent : qcb'[q].sent[j].by = {} => Queued(q, j)'
    BY <1>3, <1>6, <1>8, <2>1 DEF SentAreSomewhere, Pushing
  <2>3. \A j \in DOMAIN qcb'[q].sent : qcb'[q].sent[j].by # {} => \E u \in Thread : qcb'[q].sent[j].by = {u}
    BY <1>6, <1>8 DEF SentAreSomewhere
  <2>4. ASSUME NEW j \in DOMAIN qcb'[q].msgs, qcb'[q].sent[qcb'[q].msgs[j].id].by # {}
        PROVE  /\ \E u \in qcb'[q].sent[qcb'[q].msgs[j].id].by :
                    pc'[u] = "rcv_remove" /\ loc'[u].q = q /\ loc'[u].what = qcb'[q].msgs[j].type
               /\ \A m \in DOMAIN qcb'[q].msgs : qcb'[q].msgs[m].type = qcb'[q].msgs[j].type => j <= m
    <3>1. j \in 1..l /\ qcb[q].sent[qcb[q].msgs[j].id].by = {} /\ qcb[q].msgs[j].id \in DOMAIN qcb[q].sent
      BY <1>3, <1>6, <1>7, <1>8, <2>4, NobodyTakes DEF QueuedWereSent
    <3>2. qcb[q].msgs[j].id = n
      BY <1>6, <2>4, <3>1
    <3>3. j = i
      BY <1>4, <1>5, <1>7, <1>8, <1>9, <3>1, <3>2 DEF QueuedWereSent
    <3>4. pc'[t] = "rcv_remove" /\ loc'[t].q = q /\ loc'[t].what = k
      BY <1>1
    <3>5. qcb'[q].msgs[j].type = k /\ t \in qcb'[q].sent[qcb'[q].msgs[j].id].by
      BY <1>4, <1>6, <3>2, <3>3
    <3>6. \A m \in DOMAIN qcb'[q].msgs : qcb'[q].msgs[m].type = k => j <= m
      BY <1>4, <1>6, <1>7, <3>3
    <3> QED BY <3>4, <3>5, <3>6
  <2> QED BY <2>2, <2>3, <2>4 DEF SentAreSomewhere, Taking
<1>12. OldestFirst(q)'
  <2>1. ASSUME NEW j \in DOMAIN qcb[q].sent, j < n, qcb[q].sent[j].type = qcb[q].sent[n].type,
               qcb[q].sent[j].by = {}
        PROVE  FALSE
    <3>1. PICK p \in 1..l : qcb[q].msgs[p].id = j
      BY <1>3, <1>7, <1>8, <2>1 DEF SentAreSomewhere, Pushing, Queued
    <3>2. qcb[q].msgs[p].type = k
      BY <1>4, <1>5, <1>7, <1>8, <2>1, <3>1 DEF QueuedWereSent
    <3>3. i <= p
      BY <1>4, <1>7, <3>2
    <3>4. n <= j
      BY <1>4, <1>5, <1>7, <1>8, <1>9, <3>1, <3>3 DEF QueuedWereSent
    <3>5. n \in Nat /\ j \in Nat
      BY <1>4, <1>5, <1>7, <1>9, <3>1
    <3> QED BY <2>1, <3>4, <3>5
  <2>2. ASSUME NEW j \in DOMAIN qcb'[q].sent, NEW m \in DOMAIN qcb'[q].sent, j < m,
               qcb'[q].sent[j].type = qcb'[q].sent[m].type, qcb'[q].sent[m].by # {}
        PROVE  qcb'[q].sent[j].by # {}
    <3>1. CASE m = n
      BY <1>6, <2>1, <2>2, <3>1
    <3>2. CASE m # n
      <4>1. qcb[q].sent[m].by # {} /\ qcb[q].sent[j].type = qcb[q].sent[m].type
        BY <1>6, <2>2, <3>2
      <4>2. qcb[q].sent[j].by # {}
        BY <1>6, <1>8, <2>2, <4>1 DEF OldestFirst
      <4> QED BY <1>6, <4>2
    <3> QED BY <3>1, <3>2
  <2> QED BY <2>2 DEF OldestFirst
<1>13. \A r \in Qcb : QueuedWereSent(r)' /\ SentAreSomewhere(r)' /\ OldestFirst(r)'
  <2>1. ASSUME NEW r \in Qcb \ {q}
        PROVE  QueuedWereSent(r)' /\ SentAreSomewhere(r)' /\ OldestFirst(r)'
    BY <1>3, <1>6, RecordKept
  <2> QED BY <1>10, <1>11, <1>12, <2>1
<1>14. Sender(t)' /\ Taker(t)' /\ Parker(t)' /\ TypeTold(t)'
  <2>1. i \in OfType(q, k)' /\ qcb'[q].sent[qcb'[q].msgs[i].id].by = {t}
    BY <1>4, <1>5, <1>6, <1>7 DEF OfType
  <2>2. Taker(t)'
    BY <2>1 DEF Taker
  <2> QED BY <1>1, <2>2 DEF Sender, Parker, TypeTold, ParkingPc
<1>15. ASSUME NEW r \in Qcb, NEW j \in Type
       PROVE  Served(r, j)'
  <2>1. OfType(r, j)' = OfType(r, j)
    BY <1>6 DEF OfType
  <2>2. \A u \in Thread \ {t} : LookedUp(u) => LookedUp(u)'
    BY DEF LookedUp
  <2>3. t \in Due(r, j) => t \in Due(r, j)'
    BY <1>1 DEF Due
  <2>4. ~ Sleeps(t, r, j)'
    BY <1>1 DEF Sleeps
  <2>5. Due(r, j) \subseteq Due(r, j)' /\ \A u \in Thread : Sleeps(u, r, j)' => Sleeps(u, r, j)
    BY <1>2, <2>2, <2>3, <2>4, OthersDue
  <2> QED BY <2>1, <2>5, ServedKept DEF MessagesInv
<1> QED BY <1>2, <1>13, <1>14, <1>15, OthersTold DEF MessagesInv

\* Who finds no message is about to wait, and there is none.
LEMMA ReceiveMessages ==
  ASSUME MqDisciplined, MqInv, MessagesInv, NEW t \in Thread, NEW s \in Slot, NEW k \in Type,
         Receive(t, s, k)
  PROVE  MessagesInv'
<1>1. /\ Executes(t) /\ pc[t] = "user" /\ pc[t] \notin IdlePc /\ tbl[s].pQcb # Null
      /\ UNCHANGED << tbl, type, parked >>
  BY DEF Receive, AtCall, IdlePc, WrapPc, WaitPc
<1>2. PICK q \in Qcb : q = tbl[s].pQcb /\ qcb[q].used
  BY <1>1, SlotUsed
<1>3. PICK i : i = mq_search(q, k)
  OBVIOUS
<1>4. /\ loc' = [loc EXCEPT ![t] = [slot |-> s, q |-> q, what |-> k]]
      /\ IF i = 0 THEN Goto(t, "rcv_leave") /\ qcb' = qcb ELSE Copy(t, q, i)
  BY <1>2, <1>3 DEF Receive
<1>5. loc'[t].q = q /\ loc'[t].what = k /\ \A u \in Thread \ {t} : loc'[u] = loc[u]
  <2>1. /\ loc'[t] = [slot |-> s, q |-> q, what |-> k]
        /\ \A u \in Thread \ {t} : loc'[u] = loc[u]
    BY <1>4, CallerHas
  <2> QED BY <2>1
<1>6. \A r \in Qcb, j \in Type : t \notin Due(r, j)
  BY <1>1 DEF Due
<1>7. CASE i # 0
  BY <1>1, <1>2, <1>3, <1>4, <1>5, <1>6, <1>7, CopyMessages
<1>8. CASE i = 0
  <2>1. pc'[t] = "rcv_leave" /\ (\A u \in Thread \ {t} : pc'[u] = pc[u]) /\ qcb' = qcb
    BY <1>4, <1>8, CallerAt
  <2>2. OnlyMoves(t)
    BY <1>1, <1>5, <2>1 DEF OnlyMoves
  <2>3. OfType(q, k) = {}
    <3>1. \A j \in 1..Len(qcb[q].msgs) : qcb[q].msgs[j].type # k
      <4>1. \/ i = 0 /\ \A j \in 1..Len(qcb[q].msgs) : qcb[q].msgs[j].type # k
            \/ i \in 1..Len(qcb[q].msgs)
        BY <1>3, MessageFound DEF MqInv
      <4> QED BY <1>8, <4>1
    <3>2. DOMAIN qcb[q].msgs = 1..Len(qcb[q].msgs)
      BY QcbTyped
    <3> QED BY <3>1, <3>2 DEF OfType
  <2>4. Sender(t)' /\ Taker(t)' /\ Parker(t)' /\ TypeTold(t)'
    <3>1. Parker(t)'
      BY <1>5, <2>1, <2>3 DEF Parker, OfType
    <3> QED BY <2>1, <3>1 DEF Sender, Taker, TypeTold
  <2>5. ASSUME NEW r \in Qcb, NEW j \in Type
        PROVE  Served(r, j)'
    <3>1. OfType(r, j)' = OfType(r, j)
      BY <2>1 DEF OfType
    <3>2. ~ Sleeps(t, r, j)' /\ \A u \in Thread \ {t} : LookedUp(u) => LookedUp(u)'
      BY <1>1, <1>5, <2>1 DEF Sleeps, LookedUp
    <3>3. Due(r, j) \subseteq Due(r, j)' /\ \A u \in Thread : Sleeps(u, r, j)' => Sleeps(u, r, j)
      BY <1>6, <2>2, <3>2, OthersDue
    <3> QED BY <3>1, <3>3, ServedKept DEF MessagesInv
  <2> QED BY <1>1, <2>1, <2>2, <2>4, <2>5, OthersTold, RecordsKept DEF MessagesInv
<1> QED BY <1>7, <1>8

\* Awake, the receiver finds a message or is due no more: its slot leads to
\* another Qcb, or there is none to miss.
LEMMA ReceiveRetryMessages ==
  ASSUME MqDisciplined, MqInv, MessagesInv, NEW t \in Thread, ReceiveRetry(t)
  PROVE  MessagesInv'
<1>1. /\ Executes(t) /\ pc[t] = "rcv_retry" /\ pc[t] \notin IdlePc
      /\ UNCHANGED << tbl, type, parked >>
  BY DEF ReceiveRetry, At, IdlePc, WrapPc, WaitPc
<1>2. PICK k \in Type : k = loc[t].what /\ loc[t].slot \in Slot
  BY <1>1 DEF MqInv, CallsKnow, Knows, RcvPc
<1>3. PICK q : q = tbl[loc[t].slot].pQcb
  OBVIOUS
<1>4. PICK i : i = IF q = Null THEN 0 ELSE mq_search(q, k)
  OBVIOUS
<1>5. IF i = 0 THEN Done(t) /\ qcb' = qcb ELSE Copy(t, q, i) /\ loc' = [loc EXCEPT ![t].q = q]
  BY <1>2, <1>3, <1>4 DEF ReceiveRetry
<1>6. q # Null => q \in Qcb /\ qcb[q].used
  BY <1>2, <1>3, SlotUsed
<1>7. \A r \in Qcb, j \in Type : t \in Due(r, j) => r = q /\ j = k
  BY <1>1, <1>2, <1>3 DEF Due, LookedUp
<1>8. CASE i # 0
  <2>1. q \in Qcb /\ qcb[q].used /\ i = mq_search(q, k) /\ Copy(t, q, i)
    BY <1>4, <1>5, <1>6, <1>8
  <2>2. PICK v : v = [loc[t] EXCEPT !.q = q]
    OBVIOUS
  <2>3. loc' = [loc EXCEPT ![t] = v]
    BY <1>5, <1>8, <2>2
  <2>4. v.q = q /\ v.what = k
    <3>1. loc[t] \in LocType
      BY LocTyped
    <3> QED BY <1>2, <2>2, <3>1 DEF LocType
  <2>5. loc'[t].q = q /\ loc'[t].what = k /\ \A u \in Thread \ {t} : loc'[u] = loc[u]
    BY <2>3, <2>4, CallerHas
  <2>6. pc[t] \notin {"snd_push", "rcv_remove"}
    BY <1>1
  <2> QED BY <1>1, <1>7, <1>8, <2>1, <2>5, <2>6, CopyMessages
<1>9. CASE i = 0
  <2>1. Goto(t, "user") /\ loc' = [loc EXCEPT ![t] = NoLocals] /\ qcb' = qcb
    BY <1>5, <1>9 DEF Done
  <2>2. pc'[t] = "user" /\ \A u \in Thread \ {t} : pc'[u] = pc[u] /\ loc'[u] = loc[u]
    BY <2>1, CallerAt, CallerHas
  <2>3. OnlyMoves(t)
    BY <1>1, <2>2 DEF OnlyMoves
  <2>4. ASSUME NEW r \in Qcb, NEW j \in Type
        PROVE  Served(r, j)'
    <3>1. OfType(r, j)' = OfType(r, j)
      BY <2>1 DEF OfType
    <3>2. CASE r = q /\ j = k
      <4>1. \A m \in 1..Len(qcb[q].msgs) : qcb[q].msgs[m].type # k
        <5>1. i = mq_search(q, k)
          BY <1>4, <3>2, MsgQueueAssumption
        <5>2. \/ i = 0 /\ \A m \in 1..Len(qcb[q].msgs) : qcb[q].msgs[m].type # k
              \/ i \in 1..Len(qcb[q].msgs)
          BY <3>2, <5>1, MessageFound DEF MqInv
        <5> QED BY <1>9, <5>2
      <4>2. DOMAIN qcb[q].msgs = 1..Len(qcb[q].msgs)
        BY <3>2, QcbTyped
      <4>3. OfType(r, j)' = {}
        BY <3>1, <3>2, <4>1, <4>2 DEF OfType
      <4> QED BY <4>3, ServedIfNone
    <3>3. CASE ~ (r = q /\ j = k)
      <4>1. t \notin Due(r, j) /\ ~ Sleeps(t, r, j)'
        BY <1>7, <2>2, <3>3 DEF Sleeps
      <4>2. \A u \in Thread \ {t} : LookedUp(u) => LookedUp(u)'
        BY <1>1, <2>2 DEF LookedUp
      <4>3. Due(r, j) \subseteq Due(r, j)' /\ \A u \in Thread : Sleeps(u, r, j)' => Sleeps(u, r, j)
        BY <2>3, <4>1, <4>2, OthersDue
      <4> QED BY <3>1, <4>3, ServedKept DEF MessagesInv
    <3> QED BY <3>2, <3>3
  <2>5. \A r \in Qcb : qcb'[r].msgs = qcb[r].msgs /\ qcb'[r].sent = qcb[r].sent
    BY <2>1
  <2>6. pc[t] \notin {"snd_push", "rcv_remove"}
    BY <1>1
  <2> QED BY <1>1, <2>2, <2>3, <2>4, <2>5, <2>6, OthersTold, BackTold, RecordsKept DEF MessagesInv
<1> QED BY <1>8, <1>9

\* The p-th of l messages of q is gone.
Removed(q, p, l) ==
  /\ qcb'[q].sent = qcb[q].sent /\ \A r \in Qcb \ {q} : qcb'[r] = qcb[r]
  /\ l \in Nat /\ DOMAIN qcb[q].msgs = 1..l /\ DOMAIN qcb'[q].msgs = 1..(l - 1)
  /\ \A i \in 1..(l - 1) : qcb'[q].msgs[i] = qcb[q].msgs[IF i < p THEN i ELSE i + 1]

\* mq_remove takes the first message of the type.
LEMMA MessageRemoved ==
  ASSUME MqInv, NEW q \in Qcb, qcb[q].used, NEW k, mq_remove(q, k), NEW l, l = Len(qcb[q].msgs),
         NEW p \in 1..l, qcb[q].msgs[p].type = k, \A j \in 1..l : qcb[q].msgs[j].type = k => p <= j
  PROVE  Removed(q, p, l)
<1>1. PICK s : s = qcb[q].msgs /\ s \in Seq(Message)
  BY QcbTyped
<1>2. PICK x : x = Seqs!RemoveFirstMatch(s, LAMBDA m : m.type = k)
  OBVIOUS
<1>3. qcb'[q].msgs = x /\ qcb'[q].sent = qcb[q].sent /\ \A r \in Qcb \ {q} : qcb'[r] = qcb[r]
  <2>1. qcb' = [qcb EXCEPT ![q].msgs = x]
    BY <1>1, <1>2 DEF mq_remove
  <2>2. \A r \in Qcb : qcb[r] \in QcbType
    BY QcbTyped
  <2> QED BY <2>1, <2>2 DEF QcbType, MqInv, MqTypeOK
<1>4. l \in Nat /\ l = Len(s) /\ DOMAIN s = 1..l
  BY <1>1
<1>5. x = SubSeq(s, 1, p - 1) \o SubSeq(s, p + 1, l)
  <2> DEFINE I == {i \in 1..Len(s) : s[i].type = k}
             j == Seqs!Min(I)
  <2>1. I \subseteq Nat /\ I # {} /\ p \in I
    BY <1>1, <1>4
  <2>2. Seqs!RemoveFirstMatch(s, LAMBDA m : m.type = k) = SubSeq(s, 1, j - 1) \o SubSeq(s, j + 1, Len(s))
    BY <2>1 DEF Seqs!RemoveFirstMatch, Seqs!RemoveAt, Seqs!SelectInSeq
  <2>3. j \in I /\ \A i \in I : j <= i
    BY <2>1, LeastIsFirst
  <2> HIDE DEF j
  <2>4. j = p
    BY <1>1, <1>4, <2>3
  <2> QED BY <1>2, <1>4, <2>2, <2>4
<1>6. PICK a, b : a = SubSeq(s, 1, p - 1) /\ b = SubSeq(s, p + 1, l)
  OBVIOUS
<1>7. /\ a \in Seq(Message) /\ Len(a) = p - 1 /\ \A i \in 1..(p - 1) : a[i] = s[i]
      /\ b \in Seq(Message) /\ Len(b) = l - p /\ \A i \in 1..(l - p) : b[i] = s[i + p]
  <2>1. p \in Int /\ 1 <= p /\ p <= l
    BY <1>4
  <2>2. a \in Seq(Message) /\ b \in Seq(Message)
    BY <1>1, <1>4, <1>6, <2>1
  <2>3. Len(a) = p - 1 /\ \A i \in 1..(p - 1) : a[i] = s[i]
    BY <1>1, <1>4, <1>6, <2>1
  <2>4. Len(b) = l - p
    BY <1>1, <1>4, <1>6, <2>1
  <2>5. ASSUME NEW i \in 1..(l - p) PROVE b[i] = s[i + p]
    BY <1>1, <1>4, <1>6, <2>1
  <2> QED BY <2>2, <2>3, <2>4, <2>5
<1>8. /\ Len(x) = l - 1 /\ DOMAIN x = 1..(l - 1)
      /\ \A i \in 1..(l - 1) : x[i] = s[IF i < p THEN i ELSE i + 1]
  <2>1. x = a \o b /\ Len(x) = l - 1 /\ DOMAIN x = 1..(l - 1)
    <3>1. x = a \o b
      BY <1>5, <1>6
    <3>2. a \in Seq(Message) /\ b \in Seq(Message)
      BY <1>7
    <3>3. a \o b \in Seq(Message) /\ Len(a \o b) = Len(a) + Len(b)
      BY <3>2
    <3>4. Len(x) = l - 1
      BY <1>4, <1>7, <3>1, <3>3
    <3>5. x \in Seq(Message)
      BY <3>1, <3>3
    <3>6. DOMAIN x = 1..Len(x)
      BY <3>5
    <3> QED BY <3>1, <3>4, <3>6
  <2>2. ASSUME NEW i \in 1..(l - 1) PROVE x[i] = s[IF i < p THEN i ELSE i + 1]
    <3>1. CASE i < p
      BY <1>4, <1>7, <2>1, <3>1
    <3>2. CASE ~ (i < p)
      <4>1. x[i] = b[i - (p - 1)] /\ i - (p - 1) \in 1..(l - p)
        BY <1>4, <1>7, <2>1, <3>2
      <4> QED BY <1>4, <1>7, <3>2, <4>1
    <3> QED BY <3>1, <3>2
  <2> QED BY <2>1, <2>2
<1> QED BY <1>1, <1>3, <1>4, <1>8 DEF Removed

\* As many messages fewer as threads due.
LEMMA ServedLess ==
  ASSUME MqInv, NEW q \in Qcb, NEW k, Served(q, k), NEW t,
         NEW M, M \subseteq OfType(q, k), NEW f \in Injection(OfType(q, k)', M),
         t \in Due(q, k) => \E p \in OfType(q, k) : p \notin M,
         Due(q, k) \ {t} \subseteq Due(q, k)',
         \A u \in Thread : Sleeps(u, q, k)' => Sleeps(u, q, k)
  PROVE  Served(q, k)'
<1>1. /\ IsFiniteSet(Due(q, k)) /\ Cardinality(Due(q, k)) \in Nat
      /\ IsFiniteSet(OfType(q, k)) /\ Cardinality(OfType(q, k)) \in Nat
  BY DueFinite, OfTypeFinite
<1>2. /\ IsFiniteSet(M) /\ Cardinality(M) \in Nat /\ Cardinality(M) <= Cardinality(OfType(q, k))
      /\ Cardinality(M) = Cardinality(OfType(q, k)) => OfType(q, k) = M
  BY <1>1, FS_Subset, FS_CardinalityType
<1>3. /\ Cardinality(OfType(q, k)') \in Nat /\ Cardinality(OfType(q, k)') <= Cardinality(M)
  BY <1>2, FS_Injection, FS_CardinalityType
<1>4. /\ IsFiniteSet(Due(q, k) \ {t})
      /\ Cardinality(Due(q, k) \ {t}) = IF t \in Due(q, k) THEN Cardinality(Due(q, k)) - 1
                                                          ELSE Cardinality(Due(q, k))
  BY <1>1, FS_RemoveElement
<1>5. Cardinality(Due(q, k)') \in Nat /\ Cardinality(Due(q, k) \ {t}) <= Cardinality(Due(q, k)')
  <2>1. Due(q, k)' \in SUBSET Thread /\ IsFiniteSet(Thread)
    BY SchedulerAssumption DEF Due
  <2>2. IsFiniteSet(Due(q, k)')
    BY <2>1, FS_Subset
  <2> QED BY <2>2, FS_Subset, FS_CardinalityType
<1>6. CASE t \in Due(q, k)
  <2>1. Cardinality(M) <= Cardinality(OfType(q, k)) - 1
    BY <1>1, <1>2, <1>6
  <2>2. Cardinality(Due(q, k) \ {t}) = Cardinality(Due(q, k)) - 1
    BY <1>4, <1>6
  <2> QED BY <1>1, <1>2, <1>3, <1>5, <2>1, <2>2 DEF Served
<1>7. CASE t \notin Due(q, k)
  <2>1. Cardinality(Due(q, k) \ {t}) = Cardinality(Due(q, k))
    BY <1>4, <1>7
  <2> QED BY <1>1, <1>2, <1>3, <1>5, <2>1 DEF Served
<1> QED BY <1>6, <1>7

\* The message that was copied is the one that goes: still the first of its
\* type, since new ones go behind.
LEMMA ReceiveRemoveMessages ==
  ASSUME MqDisciplined, MqInv, MessagesInv, NEW t \in Thread, ReceiveRemove(t)
  PROVE  MessagesInv'
<1>1. /\ Executes(t) /\ pc[t] = "rcv_remove" /\ pc[t] \notin IdlePc
      /\ Goto(t, "user") /\ loc' = [loc EXCEPT ![t] = NoLocals] /\ UNCHANGED << parked, tbl, type >>
  BY DEF ReceiveRemove, At, Done, IdlePc, WrapPc, WaitPc
<1>2. PICK q \in Qcb : q = loc[t].q /\ qcb[q].used
  <2>1. LookedUp(t)
    BY <1>1 DEF MqInv, CallsKnow, Knows, RcvPc
  <2> QED BY <2>1, QcbInUse
<1>3. PICK k \in Type : k = loc[t].what
  BY <1>1 DEF MqInv, CallsKnow, Knows, RcvPc
<1>4. PICK l \in Nat : l = Len(qcb[q].msgs) /\ DOMAIN qcb[q].msgs = 1..l
  BY QcbTyped
<1>5. QueuedWereSent(q) /\ SentAreSomewhere(q) /\ OldestFirst(q)
  BY DEF MessagesInv
<1>6. \A u \in Thread \ {t} : pc[u] # "rcv_remove" /\ pc[u] # "snd_push"
  BY <1>1, OthersIdle DEF BusyPc
<1>7. PICK p \in 1..l : qcb[q].msgs[p].type = k /\ qcb[q].sent[qcb[q].msgs[p].id].by = {t}
  <2>1. Taker(t)
    BY DEF MessagesInv
  <2> QED BY <1>1, <1>2, <1>3, <1>4, <2>1 DEF Taker, OfType
<1>8. \A j \in 1..l : qcb[q].msgs[j].type = k => p <= j
  <2>1. qcb[q].sent[qcb[q].msgs[p].id].by # {}
    BY <1>7
  <2> QED BY <1>4, <1>5, <1>7, <2>1 DEF SentAreSomewhere
<1>9. /\ qcb'[q].sent = qcb[q].sent /\ \A r \in Qcb \ {q} : qcb'[r] = qcb[r]
      /\ DOMAIN qcb'[q].msgs = 1..(l - 1)
      /\ \A i \in 1..(l - 1) : qcb'[q].msgs[i] = qcb[q].msgs[IF i < p THEN i ELSE i + 1]
  <2>1. mq_remove(q, k)
    BY <1>2, <1>3 DEF ReceiveRemove
  <2>2. Removed(q, p, l)
    BY <1>2, <1>4, <1>7, <1>8, <2>1, MessageRemoved
  <2> QED BY <2>2 DEF Removed
<1>10. PICK up : up = [i \in 1..(l - 1) |-> IF i < p THEN i ELSE i + 1]
  OBVIOUS
<1>11. /\ \A i \in 1..(l - 1) : up[i] \in 1..l /\ up[i] # p /\ qcb'[q].msgs[i] = qcb[q].msgs[up[i]]
       /\ \A i, j \in 1..(l - 1) : i < j => up[i] < up[j]
       /\ \A j \in 1..l : j # p => \E i \in 1..(l - 1) : up[i] = j
  <2>1. ASSUME NEW i \in 1..(l - 1)
        PROVE  up[i] \in 1..l /\ up[i] # p /\ qcb'[q].msgs[i] = qcb[q].msgs[up[i]]
    BY <1>9, <1>10
  <2>2. \A i, j \in 1..(l - 1) : i < j => up[i] < up[j]
    BY <1>10
  <2>3. ASSUME NEW j \in 1..l, j # p PROVE \E i \in 1..(l - 1) : up[i] = j
    <3>1. CASE j < p
      <4>1. j \in 1..(l - 1) /\ up[j] = j
        BY <1>10, <3>1
      <4> QED BY <4>1
    <3>2. CASE ~ (j < p)
      <4>1. j - 1 \in 1..(l - 1) /\ up[j - 1] = j
        BY <1>10, <2>3, <3>2
      <4> QED BY <4>1
    <3> QED BY <3>1, <3>2
  <2> QED BY <2>1, <2>2, <2>3
<1>12. pc'[t] = "user" /\ \A u \in Thread \ {t} : pc'[u] = pc[u] /\ loc'[u] = loc[u]
  BY <1>1, CallerAt, CallerHas
<1>13. OnlyMoves(t)
  BY <1>1, <1>12 DEF OnlyMoves
<1>14. QueuedWereSent(q)'
  <2>1. ASSUME NEW i \in 1..(l - 1)
        PROVE  /\ qcb'[q].msgs[i].id \in DOMAIN qcb'[q].sent
               /\ qcb'[q].sent[qcb'[q].msgs[i].id].type = qcb'[q].msgs[i].type
    <3>1. PICK m \in 1..l : m = up[i]
      BY <1>11
    <3>2. qcb'[q].msgs[i] = qcb[q].msgs[m]
      BY <1>11, <3>1
    <3>3. /\ qcb[q].msgs[m].id \in DOMAIN qcb[q].sent
          /\ qcb[q].sent[qcb[q].msgs[m].id].type = qcb[q].msgs[m].type
      BY <1>4, <1>5 DEF QueuedWereSent
    <3> QED BY <1>9, <3>2, <3>3
  <2>2. ASSUME NEW i \in 1..(l - 1), NEW j \in 1..(l - 1), i < j
        PROVE  qcb'[q].msgs[i].id < qcb'[q].msgs[j].id
    <3>1. PICK m \in 1..l, n \in 1..l : m = up[i] /\ n = up[j] /\ m < n
      BY <1>11, <2>2
    <3>2. qcb'[q].msgs[i] = qcb[q].msgs[m] /\ qcb'[q].msgs[j] = qcb[q].msgs[n]
      BY <1>11, <3>1
    <3>3. qcb[q].msgs[m].id < qcb[q].msgs[n].id
      BY <1>4, <1>5, <3>1 DEF QueuedWereSent
    <3> QED BY <3>2, <3>3
  <2> QED BY <1>9, <2>1, <2>2 DEF QueuedWereSent
<1>15. SentAreSomewhere(q)'
  <2>1. ASSUME NEW j \in DOMAIN qcb'[q].sent, qcb'[q].sent[j].by = {} PROVE Queued(q, j)'
    <3>1. Queued(q, j)
      BY <1>1, <1>5, <1>6, <1>9, <2>1 DEF SentAreSomewhere, Pushing
    <3>2. PICK m \in 1..l : qcb[q].msgs[m].id = j
      BY <1>4, <3>1 DEF Queued
    <3>3. m # p
      BY <1>7, <1>9, <2>1, <3>2
    <3>4. PICK i \in 1..(l - 1) : up[i] = m
      BY <1>11, <3>3
    <3>5. i \in DOMAIN qcb'[q].msgs /\ qcb'[q].msgs[i].id = j
      BY <1>9, <1>11, <3>2, <3>4
    <3> QED BY <3>5 DEF Queued
  <2>2. \A j \in DOMAIN qcb'[q].sent : qcb'[q].sent[j].by # {} => \E u \in Thread : qcb'[q].sent[j].by = {u}
    BY <1>5, <1>9 DEF SentAreSomewhere
  <2>3. ASSUME NEW i \in 1..(l - 1), qcb'[q].sent[qcb'[q].msgs[i].id].by # {} PROVE FALSE
    <3>1. PICK m \in 1..l : m = up[i] /\ m # p /\ qcb[q].sent[qcb[q].msgs[m].id].by # {}
      <4>1. PICK m \in 1..l : m = up[i] /\ m # p
        BY <1>11
      <4>2. qcb'[q].msgs[i] = qcb[q].msgs[m]
        BY <1>11, <4>1
      <4> QED BY <1>9, <2>3, <4>1, <4>2
    <3>2. PICK u \in qcb[q].sent[qcb[q].msgs[m].id].by : Taking(u, q, qcb[q].msgs[m].type)
      BY <1>4, <1>5, <3>1 DEF SentAreSomewhere
    <3>3. \A j \in 1..l : qcb[q].msgs[j].type = qcb[q].msgs[m].type => m <= j
      BY <1>4, <1>5, <3>1 DEF SentAreSomewhere
    <3>4. u = t
      <4>1. qcb[q].msgs[m].id \in DOMAIN qcb[q].sent
        BY <1>4, <1>5 DEF QueuedWereSent
      <4>2. u \in Thread
        BY <1>5, <3>1, <4>1 DEF SentAreSomewhere
      <4> QED BY <1>6, <3>2, <4>2 DEF Taking
    <3>5. qcb[q].msgs[m].type = k
      BY <1>3, <3>2, <3>4 DEF Taking
    <3> QED BY <1>7, <1>8, <3>1, <3>3, <3>5
  <2> QED BY <1>9, <2>1, <2>2, <2>3 DEF SentAreSomewhere
<1>16. OldestFirst(q)'
  BY <1>5, <1>9 DEF OldestFirst
<1>17. \A r \in Qcb : QueuedWereSent(r)' /\ SentAreSomewhere(r)' /\ OldestFirst(r)'
  <2>1. ASSUME NEW r \in Qcb \ {q}
        PROVE  QueuedWereSent(r)' /\ SentAreSomewhere(r)' /\ OldestFirst(r)'
    <3>1. \A u \in Thread : pc[u] \in {"snd_push", "rcv_remove"} /\ loc[u].q = r
                              => pc'[u] = pc[u] /\ loc'[u] = loc[u]
      BY <1>2, <1>6
    <3> QED BY <1>9, <3>1, RecordKept
  <2> QED BY <1>14, <1>15, <1>16, <2>1
<1>18. ASSUME NEW r \in Qcb, NEW j \in Type
       PROVE  Served(r, j)'
  <2>1. ~ Sleeps(t, r, j)' /\ \A u \in Thread \ {t} : LookedUp(u) => LookedUp(u)'
    BY <1>1, <1>12 DEF Sleeps, LookedUp
  <2>2. Due(r, j) \ {t} \subseteq Due(r, j)' /\ \A u \in Thread : Sleeps(u, r, j)' => Sleeps(u, r, j)
    BY <1>13, <2>1, OthersDue
  <2>3. t \in Due(r, j) => r = q /\ j = k
    BY <1>1, <1>2, <1>3 DEF Due
  <2>4. CASE r = q
    <3>1. PICK M : M = OfType(q, j) \ {p}
      OBVIOUS
    <3>2. PICK S : S = OfType(q, j)'
      OBVIOUS
    <3>3. PICK f : f = [i \in S |-> up[i]]
      OBVIOUS
    <3>4. \A i \in S : i \in 1..(l - 1) /\ up[i] \in M
      BY <1>4, <1>9, <1>11, <3>1, <3>2 DEF OfType
    <3>5. f \in [S -> M]
      BY <3>3, <3>4
    <3>6. ASSUME NEW x \in S, NEW y \in S, f[x] = f[y] PROVE x = y
      <4>1. x \in 1..(l - 1) /\ y \in 1..(l - 1) /\ up[x] = up[y] /\ up[x] \in 1..l
        BY <1>11, <3>3, <3>4, <3>6
      <4>2. ~ (x < y) /\ ~ (y < x)
        BY <1>11, <4>1
      <4> QED BY <4>1, <4>2
    <3>7. f \in Injection(S, M)
      BY <3>5, <3>6, Fun_IsInj
    <3>8. t \in Due(q, j) => p \in OfType(q, j) /\ p \notin M
      BY <1>4, <1>7, <2>3, <2>4, <3>1 DEF OfType
    <3>9. M \subseteq OfType(q, j)
      BY <3>1
    <3>10. f \in Injection(OfType(q, j)', M) /\ Served(q, j)
      BY <3>2, <3>7 DEF MessagesInv
    <3> QED BY <2>2, <2>4, <3>8, <3>9, <3>10, ServedLess
  <2>5. CASE r # q
    <3>1. OfType(r, j)' = OfType(r, j) /\ Due(r, j) \subseteq Due(r, j)'
      BY <1>9, <2>2, <2>3, <2>5 DEF OfType
    <3> QED BY <2>2, <3>1, ServedKept DEF MessagesInv
  <2> QED BY <2>4, <2>5
<1> QED BY <1>1, <1>12, <1>13, <1>17, <1>18, OthersTold, BackTold DEF MessagesInv

-----------------------------------------------------------------------------
(* All steps *)

LEMMA MessagesInitInv == MqInit => MessagesInv
<1> SUFFICES ASSUME MqInit PROVE MessagesInv
  OBVIOUS
<1>1. /\ \A q \in Qcb : qcb[q].msgs = << >> /\ qcb[q].sent = << >>
      /\ \A t \in Thread : pc[t] \in {"none", "start"}
  BY DEF MqInit, FreeQcb, Init
<1>2. ASSUME NEW q \in Qcb
      PROVE  QueuedWereSent(q) /\ SentAreSomewhere(q) /\ OldestFirst(q)
  BY <1>1 DEF QueuedWereSent, SentAreSomewhere, OldestFirst
<1>3. ASSUME NEW t \in Thread
      PROVE  Sender(t) /\ Taker(t) /\ Parker(t) /\ TypeTold(t)
  BY <1>1 DEF Sender, Taker, Parker, TypeTold, ParkingPc
<1>4. ASSUME NEW q \in Qcb, NEW k \in Type
      PROVE  Served(q, k)
  BY <1>1 DEF Served, Sleeps
<1> QED BY <1>2, <1>3, <1>4 DEF MessagesInv

\* Every step whose removals are exact keeps the invariant.
LEMMA MessagesNextKeeps ==
  ASSUME MqDisciplined, MqInv, MessagesInv, [MqNext]_allVars, [WaitersRemovedExactly]_allVars
  PROVE  MessagesInv'
<1>1. CASE UNCHANGED allVars
  BY <1>1, StutterMessages
<1>2. CASE Next /\ UNCHANGED mqVars
  BY <1>2, NextMessages
<1>3. ASSUME NEW t \in Thread, MqCall(t) PROVE MessagesInv'
  BY <1>3, GetMessages, ControlMessages, SendMessages, ReceiveMessages DEF MqCall
<1>4. ASSUME NEW t \in Thread, MqContinue(t), WaitersRemovedExactly PROVE MessagesInv'
  <2>1. CASE GetStore(t) \/ SendPush(t) \/ SendWake(t) \/ SendReady(t)
    BY <1>4, <2>1, GetStoreMessages, SendPushMessages, SendWakeMessages, HandedMessages
  <2>2. CASE ReceiveRemove(t) \/ ReceiveLeave(t) \/ ReceivePark(t) \/ ReceiveType(t)
    BY <2>2, ReceiveRemoveMessages, ReceiveLeaveMessages, ReceiveParkMessages, ReceiveTypeMessages
  <2>3. CASE ReceiveEnter(t) \/ ReceiveReturn(t) \/ ReceiveRetry(t)
    BY <2>3, ReceiveEnterMessages, ReceiveReturnMessages, ReceiveRetryMessages
  <2>4. CASE ControlPop(t) \/ ControlPush(t) \/ ControlFree(t)
    BY <2>4, ControlPopMessages, HandedMessages, ControlFreeMessages
  <2> QED BY <1>4, <2>1, <2>2, <2>3, <2>4 DEF MqContinue
<1> QED BY <1>1, <1>2, <1>3, <1>4 DEF MqNext

\* In every run whose removals are exact the whole invariant holds.
THEOREM MessagesInvariantHolds ==
  ASSUME MqDisciplined
  PROVE  MqExactSpec => []MessageQueueInv
<1>1. MqInit => MqInv /\ MessagesInv
  BY MqInitInv, MessagesInitInv
<1>2. MqInv /\ MessagesInv /\ [MqNext]_allVars /\ [WaitersRemovedExactly]_allVars => (MqInv /\ MessagesInv)'
  BY MqNextKeeps, MessagesNextKeeps
<1>3. MqInv /\ MessagesInv <=> MessageQueueInv
  BY DEF MessageQueueInv
<1> QED BY <1>1, <1>2, <1>3, PTL DEF MqSpec, MqExactSpec

-----------------------------------------------------------------------------
(* What the invariant means *)

\* Where a Qcb holds a message: at one place at most.
LEMMA OnePlaceInQueue ==
  ASSUME MqInv, MessagesInv, NEW q \in Qcb, NEW n,
         NEW C, C = {i \in DOMAIN qcb[q].msgs : qcb[q].msgs[i].id = n}
  PROVE  /\ Queued(q, n) => Cardinality(C) = 1
         /\ ~ Queued(q, n) => Cardinality(C) = 0
<1>1. PICK l \in Nat : DOMAIN qcb[q].msgs = 1..l
  BY QcbTyped
<1>2. \A i \in 1..l : qcb[q].msgs[i].id \in Nat
  <2>1. \A i \in 1..l : qcb[q].msgs[i] \in Message
    BY <1>1, QcbTyped
  <2> QED BY <2>1 DEF Message
<1>3. \A i, j \in 1..l : i < j => qcb[q].msgs[i].id < qcb[q].msgs[j].id
  BY <1>1 DEF MessagesInv, QueuedWereSent
<1>4. CASE Queued(q, n)
  <2>1. PICK i \in 1..l : qcb[q].msgs[i].id = n
    BY <1>1, <1>4 DEF Queued
  <2>2. \A j \in 1..l : qcb[q].msgs[j].id = n => j = i
    BY <1>2, <1>3, <2>1
  <2>3. C = {i}
    BY <1>1, <2>1, <2>2
  <2> QED BY <1>4, <2>3, FS_Singleton
<1>5. CASE ~ Queued(q, n)
  <2>1. C = {}
    BY <1>5 DEF Queued
  <2> QED BY <1>5, <2>1, FS_EmptySet
<1> QED BY <1>4, <1>5

\* A message that was sent is in its queue once, in its sender's hands, or received
\* by one thread; that is MessagesConserved.
LEMMA NoMessageLost == ASSUME MqInv, MessagesInv PROVE MessagesConserved
<1> SUFFICES ASSUME NEW q \in Qcb, NEW id \in 1..MaxSends, id \in DOMAIN qcb[q].sent
             PROVE  LET m == qcb[q].sent[id]
                        copies == Copies(q, id)
                        sending == \E t \in Thread :
                                     pc[t] = "snd_push" /\ loc[t].q = q /\ loc[t].what.id = id
                        removing == \E t \in m.by :
                                      pc[t] = "rcv_remove" /\ loc[t].q = q /\ loc[t].what = m.type
                    IN /\ m.by = {} => copies = IF sending THEN 0 ELSE 1
                       /\ m.by # {} => /\ Cardinality(m.by) = 1
                                       /\ copies \in (IF removing THEN {0, 1} ELSE {0})
  BY DEF MessagesConserved
<1>1. PICK m : m = qcb[q].sent[id]
  OBVIOUS
<1>2. PICK c : c = Copies(q, id)
  OBVIOUS
<1>3. (Queued(q, id) => c = 1) /\ (~ Queued(q, id) => c = 0)
  <2>1. c = Cardinality({i \in DOMAIN qcb[q].msgs : qcb[q].msgs[i].id = id})
    BY <1>2 DEF Copies, Number
  <2> QED BY <2>1, OnePlaceInQueue
<1>4. SentAreSomewhere(q) /\ QueuedWereSent(q)
  BY DEF MessagesInv
<1>5. ASSUME m.by = {}
      PROVE  c = IF \E t \in Thread : pc[t] = "snd_push" /\ loc[t].q = q /\ loc[t].what.id = id
                 THEN 0 ELSE 1
  <2>1. CASE \E t \in Thread : pc[t] = "snd_push" /\ loc[t].q = q /\ loc[t].what.id = id
    <3>1. PICK t \in Thread : pc[t] = "snd_push" /\ loc[t].q = q /\ loc[t].what.id = id
      BY <2>1
    <3>2. ~ Queued(q, id)
      <4>1. PICK n : n = Len(qcb[q].sent)
        OBVIOUS
      <4>2. loc[t].what = [type |-> qcb[q].sent[n].type, id |-> n] /\ ~ Queued(q, n)
        BY <3>1, <4>1 DEF MessagesInv, Sender
      <4>3. n = id
        BY <3>1, <4>2
      <4> QED BY <4>2, <4>3
    <3> QED BY <1>3, <2>1, <3>2
  <2>2. CASE ~ \E t \in Thread : pc[t] = "snd_push" /\ loc[t].q = q /\ loc[t].what.id = id
    <3>1. Queued(q, id)
      BY <1>1, <1>4, <1>5, <2>2 DEF SentAreSomewhere, Pushing
    <3> QED BY <1>3, <2>2, <3>1
  <2> QED BY <2>1, <2>2
<1>6. ASSUME m.by # {}
      PROVE  /\ Cardinality(m.by) = 1
             /\ c \in (IF \E t \in m.by : pc[t] = "rcv_remove" /\ loc[t].q = q /\ loc[t].what = m.type
                       THEN {0, 1} ELSE {0})
  <2>1. PICK t \in Thread : m.by = {t}
    BY <1>1, <1>4, <1>6 DEF SentAreSomewhere
  <2>2. Cardinality(m.by) = 1
    BY <2>1, FS_Singleton
  <2>3. Queued(q, id) => \E u \in m.by : pc[u] = "rcv_remove" /\ loc[u].q = q /\ loc[u].what = m.type
    <3> SUFFICES ASSUME Queued(q, id)
                 PROVE  \E u \in m.by : pc[u] = "rcv_remove" /\ loc[u].q = q /\ loc[u].what = m.type
      OBVIOUS
    <3>1. PICK i \in DOMAIN qcb[q].msgs : qcb[q].msgs[i].id = id
      BY DEF Queued
    <3>2. qcb[q].msgs[i].type = m.type
      BY <1>1, <1>4, <3>1 DEF QueuedWereSent
    <3>3. \E u \in m.by : Taking(u, q, m.type)
      BY <1>1, <1>4, <1>6, <3>1, <3>2 DEF SentAreSomewhere
    <3> QED BY <3>3 DEF Taking
  <2>4. c = 0 \/ (c = 1 /\ Queued(q, id))
    BY <1>3
  <2>5. CASE c = 0
    BY <2>2, <2>5
  <2>6. CASE c = 1 /\ Queued(q, id)
    BY <2>2, <2>3, <2>6
  <2> QED BY <2>4, <2>5, <2>6
<1> QED BY <1>1, <1>2, <1>5, <1>6

\* Messages of a type are received in the order of sending; that is InOrder.
LEMMA MessagesInOrder == ASSUME MqInv, MessagesInv PROVE InOrder
<1> SUFFICES ASSUME NEW q \in Qcb, NEW i \in 1..MaxSends, NEW j \in 1..MaxSends,
                    i < j, j <= Len(qcb[q].sent), qcb[q].sent[i].type = qcb[q].sent[j].type,
                    qcb[q].sent[j].by # {}
             PROVE  qcb[q].sent[i].by # {}
  BY DEF InOrder
<1>1. i \in DOMAIN qcb[q].sent /\ j \in DOMAIN qcb[q].sent
  BY QcbTyped
<1> QED BY <1>1 DEF MessagesInv, OldestFirst

\* Nobody sleeps for a type of which a message is left to it; that is NoOversleep,
\* which Served implies.
LEMMA NobodyMissed == ASSUME MqInv, MessagesInv PROVE NoOversleep
<1> SUFFICES ASSUME NEW s \in Existing, NEW k \in Type,
                    NEW q, q = tbl[s].pQcb,
                    NEW about,
                    about = {t \in Thread : loc[t].q = q /\
                               \/ /\ pc[t] \in {"rcv_wait", "rcv_retry", "rcv_remove"}
                                  /\ loc[t].what = k /\ t \notin parked
                               \/ pc[t] = "snd_wake" /\ loc[t].what.type = k},
                    NEW t \in Members(qcb[q].waiters, link), type[t] = k, pc[t] = "rcv_wait"
             PROVE  Cardinality(OfType(q, k)) <= Cardinality(about)
  BY DEF NoOversleep, Number, OfType
<1>1. q \in Qcb
  BY SlotUsed DEF Existing
<1>2. t \in Thread /\ t \in parked /\ loc[t].q = q
  <2>1. t \in Listed(q) /\ Listed(q) \subseteq parked /\ parked \subseteq Thread
    BY <1>1 DEF Listed, MqInv, MqQueues, MqTypeOK
  <2> QED BY <1>1, <2>1, ListedAre
<1>3. loc[t].what = k
  BY <1>2 DEF MessagesInv, TypeTold
<1>4. Cardinality(OfType(q, k)) <= Cardinality(Due(q, k))
  BY <1>1, <1>2, <1>3 DEF MessagesInv, Served, Sleeps
<1>5. Due(q, k) \subseteq about
  <2>1. \A u \in parked : pc[u] # "rcv_remove"
    BY DEF MqInv, MqPlaces
  <2> QED BY <2>1 DEF Due
<1>6. Cardinality(Due(q, k)) <= Cardinality(about) /\ Cardinality(about) \in Nat
  <2>1. about \in SUBSET Thread /\ IsFiniteSet(Thread)
    BY SchedulerAssumption
  <2>2. IsFiniteSet(about)
    BY <2>1, FS_Subset
  <2> QED BY <1>5, <2>2, FS_Subset, FS_CardinalityType
<1> QED BY <1>1, <1>4, <1>6, DueFinite, OfTypeFinite

\* Every message that is sent is received once or is still queued, once: the
\* copy and the removal of mymsgrcv meet the same message.
THEOREM MessagesAreConserved ==
  ASSUME MqDisciplined
  PROVE  MqExactSpec => []MessagesConserved
<1>1. MessageQueueInv => MessagesConserved
  BY NoMessageLost DEF MessageQueueInv
<1> QED BY <1>1, MessagesInvariantHolds, PTL

\* mymsgrcv hands out the messages of one type in the order of mymsgsnd.
THEOREM MessagesKeepOrder ==
  ASSUME MqDisciplined
  PROVE  MqExactSpec => []InOrder
<1>1. MessageQueueInv => InOrder
  BY MessagesInOrder DEF MessageQueueInv
<1> QED BY <1>1, MessagesInvariantHolds, PTL

\* Nobody sleeps in a waiting list beside a message of its type that no
\* receiver is awake for and no sender is about to wake somebody for.
THEOREM NobodyOversleeps ==
  ASSUME MqDisciplined
  PROVE  MqExactSpec => []NoOversleep
<1>1. MessageQueueInv => NoOversleep
  BY NobodyMissed DEF MessageQueueInv
<1> QED BY <1>1, MessagesInvariantHolds, PTL

\* Where at most three threads receive, all this holds whatever waiting
\* threads are taken from.
THEOREM FewReceiversMissNothing ==
  ASSUME MqDisciplined, Cardinality(Receivers) <= 3
  PROVE  MqSpec /\ [][MessagesRemovedExactly]_allVars
           => [](MessagesConserved /\ InOrder /\ NoOversleep)
<1>1. MqInit => MqInv /\ MessagesInv
  BY MqInitInv, MessagesInitInv
<1>2. MqInv /\ MessagesInv /\ [MqNext]_allVars => (MqInv /\ MessagesInv)'
  <2> SUFFICES ASSUME MqInv, MessagesInv, [MqNext]_allVars PROVE (MqInv /\ MessagesInv)'
    OBVIOUS
  <2>1. WaitersRemovedExactly
    BY FewReceivers
  <2> QED BY <2>1, MqNextKeeps, MessagesNextKeeps
<1>3. MqInv /\ MessagesInv => MessagesConserved /\ InOrder /\ NoOversleep
  BY NoMessageLost, MessagesInOrder, NobodyMissed
<1> QED BY <1>1, <1>2, <1>3, PTL DEF MqSpec
=============================================================================
