# LinuxEx: specifications, model checking and proofs

This directory specifies the programs of the LinuxEx repository whose
behaviour is worth stating: the user-level thread scheduler with its message
queues (`src/scheduler2`) and the file system on a simulated disk
(`src/disk2`).  TLC checks the specifications on small instances; TLAPS proves
theorems about them for every instance.

    tlc -config SchedulerJoin.cfg MCScheduler.tla       one run
    tlapm ReadyQueueProofs.tla                          one module of proofs

`PROJECT.json` lists the components, the runs with their properties, the
mutants that show each property can fail, the source lines every definition
stands for, the findings, the hazards and the theorems.

## 1. Inventory

### The thread library and scheduler: `src/scheduler2`

| part | state | operations |
|---|---|---|
| queues (`Thread.c` 259-562) | `ReadyQHead/Tail`, `WaitQHead/Tail`, `JoinQHead/Tail`; `pPrev`, `pNext` inside the nodes | `rq_push`, `rq_search`, `rq_remove`, `rq_pop`, and the same for `wq_`, `jq_` |
| threads (`Thread.c` 8-257) | a TCB per thread (`bRunnable`, `readyMutex`, `readyCond`, `parentTid`, `pExitCode`), a join structure per thread (`parentTid`), `is_pushed` with `static_mutex` and `static_cond` | `thread_create`, `__wrapperFunc`, `thread_join`, `thread_exit`, `thread_suspend`, `thread_resume`, `__thread_wait_handler` (a function and the handler of `SIGUSR1`), `__getThread`, `__thread_wakeup` |
| scheduler (`Scheduler.c`) | `RunQHead`, the locals `pCurThread`, `pNewThread` | `RunScheduler`, `__ContextSwitch`, once a second |
| message queues (`MsgQueue.c`) | a table of 32 (key, Qcb); per Qcb a list of messages and a list of waiting TCBs | `mymsgget`, `mymsgsnd`, `mymsgrcv`, `mymsgctl` |

The threads are pthreads of one process; the scheduler is the main pthread.
All share the queues, and nothing but `bRunnable` and `is_pushed` is under a
lock.  A thread runs while the kernel runs it: what keeps threads apart is that
the scheduler stops one (`bRunnable = false`, then `SIGUSR1`, whose handler
waits on the TCB's condition variable) before it wakes the next.  Hard here:
ticks that land inside a call, the asynchronous signal, nodes moving between
queues through shared link fields, the create handshake, join against exit,
and receive against send.

What makes it correct: each live thread is in exactly one place; the pointers
of a queue hold what was pushed and not taken, in order; one thread at most
executes; turns are round robin; joins return the child's exit code; nothing
freed is referred to; creates, joins and ready threads get on.

### The file system: `src/disk2`

| part | state | operations |
|---|---|---|
| driver (`disk.c`) | the file `MY_DISK`: 512 blocks of 64 bytes | `DevReadBlock`, `DevWriteBlock`, create, open, close |
| mount (`mount.c`) | `pFileSysInfo` | `Mount` (format or read-write), `Unmount` |
| allocation (`fs.c` 32-53, 837-922) | bitmaps of blocks and inodes, 64 inodes of two direct pointers and an indirect one, counters in block 0 | `SetBlockBitmap`, ..., `PutInode`, `GetFreeBlockNum`, `GetFreeInodeNum` |
| directories (`fs.c` 62-809) | blocks of four entries (name, inode) | `findName`, `myMakeDir`, `myMakeFile`, `myRemoveFile`, `myRemoveDir` |
| calls (`fs.c` 924-1522) | a table of 64 descriptors | `OpenFile`, `WriteFile`, `ReadFile`, `CloseFile`, `RemoveFile`, `MakeDir`, `RemoveDir`, `EnumerateDirStatus` |
| test program (`testcase.c`) | the descriptors of a test case | four test cases, each run in a process of its own on what the last one left |

One process uses the disk at a time, and its calls are sequential.  The disk
outlives the process.  Hard here: a call makes up to dozens of writes, and a
process can die between any two; nothing repairs the disk at the next mount;
long sequences of calls grow and shrink directories and files across the
boundary between direct and indirect pointers, and reuse blocks and inodes;
inodes and counters are changed in copies which may not reach the disk.

What makes it correct: a block has one owner; the bitmaps cover what the tree
reaches; the tree is a tree, with `.` and `..` right; a descriptor is of a file
that is there; nothing is lost; and calls do to files and directories
what their names say.

### The rest

`src/scheduler` is an earlier version of `src/scheduler2` (the same `Thread.c`
but for its traces) with a draft, `Thread2.c`.  `src/disk` is the bitmap and
inode layer that `src/disk2` grew from.  `server.c` and `client.c` transfer a file
over TCP.  `minishell` is a line editor with a history that runs commands;
`ex*.c`, `cmake` and the shell scripts are course exercises.

## 2. Modules

| module | what it is |
|---|---|
| `LinkedQueue` | the intrusive queues' operations as operators on (head, tail) and (next, prev), and what it means that pointers hold a sequence |
| `LinkedQueueProofs` | lemmas: what push, pop, remove and a search do to and find in the sequence, for any length, with other queues on the same links |
| `ReadyQueue`, `ReadyQueueProofs` | one queue under all sequences of operations; proofs |
| `RoundRobin` | the abstract scheduler: a ready sequence, a running thread, blocked threads |
| `RoundRobinTurns` | the same with a record of who overtook whom; turns are fair |
| `Scheduler` | the thread library and the scheduler at pointer level, one step per queue operation |
| `SchedulerProperties` | its invariants, liveness properties and the refinement mapping |
| `SchedulerInvariant` | the inductive invariant behind `SchedulerProperties`, which TLC checks too |
| `SchedulerProofs` | the proofs: types and where pointers lead, for every instance; that invariant, the properties and the refinement of `RoundRobin` |
| `MsgQueue` | the message queues, on top of `Scheduler` (which it extends) |
| `MsgQueueProperties` | their invariants, together with the scheduler's |
| `MsgQueueInvariant` | the inductive invariant behind them, which TLC checks too |
| `MsgQueueProofs` | the proof of its first half, `MqInv`, and of those properties that say where threads and Qcbs are |
| `MessageProofs` | the proof of its second half, `MessagesInv`, and of those properties that say what becomes of messages |
| `Disk` | the disk, the writes and the allocation from bitmaps |
| `Directory` | looking up, making and removing entries, as the sequence of the writes each makes |
| `FileSystem` | the calls, mounting, and processes that die between two writes |
| `NameSpace` | the abstract file system: a tree, open files, and what each call promises |
| `AbstractionProofs` | the proofs about the two abstract specifications, `RoundRobinTurns` and `NameSpace` |
| `FileSystemProperties` | the invariants of `FileSystem` and its refinement of `NameSpace` |
| `FileSystemInvariant` | the inductive invariant behind them, which TLC checks too |
| `DirectoryProofs` | lemmas: what sequences of writes do to the disk, what the searches of `fs.c` find, who owns a block, when entries are a tree, what making an entry leads to |
| `FileSystemProofs` | the proofs, for every geometry: descriptors, types, what every call leads to, that invariant, and the properties |
| `TestProgram` | `testcase.c` as a program of calls of `FileSystem` |
| `MCScheduler`, `MCMsgQueue`, `MCFileSystem` | sets of calls, paths and the symmetries for TLC |

`MsgQueue` extends `Scheduler`; `FileSystem` extends `Directory`, which extends
`Disk`; `DirectoryProofs` holds what is proved of `Disk` and `Directory` with the
invariant in view, `FileSystemProofs` extends it; `TestProgram` composes the test cases with `FileSystem`.

### How `Scheduler` corresponds to the code

A thread is its own TCB and its own join structure, so `tcb[t]`, `jcb[t]`,
`link.next[t]` are `TCB(t)->...`.  `pc[t]` is the next statement of the call
that t is in; `arg[t]` is the call's argument or the pointer it has looked up.

| action | code |
|---|---|
| `Create`, `CreateCheck` | `thread_create`: `pthread_create`; the loop on `is_pushed` and the store of `parentTid` |
| `WrapTcb` ... `WrapRun` | `__wrapperFunc`: the TCB is queued, the join structure is queued, `is_pushed`, the signal, entering and leaving the wait |
| `Join` ... `JoinFree` | `thread_join`: lookups and `RunQHead = NULL`; `wq_push`; the look at the join structure; the wait; reading the exit code; the removals and `free` |
| `Exit` ... `ExitCode` | `thread_exit`: lookups; `wq_remove`; `rq_push`; or the mark in the join structure; the exit code |
| `Suspend`, `SuspendPush`, `Resume`, `ResumePush` | the two moves between queues, each in two steps |
| `SchedRead`, `SchedPreempt`, `SchedDispatch`, `SchedSet` | the loop's reads; the stores, the signal and `rq_push`; `rq_pop` and the wakeup; the store to `RunQHead` |
| `TakeSignal`, `HandlerReturn` | `SIGUSR1` arrives at a thread; its handler returns |

### How `MsgQueue` corresponds to the code

`tbl` is `qcbTblEntry`; `qcb[q]` is the memory of a Qcb, which `GetStore`
allocates and `ControlFree` frees, so that a new queue may get the memory of an
old one.  A message is its type and its number in its queue.  Waiting lists
are linked through `link`, the TCBs' own `pNext` and `pPrev`; `parked` is the
set of threads that `tq_all_search` finds in them, which `getThread` consults.

| action | code |
|---|---|
| `Get`, `GetStore` | `mymsgget`: the search for an unused entry; the new Qcb and the stores to the entry |
| `Send`, `SendPush`, `SendWake`, `SendReady` | `mymsgsnd`: the lookup; `mq_push`; `tq_remove`; `rq_push` |
| `Receive`, `ReceiveRemove` | `mymsgrcv`: the lookup and search; the copy and `mq_remove` |
| `ReceiveLeave`, `ReceivePark`, `ReceiveType`, `ReceiveEnter`, `ReceiveReturn` | no message: `RunQHead = NULL`; `tq_push`; the stores to the TCB; the wait |
| `ReceiveRetry` | the second look, in the Qcb the slot holds then |
| `Control`, `ControlPop`, `ControlPush`, `ControlFree` | `mymsgctl`: the tests; the waiting threads one by one; `free` and the entry |

Calls that change nothing (a key that exists, a full table, an empty slot, a
queue that is not empty) are left out: they would only stutter.  The messages
of a Qcb are a sequence: `mq_remove` has the removal of the other queues, right
for queues of up to three, and the run's `MaxSends` is below that; the theorems, which
allow more, ask for right removals (`MessagesRemovedExactly`).

Assumptions about `Scheduler` and `MsgQueue`:

- A queue operation is one step.  The code takes no lock there, so this is an
  assumption about where a thread is stopped, not a fact (section 6).
- `readyMutex` only makes tests and stores of `bRunnable` atomic, which single
  steps are already.  `status` is never read and left out.
- Following a NULL pointer ends the process: `crashed`.
- A program joins its own children, each once; it suspends threads in the ready
  queue and resumes threads that were suspended.  Constants open more:
  `JoinExited`, `SuspendFresh`.
- `Ticks` says where a tick may land.  A tick comes once a second and a call
  takes microseconds, so `"between_calls"` is the behaviour nearly always seen;
  `"in_calls"` lets it land at any statement, after the signals and wakeups of
  the tick before have arrived; `"anywhere"` assumes nothing.

### How `FileSystem` corresponds to the code

`disk` is `MY_DISK`: `disk.inode[i]` the inode list, `disk.blk[b]` a block of the
data region by what was written to it (entries, pointers, data, zeros),
`disk.blockMap` and `disk.inodeMap` the set bits, `disk.info` the counters.
`fds` is `pFileDescTable`.  Every write of the code is a record (`WriteBlock`,
`PutInode`, `SetBlockBitmap`, `Count`, ...), every handler a sequence of them
in the code's order, and `After(d, ws, n)` the disk after the first n.  A
call either makes all its writes and returns, or the process dies after some
(`DieIn`): the descriptors are gone, the next process mounts what is there.

| definition | code |
|---|---|
| `findName`, `Walk` | the search of a name, of a path; the place that was found stays in the caller's variables |
| `GrowDir`, `RoomFor` | the first halves of `myMakeDir` and `myMakeFile`: `direct[2]`, the indirect block, all slots left in it |
| `myMakeDir`, `myMakeFile` | entry, child's block, inode, bits, counters |
| `FreeFile`, `myRemoveFile`, `IsEmptyDir`, `ShrinkIndirect`, `myRemoveDir` | the removals |
| `ClearEntry` | the entry cleared, then the block's last entry moved to its place |
| `PutBlocks`, `WriteFile` | a write: per block the pointer block, the block, the data; the counters |
| `FormatWrites`, `MountFormat`, `MountReadWrite`, `Unmount` | `Mount`, `Unmount` and the end of the process |

Two assumptions are made of the constants.  `DirectoryAssumption`: a directory has
entries for all inodes and its two dots (the code's 64 inodes and 72 entries), so
that the search for a place in a directory ends in one.  `PathAssumption`: names of paths are
not empty, not `.` or `..`, and not the "?" that a block without entries reads as; the test
programs use no such names.

The inputs are those of a caller like `testcase.c` (`Calling`, `AskedAs`, `Room`,
`NoDescriptorOf`): descriptors come from `OpenFile`, calls for files are not
made on directories, a file is closed before it is removed, blocks, inodes and
descriptors suffice, lengths are rounded up to blocks as the code does it, so
that offsets are at block boundaries.  A write that starts again at the front
is no longer than the direct blocks.  Outside that the
code does what memory happens to hold (`GetFreeBlockNum` without a return,
pointers from beyond the buffer), which is listed under hazards.

Behaviour of the code that the model keeps, and `NameSpace` states:

- A path whose first name is missing has that name made, whatever follows it.
- Every block of a long write gets what the buffer begins with.
- A file of the root directory is never removed while a descriptor is unused.
- A path of two or more names that is there already is looked up one name too
  far: the call fails or the process dies (`LookPastEnd`).
- Reading behind the end of a file follows the zero pointer: to block 0, or, when
  there is no indirect block, to the blocks that the integers of block 0 name (`InfoPtrs`):
  behind the end of the disk, where the buffer stays as it was, a block of the
  file system's own, or the root's entries.
- `Mount` formats in many writes, and a process may die after any of them
  (`FormatWrites`): in the zeros, before the root has its bit, before it has its inode.

`damage` is a history variable.  `"shrunk"`: a directory has given a block back
(and goes on linking it, see the findings); `"torn"`: a process died between two
writes.  `Beyond` names the damage after which calls go on.

Two translations were checked outside TLC: after each of the four test
runs the model's disk (counters, bitmaps, inodes and all 493 data blocks) equals, byte
for byte, the `MY_DISK` that the compiled program leaves.

## 3. Runs

| run | instance | shows |
|---|---|---|
| `ReadyQueue` | 5 TCBs | a queue's pointers hold its sequence; removal is right exactly at the ends and in a queue of three |
| `RoundRobinTurns` | 4 threads | one place each; nobody gets a second turn while another waits |
| `SchedulerJoin` | 4 threads, create/join/exit/return, ticks between calls | all invariants, and refinement of `RoundRobin` |
| `SchedulerSuspend` | 4 threads, one creator, create/suspend/resume/exit | `SchedulerOK` and refinement |
| `SchedulerSliced` | 3 threads, one creator, ticks in calls, fair slices | the create handshake is right at every interleaving, keeps the inductive invariant and terminates |
| `SchedulerFair` | 3 threads, ticks between calls, fair kernel | the inductive invariant; ready threads run; joins of children that exit return |
| `MsgQueue` | 3 threads, 2 slots, keys, types and Qcbs, 2 messages in all queues at a time, ticks between calls | messages are conserved and in order, waiters are not forgotten, links are shared safely, the table is right; the inductive invariant |
| `ExitPreempted` | 2 threads, ticks in calls | **violated**: a join returns an exit code that is not stored yet |
| `ReceiveStolen` | 3 threads, one queue that is never removed | **violated**: a woken receiver finds its message taken |
| `FileTree` | 7 blocks, 5 inodes, 2 entries or pointers a block, one descriptor, a directory with three names, deaths between any two writes, of a format too | all invariants of the file system and the inductive one behind them, and refinement of `NameSpace` |
| `FileTests` | the real geometry, the four test cases | the test cases pass, blocks have one owner, nothing is lost but the blocks of removed directories, refinement of `NameSpace` |
| `DirectoryShrinks` | as `FileTree`, no deaths | **violated**: a block a directory gave back is still linked |

Bounds.  Four threads give a ready queue of three behind a running thread,
the longest queue on which every removal of the code is right, with removals
at its head, in its middle and at its tail; two children and a grandchild, or
three children of one parent; and a parent that waits while two others
rotate.  With five threads an inner removal breaks a queue of four:
`RemovalExact` and the lemma `RemoveElsewhereLosesNodes` say so for every
length, so nothing is gained by running into it again.  The join queue does reach four
nodes, since main's first thread stays in it; there the broken pointers lose the structure of
the first thread only, which no one joins, so `ChildrenJoinable` is stated in
place of well-linkedness.  Every thread is created once; TLC's runs have no
other bound.

In `MsgQueue` two receivers compete for a message and wait in one list for
different types, or in two queues; two messages are the fewest with an order;
two Qcbs for two slots, freed and made again without bound.  The first thread
makes and removes the queues and never receives, so that some thread is always
ready: with everyone waiting the scheduler dispatches NULL.  Threads other than
the first, keys and types are interchangeable, hence the symmetry.

Fairness.  The kernel schedules all pthreads, so the scheduler and every
thread inside a call get on (weak fairness of `RunScheduler`, `Continue(t)`
and `Handler(t)`).  Nothing is assumed of what programs call.  With ticks
inside calls a thread is disabled over and over by being preempted, and
`SlicedSpec` uses strong fairness: a slice is a second and a call is short, so
a thread that is given slices for ever finishes its call.

`FileTree`.  With two entries a block, `.` and `..` fill a directory's
first block, two names its second, and the third name needs the indirect
block; a file of three or four blocks uses its indirect block too; two buffers
tell what was written from what was there (nothing depends on which is which, hence the
symmetry).  Seven blocks are the root's, the
directory's four and its pointer block, and one more, or the
directory's three and a file's four: files and directories compete for blocks and reuse them.
Five inodes are the root, the directory and three names.  `/a` may be a
file or a directory, so that its inode and blocks change kind.  One descriptor
is enough for offsets; `FileTests` has four open at once.  After a death in a
call or a directory's shrinking no more calls are made (`Beyond = {}`),
except for a new format: `BlocksOwnedOnce`, the types, `LosesNothingElse` and the
refinement still hold for the disk left behind, but a torn
disk may well be damaged further by what follows.  `CountsBlocks = FALSE` leaves
out the numbers of blocks, which the code lets drift without bound and never reads.

`LosesNothingElse` says which inodes and blocks a step may leave marked without a path to
them.  Blocks only, of two kinds.  `LostByRemoval`: a directory that is removed (`fs.c` 690 zeroes its
inode before 694 reads the block's number from it) leaves its block marked; one that has
grown and shrunk leaves all it still links, as `/etc` does in `FileTests`.  `LostByFormat`: a format
that dies after it set the bit of the root's block (`mount.c` 48) and before it wrote the
root's inode (58).  Without either exception TLC finds the property violated.

`FileTests` is one behaviour of 417 steps, on the real geometry and with
`CountsBlocks` and `Beyond = {"shrunk"}`: the test cases do shrink `/etc` and remove it
then.  Deadlock is checked, so every call of the test program is one the
model allows.

Other settings of the constants lead to known failures.  A directory that gives back a
block behind its indirect pointer may leave a hole before other blocks (`fs.c` 767:
`if(i > moveToIndex)` with `moveToIndex` from 0, so that an emptied last slot gets an earlier
pointer).  A search stops at the hole, and the names behind it are gone until
the hole is filled.  This takes three pointers a block:
with `PtrsPerBlock = 3`, `NumInodes = 8`, `NumBlocks = 15`, and six directories and a file in
the root, TLC's simulation finds `DescriptorsLive` violated, and `LosesNothingElse` and
`ImplementsNameSpace` fail with it.  The compiled program does the same on the real disk: make 16
directories in `/etc`, remove the last, then remove and remake the eleventh a dozen times,
and the indirect block reads `29 0 34 0 ...`.  `FileTree` and `FileTests` do not get there.

Others are found by TLC in seconds: suspending a thread
and joining it with nothing left in the ready queue dispatches NULL (calls
`create`, `suspend`, `join`; `NoCrash`); `SuspendFresh` lets a new thread's
own lookup fail between the two halves of a suspend (`NoCrash`); `JoinExited`, two
threads, ends with a joiner of an exited child running on from the wait queue, with
`RunQHead` NULL (`RunQHeadTracksRunner`; `Thread.c` 98-103); several `Creators`
and `Ticks = "in_calls"`, three threads, end with one creator taking the other's `is_pushed` and
looking up a child that is in no queue (`NoCrash`; `Thread.c` 79-81); `Ticks =
"anywhere"` puts a thread that joins while it is being stopped into two queues
(`OnePlaceEach`).

## 4. Proofs

- `LinkedQueueProofs`: for any sequence s of nodes that the pointers hold, with
  all other nodes unlinked, a push gives the pointers of `Append(s, n)`, a pop
  those of `Tail(s)`, a removal at an end or in a queue of three those of s
  without the node; at any other position it does not.  `SearchFinds`: following
  `next` from the head finds s (`WalkFollows`).  The ready and the wait queue are
  threaded through the same links, so all this is said again of one queue among
  others (`PushShared` to `TwoQueues`): the operations read and write the
  links of its own nodes only.  The assumptions are that NULL is not a node and,
  for `Walk`, that nodes are finitely many.
- `ReadyQueueProofs`: hence `TypeOK /\ QueueOK` is inductive (one lemma per
  action), and `RemovalExact` holds in every reachable state.
- `AbstractionProofs`, `RoundRobinTurns`: the inductive invariant is `RRTypeOK /\ OnePlace /\
  PassedAreBehind`.  `NoSecondTurn` alone is not inductive: one has to know that
  a thread which overtook another is behind it whenever both are ready
  (`PassedAreBehind`), for which in turn a thread must be in the queue once
  (`OnePlace`).  All three properties are theorems: `PlacesAreDisjoint`,
  `OvertakersStandBehind`, `TurnsAreFair`.
- `SchedulerProofs`, first part: `TypeCorrect` and `NoWildPointers`, for any set of
  threads, any calls and ticks at any statement, from `SchedulerAssumption`
  alone.  `TypeOK` is not inductive: `thread_exit` stores to and queues what it
  reads through `RunQHead` and `parentTid`, so the invariant adds that queues,
  links, `RunQHead` and the scheduler's variables lead to threads whose TCB has
  been made (`PointersLead`), that parents do (`ParentsLead`), that a thread
  has a TCB from its first step in `__wrapperFunc` on (`MadeByWrapper`), and
  what each call in progress has found (`ArgsLead`).  Frame lemmas (`Advance`,
  `Stay`, `SamePointers`) carry what a step leaves alone, then there is one
  lemma per action.
- `SchedulerProofs`, second part: the safety properties of `SchedulerProperties` and
  the refinement of `RoundRobin`, see below.
- `FileSystemProofs`: `DescriptorsAlwaysSound`, from `GeometryAssumption` and
  `FileSystemAssumption`.  The invariant adds that the table has a row for every descriptor and
  every row is one (`Row`), without which an update says nothing; there is one lemma per
  call, over the two ways calls end.  `TypesAlwaysOK` needs that descriptors lead to
  inodes and that what a call writes is a write of the disk (`Writes`): above all,
  that the n-th free block it asks for is there (`Room`).
- `FileSystemProofs`, the rest, and `DirectoryProofs`: what the disk holds, see below.
- `AbstractionProofs`, `NameSpace`: `TreeAlwaysSound`, from
  `NameSpaceAssumption` (every path has the ways to it), which `FileSystemProperties` assumes of
  its instance, where TLC evaluates it.  It is not inductive alone: that writes concern files needs that open files
  are there (`OpenFilesThere`).  That in turn rests on callers who close files before they remove
  them, the guard of `RemoveFile`, which `fs.c` 1324-1330 does not enforce, so it is part of
  the invariant and no result of its own.  Two lemmas, for a
  node added or changed and for one taken away, serve all calls and the
  deaths in them.

### The scheduler

`InvariantHolds` says that `SchedulerInv` holds in every state, for any finite
set of threads, of a program that keeps to two conditions.

`Disciplined` restricts the constants to the uses under which the properties
hold at all; section 3 lists the known failure behind each restriction.  Nobody joins
a child that has exited (`Thread.c` 98-103 leaves the joiner running in the
wait queue) or suspends a thread that has not waited yet.  With ticks
between calls a program does not use `join` and `suspend` both (a resume
would wake a joiner whose child has not exited).  With ticks inside calls it
only creates and exits, and one thread creates all others (`is_pushed` is one flag).
`Ticks = "anywhere"` is left out.

`RemovalsExact` says that a step which removes a thread from a queue does so at a
position the code handles: `ExactSpec == Spec /\ [][RemovalsExact]_vars`.
It cannot be dropped, since `RemoveElsewhereLosesNodes` proves that every other
removal breaks the queue.  `SafeProgramsAreExact` shows that it holds of its own accord
under `SafeRemovals`: at most three threads; at most four without `join`; or any number
without `join`, `suspend` and `resume`.  For those, `SafeProgramsAreSafe` gives
the properties and the refinement under `Spec` itself.  `SchedulerSuspend`,
`SchedulerSliced` and `SchedulerFair` are instances of it.  `SchedulerJoin`, four threads that join, is
not: its join queue may lose the first thread's structure, and there TLC's run is the evidence.

No property of a scheduler can be proved without the others.  The parts of `SchedulerInv`:

- `TcbQueues`, `JoinQueue`: the pointers hold sequences, so that the lemmas on queues
  apply, and the join queue holds exactly the structures not freed yet, so that
  `jq_search` finds what it must.
- `Places`: every live thread is queued, running or in the hands of the one thread that
  moves it (`Carry`), and never in two places; `OnePlaceEach` leaves out who carries
  it, and a second carrier would push it twice.
- `Loop`: what each statement of `RunScheduler` has read; `cur` and `new` must
  still be true when used.
- `Turns`: who does not hold the processor is stopped or waits.  `OneAtATime` is not
  inductive without it: a tick must know that the thread it signals stops,
  and `__thread_wakeup` that nobody else runs.
- `Quiet`: with ticks between calls the tick finds and leaves no thread inside one.
- `Creating`: one creation at a time, of which `is_pushed` speaks, from before the child's TCB to
  the parent's lookup.
- `Codes`, `Waits`, `Joins`, `Children`: a joining parent and an exiting
  child, statement by statement: who has marked whom, who waits, whose exit code is stored. That an
  exiting child finds its parent in the wait queue depends on what the parent
  knew when it waited, so the four hold together.
- `Tree`: among any threads there is one without a child among them.  A tick that
  finds no thread running pops a ready one unasked; if every thread waited for a
  child of its own there would be none, and `Tree` says that cannot be
  (`SomebodyReady`).

The proof has one lemma per action, bottom up: queues, then what a thread knows when it
executes (`OneHolder`), then frame lemmas for steps that leave queues and `RunQHead` alone, then
the actions in the order of `Scheduler.tla`.  All of `SchedulerOK`, `ChildrenJoinable`,
`JoinReturnsExitCode` and `NoUseAfterFree` follow from the invariant in one
state (`GoodIsSafe`), so that a run which checks `SchedulerInv` checks those too.

`Refinement`: the mapping's ready sequence is `Walk(readyQ, link)`, running the
thread that executes or is about to, and blocked is what is neither (`View`).
Each action is a step of `RoundRobin` or a stutter: a push of a new or resumed
thread, a preemption, a dispatch, a block and an exit are its steps, and all that
happens between two queues is a stutter.

### The message queues

`MqInvariantHolds` says that `MqInv` holds in every state, for any finite set of
threads, any slots, keys, types and Qcbs, of a program that keeps to
`MqDisciplined`: ticks come between calls, programs create threads, return and use message
queues, and the first thread receives nothing.  The last is needed: with
every thread in a waiting list the next tick dispatches NULL.
`MqExactSpec` adds that `mymsgsnd` takes a waiting thread out at a position the code
handles (`WaitersRemovedExactly`), and `mymsgrcv` a message
(`MessagesRemovedExactly`).  `FewReceiversAreSafe` drops the first for programs in which at most
three threads receive, since no waiting list is longer then.  Where no queue ever holds
more than three messages the second holds by itself; it keeps the model faithful, whose
`mq_remove` is the code's at those positions only.  `MsgQueue.cfg` is an instance of both.  `MessageQueuesShareLinks` and `CallsUseLiveQueues` conclude
`SharedLinksOK` and `TableOK`.

The invariant of `Scheduler` does not carry over, since a thread can now be in
places the scheduler knows nothing of.  The parts of `MqInv`:

- `MqQueues`: the ready queue and the waiting list of every Qcb, in the table or
  not, hold sequences over the same links, no two of them share a thread, and
  a thread in none of them has NULL links.
- `MqPlaces`: every live thread is in one list, runs, or is in the hands (`Hands`) of
  the one thread that moves it: a sender, the remover of a queue, or a receiver on
  its own way into a list.
- `MqTurns`: a receiver that has given up `RunQHead` still executes until it waits,
  so `OneAtATime` needs to know who else may: nobody, until the next tick,
  which comes between calls.
- `MqLoop`, `MqQuiet`, `MqCreating`: as `Loop`, `Quiet` and `Creating` above, with
  waiting lists in place of the wait queue.
- `Table`: slots, keys and Qcbs in use correspond, and a free Qcb is as good as new.
- `Knows`: what each call has looked up and still relies on.  A removal of a queue
  must find it without messages to its end and its waiting list empty when it frees it,
  and a thread in a list waits for the Qcb whose list it is.

Since calls are not interrupted (`ActsAlone`), what one has looked up is still true
when it is used; only a waiting receiver sees the world change, and what
it then looks at is the slot, not the Qcb.

`MessageProofs` adds what becomes of messages.  `MessagesInvariantHolds` says that
`MessageQueueInv`, which is `MqInv /\ MessagesInv`, holds in every state of the same
programs.  The parts of `MessagesInv`:

- `QueuedWereSent`, `SentAreSomewhere`: a Qcb holds messages that were sent, numbered
  upwards; one that nobody has received is in it, or in the hands of the sender that is
  about to push it.  Copying and removing are two statements of `mymsgrcv`, so that a
  received message may still be queued.  Then its receiver is at the removal, and it is
  the first of its type; otherwise the removal, which searches by type, would take
  another.
- `OldestFirst`: with the numbers going upwards, the first of a type is the oldest, so
  that messages of one type are received in the order of sending.
- `Sender`, `Taker`, `Parker`, `TypeTold`: what a call in progress knows of messages.
  `Parker`: who is on its way into a waiting list found no message of its type and still
  would not, since nobody sends meanwhile.  `TypeTold`: the type in a sleeper's TCB, by
  which `mymsgsnd` picks whom to wake, is the type it waits for.
- `Served`: where somebody sleeps for a type, there are at most as many messages of that
  type as threads that are sure to look for one or to wake somebody for one (`Due`).
  `NoOversleep` counts the threads that are receiving or waking somebody at that
  moment, and is not inductive: a woken receiver counts whatever its slot leads to by
  now.  Each send adds a message and a thread that is due, each removal takes one of each
  away, who falls asleep found none, and a removal of the queue wakes all.

`MessagesAreConserved`, `MessagesKeepOrder` and `NobodyOversleeps` conclude
`MessagesConserved`, `InOrder` and `NoOversleep` for any number of messages (`MaxSends`
is any natural number).  `FewReceiversMissNothing` says all three without
`WaitersRemovedExactly` for programs in which at most three threads receive.

### The file system

`FileSystemSound` says that `FileSystemInv` holds in every state, for every geometry (numbers of
inodes, blocks, entries and pointers that fit the two assumptions above and
`GeometryAssumption`), any paths, buffers and lengths, and a death of the process between any two
writes.  `NothingBeyond` (`Beyond = {}`) is its condition: no process
makes calls on a disk on which a call died, or on which a directory gave a block
back; it may format it.  Without the condition the invariants are false, as
`DirectoryShrinks` shows for the second kind of disk.  The parts of `FileSystemInv`:

- `OwnedOnce`: no two pointers, of any inodes, lead to one block.  It holds
  of every disk, also of one that a call died on.
- `Whole`, of a disk on which nothing went wrong: linked blocks are marked
  (`Marked`); what is not marked is as good as new (`FreeBlank`), since a new directory or pointer
  block is read before all of it is written; directories have no holes (`NoHoles`), or
  else a search would miss names; every marked inode but the root has a path (`AllNamed`);
  inodes are counted; and the tree is sound.
- `TreeSound`: blocks hold what their inode's type says (`KindsRight`, without which
  the pointers and entries read from them say nothing), names are unique and dots right in every directory
  (`DirsRight`), an inode has one entry (`EntriesOnce`), which is of a marked inode
  (`EntriesMarked`), and `..` leads back (`UpsRight`).  It is also what is left of `Whole` after a
  directory gave a block back, when blocks are linked that are not marked.
- `FilesOpen`: open descriptors are of files that are marked.

`BlocksOwnedOnce`, `BitmapsRight`, `TreeWellFormed` and `DescriptorsLive` speak of what can be
reached by a path, and none of them is inductive.  That a new entry does not
double an inode needs that no entry, in a directory with a path or without, has an inode that is not
marked, and that a path leads to an inode from one directory only needs that
there is no second entry anywhere.  `BlocksAlwaysOwnedOnce`, `BitmapsAlwaysRight` and
`TreeAlwaysWellFormed` conclude them from `FileSystemInv` in one state.
`DescriptorsStayLive` says `damage # "shrunk" => DescriptorsLive`: the removal that gives a
block back may leave a hole (section 3), behind which an open file has its entry
and no path.

The argument follows every call write by write.  `Leads(d, ws, B, S)` says that the
writes ws lead from the disk d to a disk in B, and that every disk on the way, where a process
may die, is in S.  Sequences of writes are put together from the
shorter ones that the operators of `Directory` are made of (`LeadsConcat`), and each kind of write has a lemma
saying what it does to pointers, entries and bitmaps.  S is always `Owned`, the disks with
`OwnedOnce`: no block is linked twice even for the length of a write.  B is what the call
promises of a disk that was `Whole`: it is so again, with the paths changed as the call
says, or a directory has given a block back and `TreeSound` is left.  Directories are read as relations (`Has`, from names to
inodes), so that it does not matter in which slot an entry is or to which one
`ClearEntry` moves the last of a block.  `InodesAt` of the new disk is the old
one with a path more or less, by an argument over the length of paths.

Where that argument or one over sequences of writes needs an induction, the proof takes the least number at which
the claim would fail: the library's induction rules cannot be used, but
`LeastNatural` gives a least element of a set of numbers.

### What stays with TLC

Liveness (`CreatesReturn`, `ReadyThreadsRun`, `JoinsReturn`): the prover has no
rules for fairness.  `LosesNothingElse` and `ImplementsNameSpace`: besides the paths they compare what files
hold, block by block, before and after every prefix of a call's writes; and after a
directory gave a block back they are false in geometries with three pointers a block or more
(section 3).  `TestsPass` is about one behaviour, which TLC runs to its end.

## 5. Findings

See `PROJECT.json`.  `ExitPreempted`: `thread_exit` stores the exit code after
it has made its parent ready.  `ReceiveStolen`: waking a receiver does not give it
the message, and `mymsgrcv` looks only once more.  `DirectoryShrinks`: a directory that gives
back its second block clears the pointer in memory only ("unlink, reset data block",
`fs.c` 558 and 730), so that it shares the block with whoever gets it next; a
directory made there is lost at once, since its own first block overwrites its
entry.  `fs.c` 767, a hole left in an indirect block, is described in section 3; the runs' geometries do not show it.

## 6. Not modelled, and the plan

Not modelled: queue operations interrupted half way; `readyMutex` locked again by
the signal handler; the lock of `stdout` (all three listed under hazards);
`wq_pop`, `jq_pop` and `mq_pop`, which nothing calls; ticks inside message calls; the print functions; `main`'s
choice of test case.

Of the file system: writes over indirect blocks (`fs.c` 1141-1190, where the
pointer used is not the one tested), full bitmaps and a full descriptor table,
removal of open files, calls for files on directories and the other way round, offsets
inside a block, failing reads and writes of `MY_DISK`, paths longer than the
24 bytes `malloc` gives the copy, and what the test program prints.

Next, in this order:

1. Message calls with ticks inside them: the window between the search of
   `mymsgrcv` and its `tq_push`, two callers of `mymsgget` with one slot.
2. Calls after a death: what later calls make of each torn disk.
3. More proofs: `ImplementsNameSpace` until a directory shrinks, from `FileSystemInv` and what
   files hold.
4. The bitmap library of `src/disk`; the transfer of `server.c` and `client.c`.
