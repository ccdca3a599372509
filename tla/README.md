# Verification of mpi-executor

mpi-executor runs sorting tasks on MPI processes. It has grown in several
generations that live side by side in `src/`: a static master/worker executor
behind a REST gateway, a graph master that has the MPI runtime launch one
process per task, a library that lets a task grow and shrink while it runs, and
a set of macros (DMR) and an example (`grow.c`) that do the same on the bare
runtime. This directory holds TLA+ models of all of them, the TLC
configurations that check them, and TLAPS proofs about the executor, the graph
master with its task processes, the library, and DMR. `PROJECT.json` relates every
definition to source lines, every property to the hazards it is for, and every
property to a plausible bug that would break it.

## The system

| Part | Source | State | Operations | Talks to |
|---|---|---|---|---|
| REST gateway | `api.c` | none; a thread per POST | connect, write, reply | UNIX socket of rank 0 |
| Static executor, rank 0 | `mpii.c` | `available[16]`, a mutex, the connection it serves | accept, read, search a worker, `MPI_Isend`; in a second thread `MPI_Recv` of DONE | workers (MPI), gateway (socket) |
| Static executor, workers | `mpii.c` | the task in hand | receive, run, DONE, report | rank 0 (MPI), graph server (HTTP) |
| Graph master | `sessions.c` (not `mpi_dyn`) | the buffer `id`, main set | accept, ADD operation, publish keys, PUT, finalize | clients (TCP), runtime, key store (HTTP) |
| Task process | `sessions.c` (`mpi_dyn`) | task id, description | wait for keys, fetch, load, run, SUB, report | runtime dictionary, graph server |
| Dynamic process-set library | `dyn_psets.c` and headers | per process: main set, `setop_pending`, `setop`, rank, communicator | init, adapt, adapt_nb, finalize, set_info | MPI runtime, the user's callbacks |
| Task functions | `dyn.c`, `file_helper.h` | files | map, sort, reduce, sortFile | files in `./data` |
| DMR | `dmr.h`, `sleep.c` | per process: main set, primary or not, a pending request, the old, new and current communicator, the step, a share of the vector | init, reconfiguration, finalize; gather and scatter of the vector | MPI runtime |
| Grow example | `grow.c` | per process: main set, communicator | one GROW operation | MPI runtime |

What is hard, and what makes each part correct:

- *Static executor.* Two threads of rank 0 write one array, and the master reads
  it without the lock. Correct: each worker is accounted for exactly once, no
  task is executed twice or queued behind another, a request is dropped only when
  every worker is in use or came back behind the search, every sent task is
  reported, final states stay.
- *Library.* Collective operations over communicators that change, while each
  process keeps its own flag that says whether to take part. Correct: the
  processes of a communicator call the same collectives in the same order, an
  operation is finalized once, spawned processes are told exactly one thing,
  nobody waits for ever.
- *DMR.* No flag is kept: every process asks the runtime in every step whether
  the operation was executed, which happens at any moment, the end of the task
  included. Correct: all processes are in the same step when they ask, the names
  they then find are those of this operation, the vector survives the change of
  communicators, spawned processes join or are dismissed, everybody ends.
- *Graph master and task process.* The launched process runs while its keys are
  still being published; HTTP may fail. Correct: it acts on complete data, its
  process set is back before the task counts as TERMINATED, the states the
  server hears move forward, every request ends.
- *Task functions.* Index arithmetic. Correct: the graph of tasks sorts.

## Modules

| Module | Models | Checked by |
|---|---|---|
| `Executor` | `api.c`, `mpii.c` | `MCExecutor` with `MCExecutorSafety.cfg`, `MCExecutorLive.cfg` |
| `TaskService` | abstract specification of the executor | property `ImplementsTaskService` |
| `Executor_proofs` | theorems about the workers of `Executor` | TLAPS |
| `ExecutorRequests_proofs` | theorems about its requests; the refinement of `TaskService` | TLAPS |
| `DynPsets_proofs` | the inductive invariant of `DynPsets`; steps of spawned processes, followers and leavers | TLAPS |
| `DynPsetsLead_proofs` | the steps of rank 0 keep that invariant | TLAPS |
| `DynPsetsSafety_proofs` | the collective steps; the theorems about `DynPsets` | TLAPS |
| `DynPsetsRefinement_proofs` | the refinement of `Malleable` by `DynPsets` | TLAPS |
| `Launcher_proofs` | theorems about `Launcher` | TLAPS |
| `DMR_proofs` | theorems about `DMR`, the refinement of `Malleable` by `DMR` included | TLAPS |
| `Malleable` | abstract specification of a task that grows and shrinks | property `ImplementsMalleable` of `DynPsets` and of `DMR` |
| `DynPsets` | `dyn_psets.c` under the main loop of `sessions.c` | `MCDynPsets` with three `DynPsets*.cfg` |
| `DMR` | `dmr.h` under `sleep.c` | `MCDMR` with `DMRTask.cfg`; `DMRShrinkEnd.cfg` |
| `Grow` | `grow.c`, on the runtime of `DMR` | `MCDMR` with `DMRTask.cfg` |
| `Launcher` | `sessions.c`, graph master and task process | two `Launcher*.cfg` |
| `MapReduce` | `dyn.c`, `file_helper.h` | three `MapReduce*.cfg` |

Definitions whose comment begins with "Mutant" are wrong variants of the
definition that follows them. No specification uses them; they record which bug
each property is able to find.

### Executor

One action per step between two points where another thread can interfere. A
gateway thread is `Post`, `Connect` or `ConnectRefused`, `Write`. The master is
`Listen`, `Accept`, `Read` (which includes the parsing and the early returns of
`execute_master`), then one `ScanMiss` per array entry that is 0, `ScanHit`,
`MasterLock`, `Isend`, `MarkBusy`. `Isend` and `MarkBusy` are separate because
the worker can run, finish and send DONE in between (mpii.c:349-350). The
listener is `RecvDone`, `ListenerLock`, `SetAvailable`. A worker is `RecvWork`,
`SetRunning`, `Pipeline`, `SendDone`, `Report`. Requests are told apart by what
the program tells apart (`Bodies`). Three history variables: `fate` and `starts`
say what happened to a request, `back` which workers became available during a
search after it had read their entry as 0. Such a worker is passed over although
it is free when the request is dropped, a consequence of reading the array once
and without the lock; `DropNeedsFullPool` says that it is the only one that may
be: every other worker has a task, or its DONE is on the way to the array.

`TaskService` says the same without threads, lock, socket or messages: a request
is turned away or assigned to a worker with no task, a worker starts, finishes
and settles one task after the other. `Executor` implements it with the worker's
task taken from its message queue or its hand (`Assigned`).

Left out: the contents of files (see `MapReduce`), requests that lack a member
(the program crashes on them), the fixed buffers.

### Malleable

The promise of both reconfiguration protocols, without communicators, sets or
messages. `life` says of each process whether it is spare, waiting to be let in,
a member, dismissed or ended (how a dismissed process ends is not said); `team` is the set of processes that work together.
The team is replaced as a whole and never by half of its new members: `Switch`
takes in all who wait and keeps only members. Processes spawned for nothing are
dismissed when the task ends, and never join.

`DynPsets` and `DMR` implement it with the communicator built last as the team
(`Team`) and the location of a process as its life (`Life`).

### DynPsets

Each process has a location; a collective operation that synchronises
(`MPI_Barrier`, `MPI_Comm_create_from_group`) is one action of all its members, a
broadcast is an entry in a log per communicator that rank 0 appends to and
every other process reads in turn. That is what makes a mismatch visible: a
process may wait for an entry that was never written, or read one that was meant
for another call. `Step` has one action per section of `dyn_pset_init`,
`dyn_pset_adapt`, `dyn_pset_adapt_nb`, `check_setop`, `handle_setop` and
`dyn_pset_finalize`. The three name broadcasts of `handle_setop` are one action:
nothing lies between them.

The runtime is external. Assumed of it: it may refuse any operation; it keeps at
least one process of a set, ranks those that stay first and in their order, and
spawns only processes that were not used before; an operation is executed when
`MPI_Session_dyn_v2a_psetop` returns, so a cancelation always finds it applied.
`MPI_Comm_disconnect` either waits for the whole communicator or does not
(`use.sync`). `MPI_Session_finalize`, called at the start of
`dyn_pset_finalize`, leaves the session usable.

A spawned process that is told its operation is canceled gets NULL from
`dyn_pset_init` (dyn_psets.c:76, 310-312). `sessions.c` does not look at it and
passes it to `dyn_pset_set_info` (sessions.c:514), which reads through it
(dyn_psets.c:555-557): the process crashes. That is `UseNullState`, and its
location from then on is "crash", different from "exit", where
`dyn_pset_finalize` has returned. It has acknowledged before, and is in no
communicator with the others; the model assumes that the runtime leaves them
alone. A runtime that ends the whole job when one process dies ends the task
here. `NobodyWaitsForever` counts a crash of a canceled process as the end of its
waiting, not as a clean end, and no other process may be there.

How a program uses the library, and what its environment does, is the record
`use`, chosen once from `Uses`: one run then goes over growing and shrinking
tasks, both adapt functions and both ways to call `dyn_pset_init`.

In `sessions.c` the loop is switched off by `& false` at line 535 and `break` on
`terminate` is commented out at line 561. The model is of the loop with the
break: the library has no other use in the repository that exercises
`dyn_pset_adapt`, and without the break a leaving process would run on with a
communicator it is not part of. The process is told to break by `dyn_pset_adapt`
itself (`*terminate = 1`). `dyn_pset_adapt_nb` is called nowhere; it is put in
the place of `dyn_pset_adapt`.

### DMR and Grow

The main sets and the operations that made them are `psets`, numbered in order;
a name in the code is a number here. `DMR_INIT` is `Join` and `CreateComm`, then
`ItRecv` and `ExpRecv` in a spawned process. A step of `sleep.c` with its
`DMR_RECONFIGURATION` is `Compute` and `Query`, and if there is an operation
`Dup`, `Publish`, `Lookup`, `Disconnect`, `CreateComm`, `ItCast`, the gathers
and scatters, `FinalizePsetop`, `LeaveOld`. `DMR_FINALIZE` is `Cancel`,
`AckWait`, `Finish`. Broadcasts and scatters are logs as in `DynPsets`; calls
that wait for all are one action of all. An element of the vector is its number
in the order of ranks at the start (`initialize_data` writes values that do not
tell two processes apart), so `DataIsWhole` sees every element that is lost,
repeated or moved.

Assumed of the runtime: it executes a requested operation at any moment or
never (`Execute`), to one of the numbers of processes in `Sizes`; it adds or
removes, not both; it ranks those that stay first and spawns only processes that
were not used before; calls that name a set are collective over that set, and
where only the primary process calls the set is `mpi://SELF`; the answer of the
request (`output_psets`) is there when a query shows the operation; the
dictionary takes the empty name that a set of no processes has. One program is
modelled: `DMR_FINALIZE` without an argument, that is `DMR_FINALIZE0`;
`DMR_FINALIZE1` only adds a call of the user at the start.

`Grow` uses the same state. `grow.c` waits for its operation, so `Request` is
one action; the runtime is taken to grant it. `MCDMR` lets TLC choose which of
the two programs runs.

### Launcher

The graph master's loop is one action per exchange with somebody else. A
launched process is one action per key it waits for, HTTP exchange or return.
`nature` fixes what becomes of a task; the value `Garbage` stands for the
uninitialized buffer `id`. The barrier, `dyn_pset_init` and `dyn_pset_finalize`
of a process that is alone in its communicator wait for nobody and are one
action (`JoinAndLeave`). Assumed: the runtime always grants ADD and SUB; the
code would crash on an empty answer.

### MapReduce

The loops are recursive functions on sequences, the outer loop of the bubble
sort and the tasks are actions. A file is a sequence of integers and
separators: `Write` and `ReadBulk` convert as the code does, an integer too many
for an empty file included, and every task reads what another has written.
`MergeSort2` is the bottom-up merge sort that `dyn.c` keeps beside the recursive
one.

## Runs

| Run | Bounds | Result |
|---|---|---|
| `executor_safety` | 2 workers, 3 requests of any kind, 2 waiting connections, reports may be lost; 258 000 states up to symmetry | holds |
| `executor_live` | 1 worker, 3 requests, 1 waiting connection, reliable reports; 159 000 states | holds |
| `psets_task` | 1 process growing by pairs to 5, or 4 losing any one at a time where disconnect does not wait; 3 iterations, `dyn_pset_adapt` or `dyn_pset_adapt_nb`, with or without a first operation sent by `dyn_pset_init`; 341 000 states | holds |
| `psets_no_ack` | processes spawned one at a time | **violated**, `AckArrives` |
| `psets_shrink_sync` | 2 processes losing one, disconnect waits | **violated**, `AnnouncedIsFinalized` |
| `launcher_tasks` | 2 launches of 2 tasks, garbage, reliable or lossy HTTP; 459 000 states | holds |
| `launcher_error` | 1 task that may fail | **violated**, `ErrorIsKept` |
| `mapreduce_sort` | all inputs of 1 to 6 integers out of 3 on 2 targets | holds |
| `mapreduce_rest` | 3 integers on 2 targets | **violated**, `AllDelivered` |
| `mapreduce_empty` | 1 integer on 2 targets | **violated**, `ReadCounts` |
| `dmr_task` | `sleep.c`: 2 processes that grow to 4 and shrink to 2 or 1, any of them leaving, at most 3 operations in 3 steps, 4 elements; `grow.c`: 2 processes and 2 more; 50 000 states | holds |
| `dmr_shrink_end` | `sleep.c`: 2 processes, 1 step, 1 operation | **violated**, `CancelReturns` |

Why the bounds are enough. Three requests on two workers give a request that
finds both free, one that finds one free, one that is dropped, and a worker that
is used again while it still reports. One worker and a backlog of one make three
requests wait for the socket, the mutex and the worker at once. Two set
operations after the first set give an operation refused and sent again, one
handled, and one granted in the last iteration and canceled; spawning pairs
gives a primary and another process. Four processes of which any may leave
include rank 0 leaving twice. Three DMR operations give growth after growth was
undone, two that add nobody one after the other, whose names collide, and one
left for the end; in three steps each may also come in the step it was asked for
or later; four elements are divided by 1, 2 and 4 processes. `EverybodyEnds`
excuses the one state that `dmr_shrink_end` shows. Two launches are one task twice or two tasks. Six
integers on two targets give arrays of three, the shortest on which the two
loops of the sort both count.

`CHECK_DEADLOCK FALSE` stands where the system may stop: all requests were
served, all processes ended, all tasks ran.

### Findings

1. `dyn_psets.c:42` tests `mpi_primary` the wrong way round. A set of exactly one
   spawned process has no process that acknowledges a cancelation, and rank 0
   waits for ever at line 532.
2. A process that leaves in `handle_setop` returns before
   `MPI_Comm_disconnect`. If that call waits for all of the communicator, as a
   collective may, the processes that stay hang at line 274.
3. `sessions.c:849-853` reports TERMINATED after ERROR.
4. `dyn.c:81` places a chunk as if no earlier chunk was longer: elements are
   repeated and lost when the targets do not divide the input.
5. `read_file_in_bulk` returns one unassigned integer for an empty file.
6. `dmr.h:280` waits for spawned processes to acknowledge the end although
   `dmr.h:272` has found that there are none: a task whose last, no longer
   wanted operation shrank it never ends.
7. A spawned process whose operation is canceled dereferences the NULL that
   `dyn_pset_init` returned to it, at `sessions.c:514` and, were that not so, at
   line 533. No run is a counterexample of its own: it is the step `UseNullState`
   of `DynPsets`, taken in every behaviour of `psets_task` in which an operation
   that spawns is canceled.

## Fairness

Each thread, rank and process is weakly fair as a whole: the operating system
runs it as long as it is not blocked, and blocking calls are guards. Nothing is
assumed of clients: which requests come, and when the order to end comes, is
open. Weak fairness suffices for the mutex of the executor because the master
takes it once per request and there are finitely many. A collective operation is
weakly fair once all its members are in it, which is MPI's progress rule. Of the
runtime no fairness is assumed: an operation it was asked for may never be
executed. HTTP
is assumed reliable only for the properties that a report or a lookup arrives
(`SentIsSettled`, `RequestedEnds`, `LookupIsFresh`): a request is sent once
and never repeated, so nothing else would bring it to the server. `RequestedEnds`
accepts ERROR as well as TERMINATED as the end of a task, so it does not depend
on finding 3 and would hold of a corrected program.

## Proofs

Every safety property and every action property the runs check of `Executor`,
`Launcher`, `DynPsets` and `DMR` is a theorem, for every value of the constants,
and so are the three refinements. All rest on inductive invariants and on no
other assumption than the named `ASSUME`s of the module they are about, with one
exception: `DataCorrect` has a hypothesis, given below.

### Executor

For every number of workers up to 15 (the size of `available`), every set of
requests and every backlog. `Executor_proofs`: `TypeCorrect`,
`AccountingCorrect` (`WorkerAccounting`).
`ExecutorRequests_proofs`: `OnceCorrect` (`AtMostOnce`), `FinalCorrect`
(`FinalStateIsFinal`), `PoolCorrect` (`DropNeedsFullPool`), `Refinement`
(`ImplementsTaskService`).

`WorkerAccounting` says that per worker one token is in one of five places: the
array entry, a WORK message, the worker's hand, a DONE message, the listener. It
is not inductive alone. `ScanHit` reads the array without the lock, and `Isend`
creates a second token of the worker which `MarkBusy` removes by clearing the
entry; this is one token only if the entry is still set. `ScanInv` says so: what
the master saw stays true because only the master clears entries. `MarkBusy`
must not meet a listener in its critical section, hence `MutexInv`; and types of
messages and tasks need `ServingInv` (a serving master has a request, a busy
worker a task). `IInv` is the conjunction, `StepType`, `StepMutex`,
`StepServing`, `StepScan` and `StepAccounting` show each part is kept, one
step per action, and `Inductive` combines them.

`RInv` follows a request. It is in one place at a time: waiting in the socket
(`BacklogInv`), served by the master (`ServedInv`), in a WORK message
(`InboxInv`), in a worker's hand (`HandInv`); `starts` and the state the server
has heard of (`KnownInv`) are given in each place. That messages do not pile up
comes from `WorkerAccounting`. `PoolCorrect` combines two facts. `PassedInv`: an
entry the search has passed is still 0, or its worker is in `back`; it is kept
because the search only goes on at an entry that is 0 and only the listener sets
entries. `BusyIsOccupied`: a worker whose entry is 0 has its one token somewhere
else, in a message, in hand or with the listener. A request is dropped by the
step that leaves the loop (`DropStep`), when the search has passed all. The refinement has
one lemma per kind of step (`TurnAwayStep`, `AssignStep`, `WorkerStep`); that a
worker given a task has no other is `WorkerAccounting` again.

### Graph master and task processes

`Launcher_proofs`, for any tasks and any number of launches: `TypeCorrect`,
`LookupCorrect` (`LookupIsFresh`), `GivenBackCorrect` (`TerminatedIsGivenBack`),
`ForwardCorrect` (`StatesMoveForward`). `PublishInv` is the order of the keys, "ptype" last;
`ProcessInv` says how far a process can be without them; `StoreInv` that the set
of a launch is in the key store before the key that lets the process go on.
`HeardInv` is what makes `StatesMoveForward` inductive: a final state was heard
from a process that is past every report that could undo it.

### Library

`DynPsetsSafety_proofs`, for any number of processes, any tasks (each mode, size,
step, limit, number of iterations, both adapt functions, both ways to
initialize, `MPI_Comm_disconnect` waiting or not) and any bound on the main
sets: `TypesCorrect`, `CollectivesCorrect` (`CollectivesMatch`),
`NoStrangerCorrect` (`NoStrangerCreates`), `OrderCorrect` (`SetopsInOrder`),
`IterationsCorrect` (`IterationsAgree`), `KeyCorrect` (`KeyIsFinal`).
`DynPsetsRefinement_proofs`: `RefinesMalleable` (`ImplementsMalleable`). The only
assumption about processes is that there are finitely many, numbered from 1.

None of these is inductive, because a communicator has many members that may be
spread over an iteration and its successor. The invariant `IInv` therefore
relates each member to the leader, the rank 0 of the newest communicator, and
never two members to each other. Its parts are `SetsInv` (what the runtime keeps of
the sets), `PlaceInv` (a process outside of all communicators waits for the
newest set), `MemberInv` (a member of a set whose communicator was made knows
that set), `LeadInv` (`Leads`: what the leader is doing; `Asks`: what it knows
of the one operation that may be outstanding), `FinInv` (how often each
operation was finalized), `TeamInv` (`Near`: where a follower can be when the
leader is where it is; `Heard`: which of its messages it has received; `InStep`:
its iteration; `Agrees`: its `setop_pending` at the next barrier is that of the
leader). When the leader announces a set, its communicator is left: from then on
it has no leader, and `LeftInv` says what the processes that are late, or not
part of the next set, can still do there. Before it was proved, TLC checked `IInv`
on tasks of up to four processes that grow or shrink twice (65 000 states).

The proof goes by who takes the step. `SpawnedSteps`, `LeaverSteps`,
`FollowerSteps` and `LeaderSteps` go through the fifteen actions and reduce each to
a summary of what it may change (`SpawnedStep`, `LeaverStep`, `FollowerStep`,
`LeaderStep`); `SpawnedKeeps`, `LeaverKeeps`, `FollowerKeeps` and `LeaderKeeps`
show that whatever fits the summary keeps `IInv`. The followers of a leader that
moves are `FollowersStay`. `AnnounceKeeps` is the step from `TeamInv` to
`LeftInv`, `CreateKeeps` the one that begins a new team, `BarrierKeeps` the only
one that moves many members together. Grants of the runtime enter through
`OrderedList` and `GrantsMainSets`: a set lists each process once, those that
stay before those that are new.

In the refinement a granted operation is `Spawn`, the making of a communicator
`Switch`, the answer "canceled" `Dismiss`, the last step of a process `End`; the
others are stuttering steps.

### DMR

`DMR_proofs`, for any number of processes, any sizes, any number of steps,
elements and operations: `TypesCorrect`, `StepsCorrect` (`StepsAgree`),
`OrderCorrect` (`SetopsInOrder`), `CommsCorrect` (`CommsAreDefined`),
`DataCorrect` (`DataIsWhole`), `NamesCorrect` (`NamesAreFresh`),
`RefinesMalleable` (`ImplementsMalleable`). The theorems are about the
specification of `DMR`, a task under `sleep.c`; `Grow` is a program of its own.

`DataCorrect` supposes `Exact`: every number of processes in `Sizes` divides
`Size`. Without it the theorem is false, since the rest of the division belongs to
nobody (`sleep.c:25`). With `SIZE` 131072 of `sleep.c` it says that the numbers of
processes are powers of two. `DataIsWhole` itself speaks of the communicators on
which the first process has rank 0.

Again the properties relate processes of one communicator to each other, and the
invariant `IInv` relates each of them to one, the process of rank 0 on the newest
communicator (`Lead`). Here no flag is kept and everybody asks the runtime, so
where `Lead` is tells how far the task is. `Stage` is one of eight: "start",
"settling" (redistribution), "steady" (steps), "dup", "moving" (names), "leaving",
"between" (two communicators), "over". The parts of `IInv` are, stage by stage:

- `SetsInv`: a set lists each process once, an operation adds unused processes
  behind those that stay, or removes some. There is at most one set whose
  communicator is not yet made.
- `PlaceInv`: a process is of one of six kinds, a member of the newest
  communicator, spawned, departing, gone, launched or unborn, and each kind has
  its locations, main set and communicators (`MemberAt`, `SpawnedAt`,
  `DepartingAt`, `Gone`).
- `StageInv`: in which stages an operation can be requested, and executed.
- `DictInv`, `FinInv`: what the names stand for, and how often each operation was
  finalized, while a set is published, canceled or neither.
- `ItInv`: the step of every process, from that of `Lead`.
- `LogInv`, `DataInv`: which messages are taken, and who holds which part of the
  vector on which communicator.

The hard step is `Execute`, which may come at any point of a step or of the
end of the task: some members compute, others wait in the query, spawned ones still
receive. So "steady" stays "steady" when the operation is executed, its places are all
those of a step, and what is known of the new set depends on `Published` and
`Canceled`, not on the stage alone. TLC checked `IInv` with the bounds of `dmr_task` (50 000 states) before it was proved.

The proof has one lemma per action (`ItRecvKeeps` to `CreateCommKeeps` and
`ExecuteKeeps`). Before them stand the facts about sets and shares (`Listing`:
what the sequences of `Ordered` are; `PartHolds`, `CollectedHolds`: the parts of a
whole vector, gathered, are the whole vector, by `ElementRange`), and the frames:
`SoloPlace`, `SoloIt`, `SoloLog`, `SoloData` for steps of one process,
`TogetherPlace` and `TogetherData` for collective ones. They say that whoever a step does
not touch keeps its part of `IInv` as long as the stage stays. The steps that change the
stage are `CreateComm`, `LeaveOld`, `Query`, `Dup`, `Lookup`, `Disconnect` and
`Finish`, all of them collective. `CreateNext` is the longest: a communicator is made
and every kind of process changes. `GrantsLarger` and `GrantsSmaller` show that the
runtime keeps its rules.

In the refinement `Execute` with a larger set is `Spawn`, `CreateComm` is
`Switch`, the answer that the task ends is `Dismiss`, `Finish` is `End`, the
others are stuttering steps. `NobodyWaits` is the fact it needs of `IInv`: when a
communicator is made, nobody waits who is not in it.

### Only model-checked

Liveness (`SentIsSettled`, `NobodyWaitsForever` and the like) and the runs that show
a violation. All of `Grow` and `MapReduce`. What the recursive functions of
`MapReduce` compute needs induction over data, which the installed provers
cannot do; that includes the types, because a task writes what such a function
returns.

## Not modelled

- Memory: buffers of fixed size (`sessions.c:650`, `mpii.c:98`), uninitialized
  strings, missing JSON members, the array of a file that cannot be read
  (`dyn.c:165`), which stays a pointer nobody assigned.
- The ranks other than 0 of the graph master's job. They run round the loop of
  `sessions.c:637` without a statement that waits or leaves, also after the order
  to end.
- A judgement on what is launched after a request that is not JSON: the previous
  id, or garbage (`sessions.c:659-681`). `AcceptGarbled` models the launch, and the
  other properties hold with it; that it should not happen is said nowhere in the
  repository.
- `dyn_psets_internal.c`, an older copy of a part of `dyn_psets.c` outside the
  build.
- `aack.c` and `calisio_cscanfli_teknode.c`: prototypes of the loop with an ADD
  operation that became the graph master of `sessions.c`, which `Launcher`
  models. They never end, and the processes they add do nothing. `deneme.c` is
  the socket loop of `aack.c` alone; `q.c` and `try.c` are empty.
- `dmr.c`: its four functions over an intercommunicator are called nowhere, and
  the rest is commented out.
- DMR operations that add and remove at once. A leaving process would call
  `EXPAND_SEND` then, with no new communicator to scatter on.
- The data of a DMR task whose rank 0 leaves. Rank 0 of the old communicator
  gathers and rank 0 of the new one scatters (`sleep.c:66-81`), so the vector is
  lost with it; `DataIsWhole` is about the tasks that keep theirs. Nor is a
  number of processes that does not divide the size: the rest of the division
  belongs to nobody (`sleep.c:25`).
- `multiplyByTwo`, and the file functions that nobody else uses.

## Plan

Done: `Executor` with `TaskService`, `DynPsets` and `DMR` with `Malleable`, and
`Launcher`, with their proofs; `Grow`; `MapReduce`.

Of the models, one composition is left: `Launcher` with the task graph of
`MapReduce`. A successor is started on the report TERMINATED, so a failed task
starts it too; the server that does so is not in the repository.

Of the theorems, a further one is that `Grow`, too, implements `Malleable`.
