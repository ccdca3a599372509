------------------------------ MODULE Launcher ------------------------------
(***************************************************************************)
(* sessions.c: the graph master and the task processes it launches.        *)
(*                                                                         *)
(* The graph master is rank 0 of the processes the job was started with.   *)
(* It serves one connection after the other: it asks the runtime for one   *)
(* more process (set operation ADD) and publishes, key by key, what that   *)
(* process has to know on its process set.  The new process runs the same  *)
(* program: it waits for the keys, fetches the task from the HTTP server,  *)
(* loads and runs its function, gives its process set back (SUB) and       *)
(* reports.  The runtime, its dictionary and the HTTP server are external. *)
(***************************************************************************)
EXTENDS Integers, FiniteSets

CONSTANTS
  Tasks,      \* the task ids clients may ask for
  Garbage,    \* what the buffer "id" holds before anything was copied to it
  MaxLaunch,  \* bound: connections served, so processes launched
  Garbled     \* TRUE: a client may send what is not JSON

ASSUME GarbageAssumption == Garbage \notin Tasks
ASSUME LaunchAssumption == MaxLaunch \in Nat
ASSUME GarbledAssumption == Garbled \in BOOLEAN

Launches == 1 .. MaxLaunch
Ids == Tasks \cup {Garbage}

\* What becomes of a task: it runs and succeeds; it runs and fails, or its
\* file names are refused; what the server knows of it is not JSON, or its
\* function or the library cannot be loaded.
Natures == {"good", "failing", "unloadable"}
TaskStates == {"none", "RUNNING", "ERROR", "TERMINATED"}
Keys == {"main_pset", "data", "task_master", "ptype"}
MasterSteps == {"accept", "setop", "main_pset", "data", "put", "task_master",
                "ptype", "finalize", "gone"}
TaskSteps == {"off", "ptype", "data", "detail", "lookup", "load", "running",
              "work", "error", "join", "sub", "report", "exit"}

VARIABLES
  nature,     \* nature[t]: what becomes of the task with id t
  lossy,      \* requests to the HTTP server may fail
  gpc,        \* where the graph master is
  id,         \* its buffer "id", on the stack
  count,      \* connections with a task it has served or is serving
  tpc,        \* tpc[e]: where the e-th launched process is
  keys,       \* keys[e]: what is published on its process set
  data,       \* data[e]: the value published under "data"
  got,        \* got[e]: it received the description of its task
  given,      \* given[e]: its process set was reduced and the SUB finalized
  kv,         \* kv[t]: the set the server's key store has for t, 0 if none
  server,     \* server[t]: the state the server has last heard of t
  requested   \* history: the ids clients have asked for

worldVars == <<nature, lossy>>
masterVars == <<gpc, id, count, requested>>
taskVars == <<tpc, got, given>>
dictVars == <<keys, data>>
vars == <<nature, lossy, gpc, id, count, tpc, keys, data, got, given, kv, server,
          requested>>

Init ==
  /\ nature \in [Ids -> Natures]
  /\ nature[Garbage] = "unloadable"
  /\ lossy \in BOOLEAN
  /\ gpc = "accept" /\ id = Garbage /\ count = 0
  /\ tpc = [e \in Launches |-> "off"]
  /\ keys = [e \in Launches |-> {}]
  /\ data = [e \in Launches |-> Garbage]
  /\ got = [e \in Launches |-> FALSE]
  /\ given = [e \in Launches |-> FALSE]
  /\ kv = [t \in Ids |-> 0]
  /\ server = [t \in Ids |-> "none"]
  /\ requested = {}

-----------------------------------------------------------------------------
(* The graph master. *)

\* accept, read and reply: a task, the order to end, or what is not JSON.  The
\* latter leaves the block's buffer "id" as it is: uninitialized, which is
\* what the stack still holds of the previous round or anything else.
AcceptTask(t) ==
  /\ gpc = "accept" /\ count < MaxLaunch
  /\ id' = t
  /\ requested' = requested \cup {t}
  /\ gpc' = "setop"
  /\ count' = count + 1
  /\ UNCHANGED <<worldVars, taskVars, dictVars, kv, server>>

AcceptGarbled ==
  /\ Garbled
  /\ gpc = "accept" /\ count < MaxLaunch
  /\ id' \in {id, Garbage}
  /\ gpc' = "setop"
  /\ count' = count + 1
  /\ UNCHANGED <<worldVars, requested, taskVars, dictVars, kv, server>>

\* The key "message" ends the graph master, whatever is still running.
AcceptMessage ==
  /\ gpc = "accept"
  /\ gpc' = "gone"
  /\ UNCHANGED <<worldVars, id, count, requested, taskVars, dictVars, kv, server>>

\* MPI_Session_dyn_v2a_psetop: the runtime starts one process.
AddProcess ==
  /\ gpc = "setop"
  /\ tpc' = [tpc EXCEPT ![count] = "ptype"]
  /\ gpc' = "main_pset"
  /\ UNCHANGED <<worldVars, id, count, requested, got, given, dictVars, kv, server>>

\* MPI_Session_set_pset_data for one key of the new set.
PublishKey(k, next) ==
  /\ gpc = k
  /\ keys' = [keys EXCEPT ![count] = @ \cup {k}]
  /\ gpc' = next
  /\ UNCHANGED <<worldVars, id, count, requested, taskVars, kv, server>>

PublishMainPset == PublishKey("main_pset", "data") /\ UNCHANGED data

\* Mutant: the kind of the process is published before its set is put.
PublishDataFirst ==
  /\ gpc = "data"
  /\ keys' = [keys EXCEPT ![count] = @ \cup {"data", "ptype"}]
  /\ gpc' = "put"
  /\ data' = [data EXCEPT ![count] = id]
  /\ UNCHANGED <<worldVars, id, count, requested, taskVars, kv, server>>

PublishData ==
  /\ PublishKey("data", "put")
  /\ data' = [data EXCEPT ![count] = id]

\* put_main_pset: HTTP, a failure is only logged.
PutMainPset ==
  /\ gpc = "put"
  /\ \/ kv' = [kv EXCEPT ![id] = count]
     \/ lossy /\ UNCHANGED kv
  /\ gpc' = "task_master"
  /\ UNCHANGED <<worldVars, id, count, requested, taskVars, dictVars, server>>

PublishTaskMaster == PublishKey("task_master", "ptype") /\ UNCHANGED data

\* Mutant: the kind of the process is never published.
PublishNoPtype ==
  /\ gpc = "ptype"
  /\ gpc' = "finalize"
  /\ UNCHANGED <<worldVars, id, count, requested, taskVars, dictVars, kv, server>>

PublishPtype == PublishKey("ptype", "finalize") /\ UNCHANGED data

\* MPI_Session_dyn_finalize_psetop, and the loop goes on.
FinalizeAdd ==
  /\ gpc = "finalize"
  /\ gpc' = "accept"
  /\ UNCHANGED <<worldVars, id, count, requested, taskVars, dictVars, kv, server>>

Master ==
  \/ AddProcess \/ PublishMainPset \/ PublishData \/ PutMainPset
  \/ PublishTaskMaster \/ PublishPtype \/ FinalizeAdd

Client == (\E t \in Tasks : AcceptTask(t)) \/ AcceptGarbled \/ AcceptMessage

-----------------------------------------------------------------------------
(* A launched process. *)

Goto(e, l) == tpc' = [tpc EXCEPT ![e] = l]

\* It waits for "ptype", which is "master" here, then for "data".
WaitKey(e, k, next) ==
  /\ tpc[e] = k
  /\ k \in keys[e]
  /\ Goto(e, next)
  /\ UNCHANGED <<worldVars, masterVars, got, given, dictVars, kv, server>>

WaitPtype(e) == WaitKey(e, "ptype", "data")
WaitData(e) == WaitKey(e, "data", "detail")

\* get_task_detail: after a failure the buffer holds anything.
GetDetail(e) ==
  /\ tpc[e] = "detail"
  /\ got' = [got EXCEPT ![e] = TRUE] \/ (lossy /\ UNCHANGED got)
  /\ Goto(e, "lookup")
  /\ UNCHANGED <<worldVars, masterVars, given, dictVars, kv, server>>

\* get_main_pset: the answer is printed and not used.
GetMainPset(e) ==
  /\ tpc[e] = "lookup"
  /\ Goto(e, "load")
  /\ UNCHANGED <<worldVars, masterVars, got, given, dictVars, kv, server>>

\* set_task_state: HTTP, a failure is only logged.
Tell(e, s) ==
  \/ server' = [server EXCEPT ![data[e]] = s]
  \/ lossy /\ UNCHANGED server

\* execute: parse the description and load the function, or return.
Load(e) ==
  /\ tpc[e] = "load"
  /\ Goto(e, IF got[e] /\ nature[data[e]] \in {"good", "failing"}
             THEN "running" ELSE "join")
  /\ UNCHANGED <<worldVars, masterVars, got, given, dictVars, kv, server>>

SetRunning(e) ==
  /\ tpc[e] = "running"
  /\ Tell(e, "RUNNING")
  /\ Goto(e, "work")
  /\ UNCHANGED <<worldVars, masterVars, got, given, dictVars, kv>>

\* execute_manager: the controls of the file names and the function itself.
Work(e) ==
  /\ tpc[e] = "work"
  /\ Goto(e, IF nature[data[e]] = "failing" THEN "error" ELSE "join")
  /\ UNCHANGED <<worldVars, masterVars, got, given, dictVars, kv, server>>

\* Mutant: a failed task is started again.
SetErrorRetries(e) ==
  /\ tpc[e] = "error"
  /\ Tell(e, "ERROR")
  /\ Goto(e, "running")
  /\ UNCHANGED <<worldVars, masterVars, got, given, dictVars, kv>>

SetError(e) ==
  /\ tpc[e] = "error"
  /\ Tell(e, "ERROR")
  /\ Goto(e, "join")
  /\ UNCHANGED <<worldVars, masterVars, got, given, dictVars, kv>>

\* Mutant: the process set is not given back before the report.
JoinAndReport(e) ==
  /\ tpc[e] = "join"
  /\ Goto(e, "report")
  /\ UNCHANGED <<worldVars, masterVars, got, given, dictVars, kv, server>>

\* dyn_pset_init, dyn_pset_set_info, the barrier and dyn_pset_finalize, all on
\* a communicator of this one process; the main loop is switched off.
JoinAndLeave(e) ==
  /\ tpc[e] = "join"
  /\ Goto(e, "sub")
  /\ UNCHANGED <<worldVars, masterVars, got, given, dictVars, kv, server>>

\* The SUB operation, its finalization and MPI_Session_pset_barrier.
GiveBack(e) ==
  /\ tpc[e] = "sub"
  /\ given' = [given EXCEPT ![e] = TRUE]
  /\ Goto(e, "report")
  /\ UNCHANGED <<worldVars, masterVars, got, dictVars, kv, server>>

\* Mutant: a state the server does not know.
ReportEndFinished(e) ==
  /\ tpc[e] = "report"
  /\ Tell(e, "FINISHED")
  /\ Goto(e, "exit")
  /\ UNCHANGED <<worldVars, masterVars, got, given, dictVars, kv>>

\* A master process reports TERMINATED, however execute returned.
ReportEnd(e) ==
  /\ tpc[e] = "report"
  /\ Tell(e, "TERMINATED")
  /\ Goto(e, "exit")
  /\ UNCHANGED <<worldVars, masterVars, got, given, dictVars, kv>>

Task(e) ==
  \/ WaitPtype(e) \/ WaitData(e) \/ GetDetail(e) \/ GetMainPset(e) \/ Load(e)
  \/ SetRunning(e) \/ Work(e) \/ SetError(e) \/ JoinAndLeave(e) \/ GiveBack(e)
  \/ ReportEnd(e)

Next == Client \/ Master \/ \E e \in Launches : Task(e)

Spec == Init /\ [][Next]_vars

\* The graph master and the launched processes run; clients need not come.
Fairness == WF_vars(Master) /\ \A e \in Launches : WF_vars(Task(e))

FairSpec == Spec /\ Fairness

-----------------------------------------------------------------------------
(* Properties. *)

\* Every variable has its type.
TypeOK ==
  /\ nature \in [Ids -> Natures]
  /\ lossy \in BOOLEAN
  /\ gpc \in MasterSteps /\ id \in Ids /\ count \in 0 .. MaxLaunch
  /\ tpc \in [Launches -> TaskSteps]
  /\ keys \in [Launches -> SUBSET Keys]
  /\ data \in [Launches -> Ids]
  /\ got \in [Launches -> BOOLEAN]
  /\ given \in [Launches -> BOOLEAN]
  /\ kv \in [Ids -> 0 .. MaxLaunch]
  /\ server \in [Ids -> TaskStates]
  /\ requested \subseteq Tasks

\* A launched process that asks the key store for its set gets its own or a
\* later launch's, never an older one and never nothing: "ptype" is published
\* last, after the PUT (sessions.c:743-754).  Holds if no request fails.
LookupIsFresh ==
  ~ lossy => \A e \in Launches : tpc[e] = "lookup" => kv[data[e]] >= e

\* The server hears that a task is TERMINATED only when the process of some
\* launch of it was given back to the runtime (sessions.c:823-853).
TerminatedIsGivenBack ==
  \A t \in Ids : server[t] = "TERMINATED" =>
    \E e \in Launches : data[e] = t /\ given[e]

Before == [none |-> 0, RUNNING |-> 1, ERROR |-> 2, TERMINATED |-> 3]
LaunchesOf(t) == {e \in Launches : tpc[e] # "off" /\ "data" \in keys[e] /\ data[e] = t}

\* The states the server hears of a task that is launched once only move
\* forward: nothing, RUNNING, ERROR, TERMINATED.
StatesMoveForward ==
  [][\A t \in Ids : Cardinality(LaunchesOf(t)) <= 1
       => Before[server'[t]] >= Before[server[t]]]_vars

\* For every task a client asked for, the end of its execution is eventually
\* reported, as ERROR (sessions.c:330-332) or as TERMINATED (sessions.c:849-853),
\* also when the graph master is told to end meanwhile, if no report is lost.
RequestedEnds ==
  \A t \in Tasks : ~ lossy /\ t \in requested ~> server[t] \in {"ERROR", "TERMINATED"}

\* A failed task stays in state ERROR: execute reports TERMINATED only in the
\* branch of success (sessions.c:330-335, where that report is commented out).
ErrorIsKept ==
  [][\A t \in Ids : server[t] = "ERROR" => server'[t] # "TERMINATED"]_vars

=============================================================================
