------------------------------ MODULE Executor ------------------------------
(***************************************************************************)
(* The static master/worker executor: the REST gateway (api.c) and the     *)
(* MPI program (mpii.c).                                                   *)
(*                                                                         *)
(* Every POST is handled by a thread of the gateway, which connects to the *)
(* master's UNIX socket and writes the request.  Rank 0 runs two threads   *)
(* that share the array "available": the master thread accepts requests    *)
(* and sends each to the first available worker, and the listener thread   *)
(* marks a worker available again when its DONE message arrives.  Every    *)
(* other rank is a worker that executes one task after another and reports *)
(* the state of the task to an HTTP server.                                *)
(***************************************************************************)
EXTENDS Integers, Sequences, FiniteSets

CONSTANTS
  Requests,    \* the requests that clients ever POST
  N,           \* number of workers: size - 1
  Backlog,     \* connections that may wait in the socket (listen(sock, 5))
  LossyHttp,   \* TRUE: a state report may be lost on its way to the server
  None         \* no request

ASSUME NAssumption == N \in 1 .. 15            \* int available[16]
ASSUME BacklogAssumption == Backlog \in Nat \ {0}
ASSUME LossyAssumption == LossyHttp \in BOOLEAN
ASSUME NoneAssumption == None \notin Requests

Workers == 1 .. N

\* What a request carries, as far as the program can tell requests apart:
\* not JSON; longer than the master's buffer, so cut and unparsable; of
\* executionType BULK; a SINGLE task that can run; and a SINGLE task that
\* asks for a file whose name is too short.
Bodies == {"invalid", "oversize", "bulk", "task", "shortinput"}

GatewayStates == {"new", "connect", "write", "replied", "rejected"}
MasterStates == {"boot", "accept", "read", "scan", "lock", "send", "mark"}
ListenerStates == {"off", "recv", "lock", "set"}
WorkerStates == {"recv", "running", "pipeline", "done", "report"}
Fates == {"none", "refused", "ignored", "dropped", "sent"}
Final == {"ERROR", "TERMINATED"}
TaskStates == {"none", "RUNNING"} \cup Final

VARIABLES
  body,        \* body[r]: what the client posts
  gw,          \* gw[r]: where the gateway thread handling r is
  listening,   \* the master has bound its socket and listens
  backlog,     \* connections not yet accepted, oldest first
  mpc,         \* where the master thread is
  cur,         \* the request of the connection the master serves
  slot,        \* the loop index i of execute_master
  available,   \* available[w]: the array the two threads of rank 0 share
  mutex,       \* who holds the pthread mutex: "free", "master", "listener"
  lpc,         \* where the listener thread is
  source,      \* status.MPI_SOURCE of the listener's last message
  inbox,       \* inbox[w]: WORK messages on their way to w
  done,        \* done[w]: DONE messages of w that were not yet received
  wpc,         \* where worker w is
  wtask,       \* the task worker w is executing or reporting
  taskState,   \* taskState[r]: the last state the HTTP server heard of
  fate,        \* history: what rank 0 did with the request
  starts,      \* history: how many workers took the request up
  back         \* history: the workers that became available again after the
               \* search that is going on had found them busy

gatewayVars == <<body, gw>>
socketVars == <<listening, backlog>>
masterVars == <<mpc, cur, slot>>
listenerVars == <<lpc, source>>
workerVars == <<wpc, wtask, taskState, starts>>
vars == <<body, gw, listening, backlog, mpc, cur, slot, available, mutex, lpc,
          source, inbox, done, wpc, wtask, taskState, fate, starts, back>>

\* main up to the creation of the listener thread: rank 0 has marked every
\* worker available, the workers wait for WORK.
Init ==
  /\ body \in [Requests -> Bodies]
  /\ gw = [r \in Requests |-> "new"]
  /\ listening = FALSE /\ backlog = <<>>
  /\ mpc = "boot" /\ cur = None /\ slot = 1
  /\ available = [w \in Workers |-> TRUE]
  /\ mutex = "free"
  /\ lpc = "off" /\ source = 1
  /\ inbox = [w \in Workers |-> <<>>]
  /\ done = [w \in Workers |-> 0]
  /\ wpc = [w \in Workers |-> "recv"]
  /\ wtask = [w \in Workers |-> None]
  /\ taskState = [r \in Requests |-> "none"]
  /\ fate = [r \in Requests |-> "none"]
  /\ starts = [r \in Requests |-> 0]
  /\ back = {}

-----------------------------------------------------------------------------
(* The gateway: one thread per POST. *)

\* callback_post: a body that is not JSON is answered without being forwarded.
Post(r) ==
  /\ gw[r] = "new"
  /\ gw' = [gw EXCEPT ![r] = IF body[r] = "invalid" THEN "rejected" ELSE "connect"]
  /\ UNCHANGED <<body, socketVars, masterVars, available, mutex, listenerVars,
                 inbox, done, workerVars, fate, back>>

\* send_to_mpi, connect fails: nobody listens on the socket yet.  The client
\* is answered 200 all the same.
ConnectRefused(r) ==
  /\ gw[r] = "connect"
  /\ ~ listening
  /\ gw' = [gw EXCEPT ![r] = "replied"]
  /\ fate' = [fate EXCEPT ![r] = "refused"]
  /\ UNCHANGED <<body, socketVars, masterVars, available, mutex, listenerVars,
                 inbox, done, workerVars, back>>

\* send_to_mpi, connect succeeds; it blocks while the socket's queue is full.
Connect(r) ==
  /\ gw[r] = "connect"
  /\ listening
  /\ Len(backlog) < Backlog
  /\ backlog' = Append(backlog, r)
  /\ gw' = [gw EXCEPT ![r] = "write"]
  /\ UNCHANGED <<body, listening, masterVars, available, mutex, listenerVars,
                 inbox, done, workerVars, fate, back>>

\* send_to_mpi writes and closes, callback_post replies 200.
Write(r) ==
  /\ gw[r] = "write"
  /\ gw' = [gw EXCEPT ![r] = "replied"]
  /\ UNCHANGED <<body, socketVars, masterVars, available, mutex, listenerVars,
                 inbox, done, workerVars, fate, back>>

-----------------------------------------------------------------------------
(* Rank 0, the master thread. *)

\* The listener thread is created, then the socket is bound and listens.
Listen ==
  /\ mpc = "boot"
  /\ mpc' = "accept"
  /\ lpc' = "recv"
  /\ listening' = TRUE
  /\ UNCHANGED <<gatewayVars, backlog, cur, slot, available, mutex, source,
                 inbox, done, workerVars, fate, back>>

Accept ==
  /\ mpc = "accept"
  /\ backlog # <<>>
  /\ cur' = Head(backlog)
  /\ backlog' = Tail(backlog)
  /\ mpc' = "read"
  /\ UNCHANGED <<gatewayVars, listening, slot, available, mutex, listenerVars,
                 inbox, done, workerVars, fate, back>>

\* Mutant: the search leaves out the first worker.
ReadSkipsFirst ==
  /\ mpc = "read"
  /\ gw[cur] = "replied"
  /\ \/ /\ body[cur] \in {"oversize", "bulk"}
        /\ fate' = [fate EXCEPT ![cur] = "ignored"]
        /\ mpc' = "accept" /\ cur' = None
        /\ UNCHANGED <<slot, back>>
     \/ /\ body[cur] \in {"task", "shortinput"}
        /\ mpc' = "scan" /\ slot' = 2 /\ back' = {}
        /\ UNCHANGED <<cur, fate>>
  /\ UNCHANGED <<gatewayVars, socketVars, available, mutex, listenerVars,
                 inbox, done, workerVars>>

\* read blocks until the gateway has written.  execute_master then parses:
\* what does not parse and what is BULK is not acted on, and the connection
\* is closed; a SINGLE request starts the search for a worker.
Read ==
  /\ mpc = "read"
  /\ gw[cur] = "replied"
  /\ \/ /\ body[cur] \in {"oversize", "bulk"}
        /\ fate' = [fate EXCEPT ![cur] = "ignored"]
        /\ mpc' = "accept" /\ cur' = None
        /\ UNCHANGED <<slot, back>>
     \/ /\ body[cur] \in {"task", "shortinput"}
        /\ mpc' = "scan" /\ slot' = 1 /\ back' = {}
        /\ UNCHANGED <<cur, fate>>
  /\ UNCHANGED <<gatewayVars, socketVars, available, mutex, listenerVars,
                 inbox, done, workerVars>>

\* Mutant: the loop runs to i <= size.
ScanMissOverrun ==
  /\ mpc = "scan"
  /\ ~ available[slot]
  /\ IF slot < N + 1
     THEN slot' = slot + 1 /\ UNCHANGED <<mpc, cur, fate>>
     ELSE /\ mpc' = "accept" /\ cur' = None
          /\ fate' = [fate EXCEPT ![cur] = "dropped"]
          /\ UNCHANGED slot
  /\ UNCHANGED <<gatewayVars, socketVars, available, mutex, listenerVars,
                 inbox, done, workerVars, back>>

\* available[i] is read without the mutex; after the last worker the loop
\* ends, the request is forgotten and its connection closed.
ScanMiss ==
  /\ mpc = "scan"
  /\ ~ available[slot]
  /\ IF slot < N
     THEN slot' = slot + 1 /\ UNCHANGED <<mpc, cur, fate>>
     ELSE /\ mpc' = "accept" /\ cur' = None
          /\ fate' = [fate EXCEPT ![cur] = "dropped"]
          /\ UNCHANGED slot
  /\ UNCHANGED <<gatewayVars, socketVars, available, mutex, listenerVars,
                 inbox, done, workerVars, back>>

ScanHit ==
  /\ mpc = "scan"
  /\ available[slot]
  /\ mpc' = "lock"
  /\ UNCHANGED <<gatewayVars, socketVars, cur, slot, available, mutex,
                 listenerVars, inbox, done, workerVars, fate, back>>

MasterLock ==
  /\ mpc = "lock"
  /\ mutex = "free"
  /\ mutex' = "master"
  /\ mpc' = "send"
  /\ UNCHANGED <<gatewayVars, socketVars, cur, slot, available, listenerVars,
                 inbox, done, workerVars, fate, back>>

\* MPI_Isend: the worker may receive the task before it is marked busy.
Isend ==
  /\ mpc = "send"
  /\ inbox' = [inbox EXCEPT ![slot] = Append(@, cur)]
  /\ fate' = [fate EXCEPT ![cur] = "sent"]
  /\ mpc' = "mark"
  /\ UNCHANGED <<gatewayVars, socketVars, cur, slot, available, mutex,
                 listenerVars, done, workerVars, back>>

\* Mutant: the break that ends the search is missing.
MarkBusyNoBreak ==
  /\ mpc = "mark"
  /\ available' = [available EXCEPT ![slot] = FALSE]
  /\ mutex' = "free"
  /\ IF slot < N THEN mpc' = "scan" /\ slot' = slot + 1 /\ UNCHANGED cur
                 ELSE mpc' = "accept" /\ cur' = None /\ UNCHANGED slot
  /\ UNCHANGED <<gatewayVars, socketVars, listenerVars, inbox, done,
                 workerVars, fate, back>>

\* available[i] = 0, unlock, break; the connection is closed.
MarkBusy ==
  /\ mpc = "mark"
  /\ available' = [available EXCEPT ![slot] = FALSE]
  /\ mutex' = "free"
  /\ mpc' = "accept" /\ cur' = None
  /\ UNCHANGED <<gatewayVars, socketVars, slot, listenerVars, inbox, done,
                 workerVars, fate, back>>

Master ==
  \/ Listen \/ Accept \/ Read \/ ScanMiss \/ ScanHit
  \/ MasterLock \/ Isend \/ MarkBusy

-----------------------------------------------------------------------------
(* Rank 0, the listener thread: listen_for_availability. *)

\* MPI_Recv from any source.
RecvDone(w) ==
  /\ lpc = "recv"
  /\ done[w] > 0
  /\ done' = [done EXCEPT ![w] = @ - 1]
  /\ source' = w
  /\ lpc' = "lock"
  /\ UNCHANGED <<gatewayVars, socketVars, masterVars, available, mutex, inbox,
                 workerVars, fate, back>>

\* Mutant: the listener does not wait for the mutex.
ListenerLockIgnored ==
  /\ lpc = "lock"
  /\ lpc' = "set"
  /\ UNCHANGED <<gatewayVars, socketVars, masterVars, available, source, mutex,
                 inbox, done, workerVars, fate, back>>

ListenerLock ==
  /\ lpc = "lock"
  /\ mutex = "free"
  /\ mutex' = "listener"
  /\ lpc' = "set"
  /\ UNCHANGED <<gatewayVars, socketVars, masterVars, available, source, inbox,
                 done, workerVars, fate, back>>

\* Mutant: the listener does not release the mutex.
SetAvailableKeepsLock ==
  /\ lpc = "set"
  /\ available' = [available EXCEPT ![source] = TRUE]
  /\ back' = IF mpc = "scan" /\ source < slot THEN back \cup {source} ELSE back
  /\ lpc' = "recv"
  /\ UNCHANGED <<gatewayVars, socketVars, masterVars, mutex, source, inbox, done,
                 workerVars, fate>>

SetAvailable ==
  /\ lpc = "set"
  /\ available' = [available EXCEPT ![source] = TRUE]
  /\ back' = IF mpc = "scan" /\ source < slot THEN back \cup {source} ELSE back
  /\ mutex' = "free"
  /\ lpc' = "recv"
  /\ UNCHANGED <<gatewayVars, socketVars, masterVars, source, inbox, done,
                 workerVars, fate>>

Listener == ListenerLock \/ SetAvailable \/ \E w \in Workers : RecvDone(w)

-----------------------------------------------------------------------------
(* The workers: worker_execute. *)

\* set_task_state: the report reaches the server, or fails and is only logged.
Told(r, s) ==
  \/ taskState' = [taskState EXCEPT ![r] = s]
  \/ LossyHttp /\ UNCHANGED taskState

RecvWork(w) ==
  /\ wpc[w] = "recv"
  /\ inbox[w] # <<>>
  /\ wtask' = [wtask EXCEPT ![w] = Head(inbox[w])]
  /\ inbox' = [inbox EXCEPT ![w] = Tail(@)]
  /\ starts' = [starts EXCEPT ![Head(inbox[w])] = @ + 1]
  /\ wpc' = [wpc EXCEPT ![w] = "running"]
  /\ UNCHANGED <<gatewayVars, socketVars, masterVars, available, mutex,
                 listenerVars, done, taskState, fate, back>>

SetRunning(w) ==
  /\ wpc[w] = "running"
  /\ Told(wtask[w], "RUNNING")
  /\ wpc' = [wpc EXCEPT ![w] = "pipeline"]
  /\ UNCHANGED <<gatewayVars, socketVars, masterVars, available, mutex,
                 listenerVars, inbox, done, wtask, starts, fate, back>>

\* pipeline: execute reads, sorts and writes files; success only depends on
\* the control of the file name.
Pipeline(w) ==
  /\ wpc[w] = "pipeline"
  /\ wpc' = [wpc EXCEPT ![w] = "done"]
  /\ UNCHANGED <<gatewayVars, socketVars, masterVars, available, mutex,
                 listenerVars, inbox, done, wtask, taskState, starts, fate, back>>

\* The verdict the worker reports for a task, from pipeline's success flag.
Verdict(r) == IF body[r] = "shortinput" THEN "ERROR" ELSE "TERMINATED"

\* Mutant: the branch of a failed task returns to the loop without DONE.
SendDoneOnSuccess(w) ==
  /\ wpc[w] = "done"
  /\ done' = IF Verdict(wtask[w]) = "ERROR" THEN done
                                            ELSE [done EXCEPT ![w] = @ + 1]
  /\ wpc' = [wpc EXCEPT ![w] = "report"]
  /\ UNCHANGED <<gatewayVars, socketVars, masterVars, available, mutex,
                 listenerVars, inbox, wtask, taskState, starts, fate, back>>

\* DONE is sent on both branches, before the final state is reported: the
\* master may send the next task while this one is still being reported.
SendDone(w) ==
  /\ wpc[w] = "done"
  /\ done' = [done EXCEPT ![w] = @ + 1]
  /\ wpc' = [wpc EXCEPT ![w] = "report"]
  /\ UNCHANGED <<gatewayVars, socketVars, masterVars, available, mutex,
                 listenerVars, inbox, wtask, taskState, starts, fate, back>>

\* Mutant: a failed task continues the loop without its report.
ReportOnSuccess(w) ==
  /\ wpc[w] = "report"
  /\ IF Verdict(wtask[w]) = "ERROR" THEN UNCHANGED taskState
                                    ELSE Told(wtask[w], "TERMINATED")
  /\ wpc' = [wpc EXCEPT ![w] = "recv"]
  /\ wtask' = [wtask EXCEPT ![w] = None]
  /\ UNCHANGED <<gatewayVars, socketVars, masterVars, available, mutex,
                 listenerVars, inbox, done, starts, fate, back>>

Report(w) ==
  /\ wpc[w] = "report"
  /\ Told(wtask[w], Verdict(wtask[w]))
  /\ wpc' = [wpc EXCEPT ![w] = "recv"]
  /\ wtask' = [wtask EXCEPT ![w] = None]
  /\ UNCHANGED <<gatewayVars, socketVars, masterVars, available, mutex,
                 listenerVars, inbox, done, starts, fate, back>>

Gateway(r) == Post(r) \/ ConnectRefused(r) \/ Connect(r) \/ Write(r)

Worker(w) ==
  RecvWork(w) \/ SetRunning(w) \/ Pipeline(w) \/ SendDone(w) \/ Report(w)

Next ==
  \/ \E r \in Requests : Gateway(r)
  \/ Master
  \/ Listener
  \/ \E w \in Workers : Worker(w)

Spec == Init /\ [][Next]_vars

\* Every thread and every rank runs until it blocks.  The mutex is taken
\* finitely often by the master (there are finitely many requests), so weak
\* fairness is enough for the listener to get it.
Fairness ==
  /\ \A r \in Requests : WF_vars(Gateway(r))
  /\ WF_vars(Master)
  /\ WF_vars(Listener)
  /\ \A w \in Workers : WF_vars(Worker(w))

FairSpec == Spec /\ Fairness

-----------------------------------------------------------------------------
(* Properties. *)

\* Every variable has its type; in particular the index of the search never
\* leaves the workers of the array "available" (mpii.c, execute_master).
TypeOK ==
  /\ body \in [Requests -> Bodies]
  /\ gw \in [Requests -> GatewayStates]
  /\ listening \in BOOLEAN
  /\ backlog \in Seq(Requests)
  /\ mpc \in MasterStates
  /\ cur \in Requests \cup {None}
  /\ slot \in Workers
  /\ available \in [Workers -> BOOLEAN]
  /\ mutex \in {"free", "master", "listener"}
  /\ lpc \in ListenerStates
  /\ source \in Workers
  /\ inbox \in [Workers -> Seq(Requests)]
  /\ done \in [Workers -> Nat]
  /\ wpc \in [Workers -> WorkerStates]
  /\ wtask \in [Workers -> Requests \cup {None}]
  /\ taskState \in [Requests -> TaskStates]
  /\ fate \in [Requests -> Fates]
  /\ starts \in [Requests -> Nat]
  /\ back \subseteq Workers

One(b) == IF b THEN 1 ELSE 0

\* The places where the knowledge that worker w is free, or the work that
\* keeps it busy, can be: the array, a WORK message, the worker itself, a
\* DONE message, the listener.
Tokens(w) ==
  One(available[w]) + Len(inbox[w])
    + One(wpc[w] \in {"running", "pipeline", "done"}) + done[w]
    + One(lpc \in {"lock", "set"} /\ source = w)

\* Each worker is accounted for exactly once: it is never lost to the pool
\* (no place) and never given two tasks (two places), whatever the order in
\* which the master, the listener and the worker run.  The one exception is
\* the master between MPI_Isend and available[i] = 0 (mpii.c:349-350), the
\* window the mutex is there for.
WorkerAccounting ==
  \A w \in Workers : Tokens(w) = 1 + One(mpc = "mark" /\ slot = w)

\* No request is executed by two workers or twice by one, and one that rank 0
\* dropped or ignored is executed by none (execute_master: one MPI_Isend per
\* request, then break).
AtMostOnce ==
  \A r \in Requests : starts[r] <= One(fate[r] = "sent")

\* The server never sees the state of a task change after it was final, though
\* a worker reports that state only after it has made itself available and may
\* have a new task waiting (mpii.c:274-281).
FinalStateIsFinal ==
  [][\A r \in Requests : taskState[r] \in Final => taskState'[r] = taskState[r]]_vars

\* Worker w has a task to run, or its end is still on the way to the array.
Occupied(w) ==
  \/ inbox[w] # <<>>
  \/ wpc[w] \in {"running", "pipeline", "done"}
  \/ done[w] > 0
  \/ lpc \in {"lock", "set"} /\ source = w

\* At the moment a request is dropped for want of a worker (mpii.c:342-359),
\* every single worker has a task or is on its way back to the array, or came
\* back while the search was going on, after its entry had been read.  No
\* worker is passed over although it had been free from the start.
DropNeedsFullPool ==
  [][\A r \in Requests : fate[r] # "dropped" /\ fate'[r] = "dropped"
       => \A w \in Workers : Occupied(w) \/ w \in back]_vars

\* A worker made busy becomes available again: no DONE message is lost between
\* the worker, the listener and the array.
WorkerComesBack ==
  \A w \in Workers : ~ available[w] ~> available[w]

\* Every task that was sent to a worker is eventually reported as ERROR or
\* TERMINATED, provided the HTTP server can be reached.
SentIsSettled ==
  \A r \in Requests : fate[r] = "sent" ~> taskState[r] \in Final

\* Every request that was answered 200 is eventually decided on by rank 0:
\* refused, ignored, dropped or sent.
AcceptedIsDecided ==
  \A r \in Requests : gw[r] = "replied" ~> fate[r] # "none"

-----------------------------------------------------------------------------
(* The executor implements the abstract service. *)

\* A task is assigned from MPI_Isend on, and worked on until DONE is sent.
Assigned(w) ==
  IF wpc[w] \in {"running", "pipeline", "done"} THEN wtask[w]
  ELSE IF inbox[w] # <<>> THEN Head(inbox[w]) ELSE None

Service == INSTANCE TaskService WITH
  working <- [w \in Workers |-> Assigned(w)],
  reporting <- [w \in Workers |-> IF wpc[w] = "report" THEN wtask[w] ELSE None],
  known <- taskState,
  decided <- {r \in Requests : fate[r] # "none"}

\* Sockets, threads, mutex and messages together do what the abstract service
\* does: one decision per request, one task per worker at a time, and the
\* reports of a worker's successive tasks in order.
ImplementsTaskService == Service!Spec

=============================================================================
