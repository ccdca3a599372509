-------------------------- MODULE Executor_proofs ---------------------------
(* Theorems about Executor, checked by TLAPS for every N and every Requests. *)
EXTENDS Executor, TLAPS

\* The mutex is held by whoever is in its critical section.
MutexInv ==
  /\ mutex = "master" <=> mpc \in {"send", "mark"}
  /\ mutex = "listener" <=> lpc = "set"
  /\ mpc = "boot" => lpc = "off"

\* The master serves a request, and a worker past MPI_Recv has a task.
ServingInv ==
  /\ mpc \in {"read", "scan", "lock", "send", "mark"} => cur \in Requests
  /\ \A w \in Workers : wpc[w] # "recv" => wtask[w] \in Requests

\* Only the master clears the array: what it read without the mutex still
\* holds when it sends.
ScanInv == mpc \in {"lock", "send", "mark"} => available[slot]

IInv == TypeOK /\ MutexInv /\ ServingInv /\ ScanInv /\ WorkerAccounting

\* The first state has the types of the program's variables.
LEMMA InitType == Init => TypeOK
<1> SUFFICES ASSUME Init PROVE TypeOK
  OBVIOUS
<1>1. inbox \in [Workers -> Seq(Requests)] /\ backlog \in Seq(Requests)
  <2>1. <<>> \in Seq(Requests)
    OBVIOUS
  <2> QED
    BY <2>1, Zenon DEF Init
<1>2. /\ gw \in [Requests -> GatewayStates]
      /\ taskState \in [Requests -> TaskStates]
      /\ fate \in [Requests -> Fates]
      /\ wpc \in [Workers -> WorkerStates]
  BY DEF Init, GatewayStates, TaskStates, Fates, WorkerStates
<1>3. /\ available \in [Workers -> BOOLEAN]
      /\ done \in [Workers -> Nat]
      /\ wtask \in [Workers -> Requests \cup {None}]
      /\ starts \in [Requests -> Nat]
  BY DEF Init
<1>4. /\ body \in [Requests -> Bodies]
      /\ listening \in BOOLEAN
      /\ mpc \in MasterStates /\ cur \in Requests \cup {None}
      /\ mutex \in {"free", "master", "listener"} /\ lpc \in ListenerStates
  BY DEF Init, MasterStates, ListenerStates
<1>5. slot \in Workers /\ source \in Workers /\ back \subseteq Workers
  BY NAssumption DEF Init, Workers
<1> QED
  BY <1>1, <1>2, <1>3, <1>4, <1>5, Zenon DEF TypeOK

\* Every step keeps the types, given what is known of the serving threads.
LEMMA StepType == TypeOK /\ ServingInv /\ [Next]_vars => TypeOK'
<1> SUFFICES ASSUME TypeOK, ServingInv, [Next]_vars PROVE TypeOK'
  OBVIOUS
<1> USE NAssumption DEF TypeOK, ServingInv, gatewayVars, socketVars, masterVars,
        listenerVars, workerVars, GatewayStates, MasterStates,
        ListenerStates, WorkerStates, Fates, TaskStates, Final
<1>1. ASSUME NEW r \in Requests, Post(r) PROVE TypeOK'
  BY <1>1 DEF Post
<1>2. ASSUME NEW r \in Requests, ConnectRefused(r) PROVE TypeOK'
  BY <1>2 DEF ConnectRefused
<1>3. ASSUME NEW r \in Requests, Connect(r) PROVE TypeOK'
  BY <1>3 DEF Connect
<1>4. ASSUME NEW r \in Requests, Write(r) PROVE TypeOK'
  BY <1>4 DEF Write
<1>5. CASE Listen
  BY <1>5 DEF Listen
<1>6. CASE Accept
  <2>1. cur' \in Requests /\ backlog' \in Seq(Requests)
    BY <1>6 DEF Accept
  <2> QED
    BY <1>6, <2>1 DEF Accept
<1>7. CASE Read
  <2>1. cur \in Requests
    BY <1>7 DEF Read
  <2>2. fate' \in [Requests -> Fates]
    BY <1>7, <2>1 DEF Read
  <2>3. mpc' \in MasterStates /\ slot' \in Workers /\ cur' \in Requests \cup {None}
    BY <1>7, <2>1 DEF Read, Workers
  <2>4. back' \subseteq Workers
    BY <1>7 DEF Read
  <2>5. /\ body' = body /\ gw' = gw /\ listening' = listening
        /\ backlog' = backlog /\ available' = available /\ mutex' = mutex
        /\ lpc' = lpc /\ source' = source /\ inbox' = inbox /\ done' = done
        /\ wpc' = wpc /\ wtask' = wtask /\ taskState' = taskState
        /\ starts' = starts
    BY <1>7 DEF Read
  <2> QED
    BY <2>2, <2>3, <2>4, <2>5
<1>8. CASE ScanMiss
  <2>1. slot < N => slot + 1 \in Workers
    BY <1>8 DEF ScanMiss, Workers
  <2>2. slot' \in Workers /\ mpc' \in MasterStates /\ cur' \in Requests \cup {None}
    BY <1>8, <2>1 DEF ScanMiss
  <2>3. fate' \in [Requests -> Fates]
    BY <1>8 DEF ScanMiss
  <2> QED
    BY <1>8, <2>2, <2>3 DEF ScanMiss
<1>9. CASE ScanHit
  BY <1>9 DEF ScanHit
<1>10. CASE MasterLock
  BY <1>10 DEF MasterLock
<1>11. CASE Isend
  <2>1. cur \in Requests /\ slot \in Workers
    BY <1>11 DEF Isend
  <2>2. Append(inbox[slot], cur) \in Seq(Requests)
    BY <2>1
  <2>3. inbox' \in [Workers -> Seq(Requests)]
    BY <1>11, <2>1, <2>2 DEF Isend
  <2>4. fate' \in [Requests -> Fates]
    BY <1>11, <2>1 DEF Isend
  <2> QED
    BY <1>11, <2>3, <2>4 DEF Isend
<1>12. CASE MarkBusy
  BY <1>12 DEF MarkBusy
<1>13. ASSUME NEW w \in Workers, RecvDone(w) PROVE TypeOK'
  <2>1. done[w] - 1 \in Nat
    BY <1>13 DEF RecvDone
  <2>2. done' \in [Workers -> Nat]
    BY <1>13, <2>1 DEF RecvDone
  <2>3. source' \in Workers /\ lpc' \in ListenerStates
    BY <1>13 DEF RecvDone
  <2> QED
    BY <1>13, <2>2, <2>3 DEF RecvDone
<1>14. CASE ListenerLock
  BY <1>14 DEF ListenerLock
<1>15. CASE SetAvailable
  BY <1>15 DEF SetAvailable
<1>16. ASSUME NEW w \in Workers, RecvWork(w) PROVE TypeOK'
  <2>1. /\ inbox[w] \in Seq(Requests) /\ inbox[w] # <<>>
        /\ wpc' = [wpc EXCEPT ![w] = "running"]
    BY <1>16 DEF RecvWork
  <2>2. Head(inbox[w]) \in Requests /\ Tail(inbox[w]) \in Seq(Requests)
    BY <2>1
  <2>3. inbox' \in [Workers -> Seq(Requests)]
    BY <1>16, <2>2 DEF RecvWork
  <2>4. starts' \in [Requests -> Nat]
    BY SMTT(30), <1>16, <2>2 DEF RecvWork
  <2>5. wtask' \in [Workers -> Requests \cup {None}]
    BY <1>16, <2>2 DEF RecvWork
  <2> QED
    BY <1>16, <2>3, <2>4, <2>5 DEF RecvWork
<1>17. ASSUME NEW w \in Workers, SetRunning(w) PROVE TypeOK'
  BY ZenonT(60), <1>17 DEF SetRunning, Told
<1>18. ASSUME NEW w \in Workers, Pipeline(w) PROVE TypeOK'
  BY <1>18 DEF Pipeline
<1>19. ASSUME NEW w \in Workers, SendDone(w) PROVE TypeOK'
  BY SMTT(30), <1>19 DEF SendDone
<1>20. ASSUME NEW w \in Workers, Report(w) PROVE TypeOK'
  BY ZenonT(60), <1>20 DEF Report, Told, Verdict
<1>21. CASE UNCHANGED vars
  BY <1>21 DEF vars
<1> QED
  BY <1>1, <1>2, <1>3, <1>4, <1>5, <1>6, <1>7, <1>8, <1>9, <1>10, <1>11, <1>12,
     <1>13, <1>14, <1>15, <1>16, <1>17, <1>18, <1>19, <1>20, <1>21
     DEF Next, Gateway, Master, Listener, Worker

\* Every step keeps it true that the mutex is held exactly by the thread that is
\* in its critical section.
LEMMA StepMutex == TypeOK /\ MutexInv /\ [Next]_vars => MutexInv'
<1> SUFFICES ASSUME TypeOK, MutexInv, [Next]_vars PROVE MutexInv'
  OBVIOUS
<1> USE DEF MutexInv, socketVars, masterVars, listenerVars
<1>1. ASSUME NEW r \in Requests, Gateway(r) PROVE MutexInv'
  BY <1>1 DEF Gateway, Post, ConnectRefused, Connect, Write
<1>2. CASE Master
  <2>1. CASE Listen
    BY <2>1 DEF Listen
  <2>2. CASE Accept \/ Read \/ ScanMiss \/ ScanHit
    BY <2>2 DEF Accept, Read, ScanMiss, ScanHit
  <2>3. CASE MasterLock \/ Isend \/ MarkBusy
    BY <2>3 DEF MasterLock, Isend, MarkBusy
  <2> QED
    BY <1>2, <2>1, <2>2, <2>3 DEF Master
<1>3. CASE Listener
  BY <1>3 DEF Listener, RecvDone, ListenerLock, SetAvailable
<1>4. ASSUME NEW w \in Workers, Worker(w) PROVE MutexInv'
  BY <1>4 DEF Worker, RecvWork, SetRunning, Pipeline, SendDone, Report
<1>5. CASE UNCHANGED vars
  BY <1>5 DEF vars
<1> QED
  BY <1>1, <1>2, <1>3, <1>4, <1>5 DEF Next

\* Every step keeps it true that a master that serves a request has one, and a
\* worker that executes or reports a task has one.
LEMMA StepServing == TypeOK /\ ServingInv /\ [Next]_vars => ServingInv'
<1> SUFFICES ASSUME TypeOK, ServingInv, [Next]_vars PROVE ServingInv'
  OBVIOUS
<1> USE DEF ServingInv, socketVars, masterVars, listenerVars, workerVars
<1>1. ASSUME NEW r \in Requests, Gateway(r) PROVE ServingInv'
  BY <1>1 DEF Gateway, Post, ConnectRefused, Connect, Write
<1>2. CASE Master
  <2>1. CASE Accept
    <3>1. Head(backlog) \in Requests
      BY <2>1 DEF Accept, TypeOK
    <3> QED
      BY <2>1, <3>1 DEF Accept
  <2>2. CASE Listen \/ Read \/ ScanMiss \/ ScanHit
    BY <2>2 DEF Listen, Read, ScanMiss, ScanHit
  <2>3. CASE MasterLock \/ Isend \/ MarkBusy
    BY <2>3 DEF MasterLock, Isend, MarkBusy
  <2> QED
    BY <1>2, <2>1, <2>2, <2>3 DEF Master
<1>3. CASE Listener
  BY <1>3 DEF Listener, RecvDone, ListenerLock, SetAvailable
<1>4. ASSUME NEW w \in Workers, Worker(w) PROVE ServingInv'
  <2>1. CASE RecvWork(w)
    <3>1. Head(inbox[w]) \in Requests
      BY <2>1 DEF RecvWork, TypeOK
    <3> QED
      BY <2>1, <3>1 DEF RecvWork, TypeOK
  <2>2. CASE SetRunning(w) \/ Pipeline(w) \/ SendDone(w)
    BY <2>2 DEF SetRunning, Pipeline, SendDone, TypeOK
  <2>3. CASE Report(w)
    BY <2>3 DEF Report, TypeOK
  <2> QED
    BY <1>4, <2>1, <2>2, <2>3 DEF Worker
<1>5. CASE UNCHANGED vars
  BY <1>5 DEF vars
<1> QED
  BY <1>1, <1>2, <1>3, <1>4, <1>5 DEF Next

\* Every step keeps it true that the worker the master has found free stays
\* free until it is marked busy: the listener only ever sets entries to 1.
LEMMA StepScan == TypeOK /\ ScanInv /\ [Next]_vars => ScanInv'
<1> SUFFICES ASSUME TypeOK, ScanInv, [Next]_vars PROVE ScanInv'
  OBVIOUS
<1> USE DEF ScanInv, TypeOK, socketVars, masterVars, listenerVars
<1>1. ASSUME NEW r \in Requests, Gateway(r) PROVE ScanInv'
  BY <1>1 DEF Gateway, Post, ConnectRefused, Connect, Write
<1>2. CASE Master
  BY <1>2 DEF Master, Listen, Accept, Read, ScanMiss, ScanHit, MasterLock,
     Isend, MarkBusy
<1>3. CASE Listener
  BY <1>3 DEF Listener, RecvDone, ListenerLock, SetAvailable
<1>4. ASSUME NEW w \in Workers, Worker(w) PROVE ScanInv'
  BY <1>4 DEF Worker, RecvWork, SetRunning, Pipeline, SendDone, Report
<1>5. CASE UNCHANGED vars
  BY <1>5 DEF vars
<1> QED
  BY <1>1, <1>2, <1>3, <1>4, <1>5 DEF Next

\* Every step moves the one token of each worker, and the master between
\* MPI_Isend and available[i] = 0 holds a second one of its worker.
LEMMA StepAccounting == IInv /\ [Next]_vars => WorkerAccounting'
<1> SUFFICES ASSUME IInv, [Next]_vars, NEW v \in Workers
             PROVE Tokens(v)' = 1 + One(mpc = "mark" /\ slot = v)'
  BY DEF WorkerAccounting
<1> DEFINE A == One(available[v])
           L == Len(inbox[v])
           W == One(wpc[v] \in {"running", "pipeline", "done"})
           D == done[v]
           S == One(lpc \in {"lock", "set"} /\ source = v)
           M == One(mpc = "mark" /\ slot = v)
           Goal == A' + L' + W' + D' + S' = 1 + M'
<1>0. /\ A \in Int /\ L \in Int /\ W \in Int
      /\ D \in Int /\ S \in Int /\ M \in Int
      /\ A + L + W + D + S = 1 + M
  <2>1. Len(inbox[v]) \in Int /\ done[v] \in Int
    BY DEF IInv, TypeOK
  <2>2. \A b \in BOOLEAN : One(b) \in Int
    BY DEF One
  <2>3. Tokens(v) = 1 + One(mpc = "mark" /\ slot = v)
    BY DEF IInv, WorkerAccounting
  <2>4. A \in Int /\ W \in Int /\ S \in Int /\ M \in Int
    BY <2>2 DEF One
  <2> QED
    BY <2>1, <2>3, <2>4 DEF Tokens
<1> HIDE DEF A, L, W, D, S, M
<1> USE DEF socketVars, masterVars, listenerVars, workerVars
<1>1. ASSUME NEW r \in Requests, Gateway(r) PROVE Goal
  <2>1. A' = A /\ L' = L /\ W' = W /\ D' = D /\ S' = S /\ M' = M
    BY <1>1 DEF Gateway, Post, ConnectRefused, Connect, Write, A, L, W, D, S, M
  <2> QED
    BY <1>0, <2>1
<1>2. ASSUME Listen \/ Accept \/ Read \/ ScanMiss \/ ScanHit \/ MasterLock PROVE Goal
  <2>1. A' = A /\ L' = L /\ W' = W /\ D' = D
    BY <1>2 DEF Listen, Accept, Read, ScanMiss, ScanHit, MasterLock, A, L, W, D
  <2>2. S' = S /\ M' = M
    BY <1>2 DEF Listen, Accept, Read, ScanMiss, ScanHit, MasterLock, S, M,
       IInv, MutexInv, One
  <2> QED
    BY <1>0, <2>1, <2>2
<1>3. ASSUME Isend PROVE Goal
  <2>1. A' = A /\ W' = W /\ D' = D /\ S' = S
    BY <1>3 DEF Isend, A, W, D, S
  <2>2. CASE slot = v
    <3>1. L' = L + 1
      BY <1>3, <2>2 DEF Isend, L, IInv, TypeOK, ServingInv
    <3>2. M = 0 /\ M' = 1
      BY <1>3, <2>2 DEF Isend, M, One
    <3> QED
      BY <1>0, <2>1, <3>1, <3>2
  <2>3. CASE slot # v
    <3>1. L' = L /\ M = 0 /\ M' = 0
      BY <1>3, <2>3 DEF Isend, L, M, One, IInv, TypeOK
    <3> QED
      BY <1>0, <2>1, <3>1
  <2> QED
    BY <2>2, <2>3
<1>4. ASSUME MarkBusy PROVE Goal
  <2>1. L' = L /\ W' = W /\ D' = D /\ S' = S
    BY <1>4 DEF MarkBusy, L, W, D, S
  <2>2. CASE slot = v
    <3>1. available[v] /\ ~ available'[v]
      BY <1>4, <2>2 DEF MarkBusy, IInv, ScanInv, TypeOK
    <3>2. A = 1 /\ A' = 0
      BY <3>1 DEF A, One
    <3>3. M = 1 /\ M' = 0
      BY <1>4, <2>2 DEF MarkBusy, M, One
    <3> QED
      BY <1>0, <2>1, <3>2, <3>3
  <2>3. CASE slot # v
    <3>1. A' = A /\ M = 0 /\ M' = 0
      BY <1>4, <2>3 DEF MarkBusy, A, M, One, IInv, TypeOK
    <3> QED
      BY <1>0, <2>1, <3>1
  <2> QED
    BY <2>2, <2>3
<1>5. ASSUME NEW w \in Workers, RecvDone(w) PROVE Goal
  <2>1. A' = A /\ L' = L /\ W' = W /\ M' = M
    BY <1>5 DEF RecvDone, A, L, W, M
  <2>2. CASE w = v
    <3>1. D' = D - 1
      BY <1>5, <2>2 DEF RecvDone, D, IInv, TypeOK
    <3>2. S = 0 /\ S' = 1
      BY <1>5, <2>2 DEF RecvDone, S, One
    <3> QED
      BY <1>0, <2>1, <3>1, <3>2
  <2>3. CASE w # v
    <3>1. D' = D /\ S = 0 /\ S' = 0
      BY <1>5, <2>3 DEF RecvDone, D, S, One, IInv, TypeOK
    <3> QED
      BY <1>0, <2>1, <3>1
  <2> QED
    BY <2>2, <2>3
<1>6. ASSUME ListenerLock PROVE Goal
  <2>1. A' = A /\ L' = L /\ W' = W /\ D' = D /\ M' = M
    BY <1>6 DEF ListenerLock, A, L, W, D, M
  <2>2. S' = S
    BY <1>6 DEF ListenerLock, S, One
  <2> QED
    BY <1>0, <2>1, <2>2
<1>7. ASSUME SetAvailable PROVE Goal
  <2>1. L' = L /\ W' = W /\ D' = D /\ M' = M
    BY <1>7 DEF SetAvailable, L, W, D, M
  <2>2. S' = 0
    BY <1>7 DEF SetAvailable, S, One
  <2>3. CASE source = v
    <3>1. S = 1 /\ M = 0
      BY <1>7, <2>3 DEF SetAvailable, S, M, One, IInv, MutexInv
    <3>2. W \in Nat /\ L \in Nat /\ D \in Nat /\ A \in {0, 1}
      BY DEF W, L, D, A, One, IInv, TypeOK
    <3>3. available'[v]
      BY <1>7, <2>3 DEF SetAvailable, IInv, TypeOK
    <3>4. A = 0 /\ A' = 1
      BY <1>0, <3>1, <3>2, <3>3 DEF A, One
    <3> QED
      BY <1>0, <2>1, <2>2, <3>1, <3>4
  <2>4. CASE source # v
    <3>1. A' = A /\ S = 0
      BY <1>7, <2>4 DEF SetAvailable, A, S, One, IInv, TypeOK
    <3> QED
      BY <1>0, <2>1, <2>2, <3>1
  <2> QED
    BY <2>3, <2>4
<1>8. ASSUME NEW w \in Workers, RecvWork(w) PROVE Goal
  <2>1. A' = A /\ D' = D /\ S' = S /\ M' = M
    BY <1>8 DEF RecvWork, A, D, S, M
  <2>2. CASE w = v
    <3>1. inbox[v] \in Seq(Requests) /\ inbox[v] # <<>> /\ inbox'[v] = Tail(inbox[v])
      BY <1>8, <2>2 DEF RecvWork, IInv, TypeOK
    <3>2. L' = L - 1
      BY <3>1 DEF L
    <3>3. W = 0 /\ W' = 1
      BY <1>8, <2>2 DEF RecvWork, W, One, IInv, TypeOK
    <3> QED
      BY <1>0, <2>1, <3>2, <3>3
  <2>3. CASE w # v
    <3>1. L' = L /\ W' = W
      BY <1>8, <2>3 DEF RecvWork, L, W, One, IInv, TypeOK
    <3> QED
      BY <1>0, <2>1, <3>1
  <2> QED
    BY <2>2, <2>3
<1>9. ASSUME NEW w \in Workers, SetRunning(w) \/ Pipeline(w) \/ Report(w) PROVE Goal
  <2>1. A' = A /\ L' = L /\ D' = D /\ S' = S /\ M' = M
    BY <1>9 DEF SetRunning, Pipeline, Report, A, L, D, S, M
  <2>2. W' = W
    BY <1>9 DEF SetRunning, Pipeline, Report, W, One, IInv, TypeOK
  <2> QED
    BY <1>0, <2>1, <2>2
<1>10. ASSUME NEW w \in Workers, SendDone(w) PROVE Goal
  <2>1. A' = A /\ L' = L /\ S' = S /\ M' = M
    BY <1>10 DEF SendDone, A, L, S, M
  <2>2. CASE w = v
    <3>1. D' = D + 1
      BY <1>10, <2>2 DEF SendDone, D, IInv, TypeOK
    <3>2. W = 1 /\ W' = 0
      BY <1>10, <2>2 DEF SendDone, W, One, IInv, TypeOK
    <3> QED
      BY <1>0, <2>1, <3>1, <3>2
  <2>3. CASE w # v
    <3>1. D' = D /\ W' = W
      BY <1>10, <2>3 DEF SendDone, D, W, One, IInv, TypeOK
    <3> QED
      BY <1>0, <2>1, <3>1
  <2> QED
    BY <2>2, <2>3
<1>11. ASSUME UNCHANGED vars PROVE Goal
  <2>1. A' = A /\ L' = L /\ W' = W /\ D' = D /\ S' = S /\ M' = M
    BY <1>11 DEF vars, A, L, W, D, S, M
  <2> QED
    BY <1>0, <2>1
<1>12. Goal
  BY <1>1, <1>2, <1>3, <1>4, <1>5, <1>6, <1>7, <1>8, <1>9, <1>10, <1>11
     DEF Next, Master, Listener, Worker
<1> QED
  BY <1>12 DEF Tokens, A, L, W, D, S, M

-----------------------------------------------------------------------------

\* The strengthened invariant holds of every reachable state.
LEMMA Inductive == Spec => []IInv
<1>1. Init => IInv
  <2>1. ASSUME Init PROVE MutexInv /\ ServingInv /\ ScanInv
    BY <2>1 DEF Init, MutexInv, ServingInv, ScanInv
  <2>2. ASSUME Init PROVE WorkerAccounting
    BY <2>2 DEF Init, WorkerAccounting, Tokens, One
  <2> QED
    BY <2>1, <2>2, InitType DEF IInv
<1>2. IInv /\ [Next]_vars => IInv'
  BY StepType, StepMutex, StepServing, StepScan, StepAccounting DEF IInv
<1> QED
  BY <1>1, <1>2, PTL DEF Spec

\* The variables of both threads of rank 0, of the gateway and of the workers
\* always have their types; the search never leaves the array.
THEOREM TypeCorrect == Spec => []TypeOK
  BY Inductive, PTL DEF IInv

\* No worker is lost to the pool or has two tasks, for any number of workers
\* and requests and any interleaving of master, listener and workers.
THEOREM AccountingCorrect == Spec => []WorkerAccounting
  BY Inductive, PTL DEF IInv

=============================================================================
