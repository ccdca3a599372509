---------------------- MODULE ExecutorRequests_proofs -----------------------
(***************************************************************************)
(* Theorems about the life of one request in Executor: it is started at    *)
(* most once, its final state stays, it is dropped only when no worker is  *)
(* free, and the whole program implements TaskService.                     *)
(***************************************************************************)
EXTENDS Executor_proofs, TLAPS

\* Rank 0 decides only about requests that the gateway has answered.
DecidedInv == \A r \in Requests : fate[r] # "none" => gw[r] = "replied"

\* A connection waits once in the socket, undecided, and is not the one served.
BacklogInv ==
  /\ \A i \in 1 .. Len(backlog) :
       /\ backlog[i] # cur
       /\ gw[backlog[i]] \in {"write", "replied"}
       /\ fate[backlog[i]] = "none"
  /\ \A i, j \in 1 .. Len(backlog) : backlog[i] = backlog[j] => i = j

\* The request the master serves is undecided until MPI_Isend, sent after.
ServedInv ==
  /\ mpc \in {"boot", "accept"} => cur = None
  /\ mpc = "mark" => fate[cur] = "sent"
  /\ mpc \in {"read", "scan", "lock", "send"} => fate[cur] = "none"
  /\ mpc = "read" => gw[cur] \in {"write", "replied"}
  /\ mpc \in {"scan", "lock", "send"} => gw[cur] = "replied"

\* The task of a WORK message was sent, is not started and is in no other one.
InboxInv ==
  /\ \A w \in Workers : inbox[w] # <<>> =>
       /\ fate[Head(inbox[w])] = "sent"
       /\ starts[Head(inbox[w])] = 0
  /\ \A v, w \in Workers :
       inbox[v] # <<>> /\ inbox[w] # <<>> /\ Head(inbox[v]) = Head(inbox[w])
         => v = w

\* A task in the hands of a worker has been started, and no other worker has it.
HandInv ==
  /\ \A w \in Workers : wpc[w] # "recv" => starts[wtask[w]] = 1
  /\ \A v, w \in Workers :
       wpc[v] # "recv" /\ wpc[w] # "recv" /\ wtask[v] = wtask[w] => v = w

\* The server has heard nothing of a task before it is started, and nothing
\* final before its worker reports.
KnownInv ==
  /\ \A r \in Requests : starts[r] = 0 => taskState[r] = "none"
  /\ \A w \in Workers : wpc[w] = "running" => taskState[wtask[w]] = "none"
  /\ \A w \in Workers :
       wpc[w] # "recv" => taskState[wtask[w]] \in {"none", "RUNNING"}

RInv == /\ DecidedInv /\ BacklogInv /\ ServedInv /\ InboxInv /\ HandInv
        /\ AtMostOnce /\ KnownInv

\* A worker that the search of the master has passed was busy then, and is
\* busy still or has come back since.
PassedInv ==
  mpc = "scan" => \A w \in Workers : w < slot => ~ available[w] \/ w \in back

-----------------------------------------------------------------------------

\* A worker never has a second WORK message, nor one while it executes a task;
\* the one the master is about to send to has nothing to do.
LEMMA OneMessage ==
  ASSUME IInv
  PROVE  /\ \A w \in Workers : Len(inbox[w]) <= 1
         /\ \A w \in Workers :
              wpc[w] \in {"running", "pipeline", "done"} => inbox[w] = <<>>
         /\ mpc = "send" => inbox[slot] = <<>> /\ wpc[slot] \in {"recv", "report"}
<1> SUFFICES ASSUME NEW w \in Workers
             PROVE  /\ Len(inbox[w]) <= 1
                    /\ wpc[w] \in {"running", "pipeline", "done"} => inbox[w] = <<>>
                    /\ mpc = "send" /\ slot = w
                         => inbox[w] = <<>> /\ wpc[w] \in {"recv", "report"}
  BY DEF IInv, TypeOK
<1> DEFINE A == One(available[w])
           L == Len(inbox[w])
           W == One(wpc[w] \in {"running", "pipeline", "done"})
           D == done[w]
           S == One(lpc \in {"lock", "set"} /\ source = w)
           M == One(mpc = "mark" /\ slot = w)
<1>1. A + L + W + D + S = 1 + M
  BY DEF IInv, WorkerAccounting, Tokens
<1>2. inbox[w] \in Seq(Requests) /\ L \in Nat /\ D \in Nat
  BY DEF IInv, TypeOK
<1>3. A \in {0, 1} /\ W \in {0, 1} /\ S \in {0, 1} /\ M \in {0, 1}
  BY DEF One
<1>4. M = 1 \/ (mpc = "send" /\ slot = w) => A = 1
  BY DEF IInv, ScanInv, One
<1>5. mpc = "send" => M = 0
  BY DEF One
<1>6. W = 1 <=> wpc[w] \in {"running", "pipeline", "done"}
  BY DEF One
<1> HIDE DEF A, L, W, D, S, M
<1>7. L <= 1 /\ (W = 1 => L = 0)
  BY <1>1, <1>2, <1>3, <1>4
<1>8. mpc = "send" /\ slot = w => L = 0 /\ W = 0
  BY <1>1, <1>2, <1>3, <1>4, <1>5
<1>9. L = 0 => inbox[w] = <<>>
  BY <1>2 DEF L
<1>10. wpc[w] \in WorkerStates
  BY DEF IInv, TypeOK
<1> QED
  BY <1>6, <1>7, <1>8, <1>9, <1>10 DEF L, WorkerStates

\* Every step keeps it true that only answered requests are decided on.
LEMMA StepDecided == IInv /\ RInv /\ [Next]_vars => DecidedInv'
<1> SUFFICES ASSUME IInv, RInv, [Next]_vars PROVE DecidedInv'
  OBVIOUS
<1> USE DEF DecidedInv, IInv, TypeOK, RInv
<1>1. ASSUME NEW r \in Requests, Gateway(r) PROVE DecidedInv'
  BY <1>1 DEF Gateway, Post, ConnectRefused, Connect, Write
<1>2. CASE Master
  <2>1. CASE Listen \/ Accept \/ ScanHit \/ MasterLock \/ MarkBusy
    BY <2>1 DEF Listen, Accept, ScanHit, MasterLock, MarkBusy, gatewayVars
  <2>2. CASE Read \/ ScanMiss \/ Isend
    BY <2>2 DEF Read, ScanMiss, Isend, ServedInv, gatewayVars
  <2> QED
    BY <1>2, <2>1, <2>2 DEF Master
<1>3. CASE Listener
  BY <1>3 DEF Listener, RecvDone, ListenerLock, SetAvailable, gatewayVars
<1>4. ASSUME NEW w \in Workers, Worker(w) PROVE DecidedInv'
  BY <1>4 DEF Worker, RecvWork, SetRunning, Pipeline, SendDone, Report, gatewayVars
<1>5. CASE UNCHANGED vars
  BY <1>5 DEF vars
<1> QED
  BY <1>1, <1>2, <1>3, <1>4, <1>5 DEF Next

\* Every step keeps the backlog free of duplicates, of the request the master
\* serves and of requests that are decided: a gateway thread connects once.
LEMMA StepBacklog == IInv /\ RInv /\ [Next]_vars => BacklogInv'
<1> SUFFICES ASSUME IInv, RInv, [Next]_vars PROVE BacklogInv'
  OBVIOUS
<1> USE DEF BacklogInv
<1>0. /\ backlog \in Seq(Requests) /\ cur \in Requests \cup {None}
      /\ gw \in [Requests -> GatewayStates] /\ fate \in [Requests -> Fates]
      /\ \A i \in 1 .. Len(backlog) : backlog[i] \in Requests
      /\ BacklogInv /\ DecidedInv /\ ServedInv
  BY DEF IInv, TypeOK, RInv
<1>1. ASSUME NEW r \in Requests, Post(r) \/ ConnectRefused(r) \/ Write(r)
      PROVE  BacklogInv'
  <2>1. backlog' = backlog /\ cur' = cur
    BY <1>1 DEF Post, ConnectRefused, Write, socketVars, masterVars
  <2>2. \A i \in 1 .. Len(backlog) :
           gw'[backlog[i]] \in {"write", "replied"} /\ fate'[backlog[i]] = "none"
    BY <1>0, <1>1 DEF Post, ConnectRefused, Write
  <2> QED
    BY <1>0, <2>1, <2>2
<1>2. ASSUME NEW r \in Requests, Connect(r) PROVE BacklogInv'
  <2>1. /\ gw[r] = "connect" /\ backlog' = Append(backlog, r)
        /\ gw' = [gw EXCEPT ![r] = "write"] /\ fate' = fate /\ cur' = cur
    BY <1>2 DEF Connect, masterVars
  <2>2. fate[r] = "none" /\ \A i \in 1 .. Len(backlog) : backlog[i] # r
    BY <1>0, <2>1 DEF DecidedInv
  <2>3. cur # r
    BY <1>0, <2>1, NoneAssumption DEF ServedInv, DecidedInv, IInv, TypeOK,
       MasterStates
  <2> QED
    BY <1>0, <2>1, <2>2, <2>3
<1>3. CASE Accept
  <2>1. /\ backlog # <<>> /\ cur' = backlog[1] /\ gw' = gw /\ fate' = fate
        /\ backlog' = Tail(backlog)
    BY <1>0, <1>3 DEF Accept, gatewayVars
  <2>2. /\ Len(backlog') = Len(backlog) - 1
        /\ \A i \in 1 .. Len(backlog') :
             i + 1 \in 1 .. Len(backlog) /\ backlog'[i] = backlog[i + 1]
    BY <1>0, <2>1
  <2> QED
    BY <1>0, <2>1, <2>2
<1>4. CASE Read \/ ScanMiss \/ Isend
  <2>1. backlog' = backlog /\ gw' = gw /\ cur' \in {cur, None}
    BY <1>4 DEF Read, ScanMiss, Isend, gatewayVars, socketVars
  <2>2. \A i \in 1 .. Len(backlog) : fate'[backlog[i]] = fate[backlog[i]]
    BY <1>0, <1>4 DEF Read, ScanMiss, Isend
  <2> QED
    BY <1>0, <2>1, <2>2, NoneAssumption
<1>5. CASE Listen \/ ScanHit \/ MasterLock \/ MarkBusy
  <2>1. backlog' = backlog /\ gw' = gw /\ cur' \in {cur, None} /\ fate' = fate
    BY <1>5 DEF Listen, ScanHit, MasterLock, MarkBusy, gatewayVars, socketVars
  <2> QED
    BY <1>0, <2>1, NoneAssumption
<1>6. ASSUME UNCHANGED <<backlog, gw, cur, fate>> PROVE BacklogInv'
  BY <1>0, <1>6
<1>7. CASE Listener
  BY <1>6, <1>7 DEF Listener, RecvDone, ListenerLock, SetAvailable, gatewayVars,
     socketVars, masterVars
<1>8. ASSUME NEW w \in Workers, Worker(w) PROVE BacklogInv'
  BY <1>6, <1>8 DEF Worker, RecvWork, SetRunning, Pipeline, SendDone, Report,
     gatewayVars, socketVars, masterVars
<1>9. CASE UNCHANGED vars
  BY <1>6, <1>9 DEF vars
<1> QED
  BY <1>1, <1>2, <1>3, <1>4, <1>5, <1>7, <1>8, <1>9 DEF Next, Gateway, Master

\* Every step keeps it true that the request the master serves is undecided.
LEMMA StepServed == IInv /\ RInv /\ [Next]_vars => ServedInv'
<1> SUFFICES ASSUME IInv, RInv, [Next]_vars PROVE ServedInv'
  OBVIOUS
<1> USE DEF ServedInv
<1>0. /\ gw \in [Requests -> GatewayStates] /\ fate \in [Requests -> Fates]
      /\ backlog \in Seq(Requests) /\ mpc \in MasterStates
      /\ mpc \in {"read", "scan", "lock", "send", "mark"} => cur \in Requests
      /\ ServedInv
  BY DEF IInv, TypeOK, ServingInv, RInv
<1>1. ASSUME NEW r \in Requests, Gateway(r) PROVE ServedInv'
  BY <1>0, <1>1 DEF Gateway, Post, ConnectRefused, Connect, Write, masterVars,
     RInv, DecidedInv
<1>2. CASE Accept
  <2>1. cur' = backlog[1] /\ 1 \in 1 .. Len(backlog) /\ mpc' = "read"
    BY <1>0, <1>2 DEF Accept
  <2>2. fate[backlog[1]] = "none" /\ gw[backlog[1]] \in {"write", "replied"}
    BY <2>1 DEF RInv, BacklogInv
  <2> QED
    BY <1>2, <2>1, <2>2 DEF Accept, gatewayVars
<1>3. CASE Master /\ ~ Accept
  BY <1>0, <1>3 DEF MasterStates, RInv, DecidedInv, Master, Listen, Read, ScanMiss, ScanHit, MasterLock,
     Isend, MarkBusy, gatewayVars
<1>4. ASSUME UNCHANGED <<mpc, cur, gw, fate>> PROVE ServedInv'
  BY <1>0, <1>4
<1>5. CASE Listener
  BY <1>4, <1>5 DEF Listener, RecvDone, ListenerLock, SetAvailable, gatewayVars,
     masterVars
<1>6. ASSUME NEW w \in Workers, Worker(w) PROVE ServedInv'
  BY <1>4, <1>6 DEF Worker, RecvWork, SetRunning, Pipeline, SendDone, Report,
     gatewayVars, masterVars
<1>7. CASE UNCHANGED vars
  BY <1>4, <1>7 DEF vars
<1> QED
  BY <1>1, <1>2, <1>3, <1>5, <1>6, <1>7 DEF Next

\* What a step may do to the decisions, starts and tasks in hand when it is
\* neither MPI_Isend nor the worker's MPI_Recv nor its report.
LEMMA QuietStep ==
  ASSUME IInv, RInv, [Next]_vars, ~ Isend,
         \A w \in Workers : ~ RecvWork(w) /\ ~ Report(w)
  PROVE  /\ inbox' = inbox /\ starts' = starts /\ wtask' = wtask
         /\ \A w \in Workers : wpc'[w] # "recv" <=> wpc[w] # "recv"
         /\ \A r \in Requests : fate'[r] = "sent" <=> fate[r] = "sent"
<1> USE DEF workerVars
<1>0. /\ fate \in [Requests -> Fates] /\ wpc \in [Workers -> WorkerStates]
      /\ mpc \in {"read", "scan"} => cur \in Requests /\ fate[cur] = "none"
      /\ \A r \in Requests : gw[r] = "connect" => fate[r] = "none"
  BY DEF IInv, TypeOK, ServingInv, RInv, ServedInv, DecidedInv
<1>1. ASSUME NEW r \in Requests, Gateway(r)
      PROVE  /\ inbox' = inbox /\ starts' = starts /\ wtask' = wtask
             /\ wpc' = wpc
             /\ \A q \in Requests : fate'[q] = "sent" <=> fate[q] = "sent"
  BY <1>0, <1>1 DEF Gateway, Post, ConnectRefused, Connect, Write
<1>2. ASSUME Master
      PROVE  /\ inbox' = inbox /\ starts' = starts /\ wtask' = wtask
             /\ wpc' = wpc
             /\ \A q \in Requests : fate'[q] = "sent" <=> fate[q] = "sent"
  BY <1>0, <1>2 DEF Master, Listen, Accept, Read, ScanMiss, ScanHit, MasterLock,
     MarkBusy
<1>3. CASE Listener
  BY <1>3 DEF Listener, RecvDone, ListenerLock, SetAvailable
<1>4. ASSUME NEW w \in Workers, Worker(w)
      PROVE  /\ inbox' = inbox /\ starts' = starts /\ wtask' = wtask
             /\ fate' = fate
             /\ \A v \in Workers : wpc'[v] # "recv" <=> wpc[v] # "recv"
  BY <1>0, <1>4 DEF Worker, SetRunning, Pipeline, SendDone
<1>5. CASE UNCHANGED vars
  BY <1>5 DEF vars
<1> QED
  BY <1>1, <1>2, <1>3, <1>4, <1>5 DEF Next

\* What MPI_Isend does: the request of the master, undecided and never started,
\* becomes the only message of a worker that had none.
LEMMA IsendStep ==
  ASSUME IInv, RInv, Isend
  PROVE  /\ cur \in Requests /\ slot \in Workers
         /\ fate[cur] = "none" /\ starts[cur] = 0 /\ taskState[cur] = "none"
         /\ inbox[slot] = <<>>
         /\ inbox' = [inbox EXCEPT ![slot] = <<cur>>]
         /\ fate' = [fate EXCEPT ![cur] = "sent"]
         /\ wpc' = wpc /\ wtask' = wtask /\ starts' = starts
         /\ taskState' = taskState
<1>1. cur \in Requests /\ slot \in Workers /\ fate[cur] = "none" /\ mpc = "send"
  BY DEF IInv, TypeOK, ServingInv, RInv, ServedInv, Isend
<1>2. starts[cur] = 0
  <2>1. starts[cur] \in Nat
    BY <1>1 DEF IInv, TypeOK
  <2>2. starts[cur] <= 0
    BY <1>1 DEF RInv, AtMostOnce, One
  <2> QED
    BY <2>1, <2>2
<1>3. inbox[slot] = <<>>
  BY <1>1, OneMessage
<1>4. Append(inbox[slot], cur) = <<cur>>
  BY <1>3
<1> QED
  BY <1>1, <1>2, <1>3, <1>4 DEF Isend, RInv, KnownInv, workerVars

\* What the worker's MPI_Recv does: its only message is in its hands, for the
\* first time it is in any.
LEMMA RecvStep ==
  ASSUME IInv, RInv, NEW w \in Workers, RecvWork(w)
  PROVE  LET r == Head(inbox[w]) IN
         /\ r \in Requests /\ inbox[w] # <<>> /\ wpc[w] = "recv"
         /\ fate[r] = "sent" /\ starts[r] = 0
         /\ inbox' = [inbox EXCEPT ![w] = <<>>]
         /\ starts' = [starts EXCEPT ![r] = 1]
         /\ wtask' = [wtask EXCEPT ![w] = r]
         /\ wpc' = [wpc EXCEPT ![w] = "running"]
         /\ fate' = fate /\ taskState' = taskState
<1>1. /\ inbox[w] \in Seq(Requests) /\ inbox[w] # <<>> /\ wpc[w] = "recv"
      /\ Len(inbox[w]) <= 1
  BY OneMessage DEF RecvWork, IInv, TypeOK
<1>2. Head(inbox[w]) \in Requests /\ Tail(inbox[w]) = <<>>
  BY <1>1
<1>3. fate[Head(inbox[w])] = "sent" /\ starts[Head(inbox[w])] = 0
  BY <1>1 DEF RInv, InboxInv
<1>4. starts' = [starts EXCEPT ![Head(inbox[w])] = 1]
  BY <1>3 DEF RecvWork
<1>5. inbox' = [inbox EXCEPT ![w] = <<>>]
  BY <1>2 DEF RecvWork
<1> QED
  BY <1>1, <1>2, <1>3, <1>4, <1>5 DEF RecvWork

\* Every step keeps it true that a WORK message carries a task that was sent,
\* never started, and is in no other message.
LEMMA StepInbox == IInv /\ RInv /\ [Next]_vars => InboxInv'
<1> SUFFICES ASSUME IInv, RInv, [Next]_vars PROVE InboxInv'
  OBVIOUS
<1> USE DEF InboxInv
<1>0. /\ inbox \in [Workers -> Seq(Requests)] /\ fate \in [Requests -> Fates]
      /\ starts \in [Requests -> Nat] /\ InboxInv
      /\ \A w \in Workers : inbox[w] # <<>> => Head(inbox[w]) \in Requests
  BY DEF IInv, TypeOK, RInv
<1>1. CASE Isend
  <2>1. \A w \in Workers : w # slot => inbox'[w] = inbox[w]
    BY <1>0, <1>1, IsendStep
  <2>2. inbox'[slot] = <<cur>> /\ Head(inbox'[slot]) = cur
    BY <1>0, <1>1, IsendStep
  <2>3. /\ fate'[cur] = "sent" /\ starts'[cur] = 0
        /\ \A r \in Requests : fate[r] = "sent" => fate'[r] = "sent" /\ r # cur
    BY <1>0, <1>1, IsendStep
  <2>4. starts' = starts
    BY <1>1, IsendStep
  <2> QED
    BY ZenonT(60), <1>0, <2>1, <2>2, <2>3, <2>4
<1>2. ASSUME NEW w \in Workers, RecvWork(w) PROVE InboxInv'
  <2>1. inbox'[w] = <<>> /\ \A v \in Workers : v # w => inbox'[v] = inbox[v]
    BY <1>0, <1>2, RecvStep
  <2>2. fate' = fate /\ inbox[w] # <<>>
    BY <1>2, RecvStep
  <2>3. \A r \in Requests : r # Head(inbox[w]) => starts'[r] = starts[r]
    BY <1>0, <1>2, RecvStep
  <2>4. \A v \in Workers :
          v # w /\ inbox[v] # <<>> => Head(inbox[v]) # Head(inbox[w])
    BY <1>0, <2>2
  <2> QED
    BY ZenonT(60), <1>0, <2>1, <2>2, <2>3, <2>4
<1>3. ASSUME NEW w \in Workers, Report(w) PROVE InboxInv'
  BY <1>0, <1>3 DEF Report
<1>4. CASE ~ Isend /\ \A w \in Workers : ~ RecvWork(w) /\ ~ Report(w)
  BY <1>0, <1>4, QuietStep
<1> QED
  BY <1>1, <1>2, <1>3, <1>4

\* Every step keeps it true that only a task that was sent is started, and once.
LEMMA StepOnce == IInv /\ RInv /\ [Next]_vars => AtMostOnce'
<1> SUFFICES ASSUME IInv, RInv, [Next]_vars PROVE AtMostOnce'
  OBVIOUS
<1> USE DEF AtMostOnce, One
<1>0. /\ fate \in [Requests -> Fates] /\ starts \in [Requests -> Nat]
      /\ AtMostOnce
  BY DEF IInv, TypeOK, RInv
<1>1. CASE Isend
  BY <1>0, <1>1, IsendStep
<1>2. ASSUME NEW w \in Workers, RecvWork(w) PROVE AtMostOnce'
  BY <1>0, <1>2, RecvStep
<1>3. ASSUME NEW w \in Workers, Report(w) PROVE AtMostOnce'
  BY <1>0, <1>3 DEF Report
<1>4. CASE ~ Isend /\ \A w \in Workers : ~ RecvWork(w) /\ ~ Report(w)
  BY <1>0, <1>4, QuietStep
<1> QED
  BY <1>1, <1>2, <1>3, <1>4

\* Every step keeps it true that a task is in the hands of one worker only.
LEMMA StepHand == IInv /\ RInv /\ [Next]_vars => HandInv'
<1> SUFFICES ASSUME IInv, RInv, [Next]_vars PROVE HandInv'
  OBVIOUS
<1> USE DEF HandInv
<1>0. /\ starts \in [Requests -> Nat] /\ wpc \in [Workers -> WorkerStates]
      /\ wtask \in [Workers -> Requests \cup {None}] /\ HandInv
      /\ \A w \in Workers : wpc[w] # "recv" => wtask[w] \in Requests
  BY DEF IInv, TypeOK, ServingInv, RInv
<1>1. CASE Isend
  BY <1>0, <1>1, IsendStep
<1>2. ASSUME NEW w \in Workers, RecvWork(w) PROVE HandInv'
  <2>1. /\ Head(inbox[w]) \in Requests /\ starts[Head(inbox[w])] = 0
        /\ wtask' = [wtask EXCEPT ![w] = Head(inbox[w])]
        /\ wpc' = [wpc EXCEPT ![w] = "running"]
        /\ starts' = [starts EXCEPT ![Head(inbox[w])] = 1]
    BY <1>2, RecvStep
  <2>2. \A v \in Workers : wpc[v] # "recv" => wtask[v] # Head(inbox[w])
    BY <1>0, <2>1
  <2> QED
    BY <1>0, <2>1, <2>2
<1>3. ASSUME NEW w \in Workers, Report(w) PROVE HandInv'
  BY <1>0, <1>3 DEF Report
<1>4. CASE ~ Isend /\ \A w \in Workers : ~ RecvWork(w) /\ ~ Report(w)
  BY <1>0, <1>4, QuietStep
<1> QED
  BY <1>1, <1>2, <1>3, <1>4

\* Every step keeps it true that the server hears of a task in order.
LEMMA StepKnown == IInv /\ RInv /\ [Next]_vars => KnownInv'
<1> SUFFICES ASSUME IInv, RInv, [Next]_vars PROVE KnownInv'
  OBVIOUS
<1> USE DEF KnownInv
<1>0. /\ starts \in [Requests -> Nat] /\ wpc \in [Workers -> WorkerStates]
      /\ wtask \in [Workers -> Requests \cup {None}] /\ KnownInv /\ HandInv
      /\ taskState \in [Requests -> TaskStates]
      /\ \A w \in Workers : wpc[w] # "recv" => wtask[w] \in Requests
  BY DEF IInv, TypeOK, ServingInv, RInv
<1>1. CASE Isend
  BY <1>0, <1>1, IsendStep
<1>2. ASSUME NEW w \in Workers, RecvWork(w) PROVE KnownInv'
  <2>1. /\ Head(inbox[w]) \in Requests /\ starts[Head(inbox[w])] = 0
        /\ wtask' = [wtask EXCEPT ![w] = Head(inbox[w])]
        /\ wpc' = [wpc EXCEPT ![w] = "running"]
        /\ starts' = [starts EXCEPT ![Head(inbox[w])] = 1]
        /\ taskState' = taskState
    BY <1>2, RecvStep
  <2> QED
    BY <1>0, <2>1
<1>3. ASSUME NEW w \in Workers, SetRunning(w) PROVE KnownInv'
  <2>1. /\ wpc[w] = "running" /\ wpc' = [wpc EXCEPT ![w] = "pipeline"]
        /\ wtask' = wtask /\ starts' = starts /\ Told(wtask[w], "RUNNING")
    BY <1>3 DEF SetRunning
  <2>2. /\ wtask[w] \in Requests /\ starts[wtask[w]] = 1
        /\ \A v \in Workers : v # w /\ wpc[v] # "recv" => wtask[v] # wtask[w]
    BY <1>0, <2>1 DEF HandInv
  <2>3. taskState'[wtask[w]] \in {"none", "RUNNING"}
    BY <1>0, <2>1, <2>2 DEF Told
  <2>4. \A r \in Requests : r # wtask[w] => taskState'[r] = taskState[r]
    BY <1>0, <2>1 DEF Told
  <2> QED
    BY <1>0, <2>1, <2>2, <2>3, <2>4
<1>4. ASSUME NEW w \in Workers, Report(w) PROVE KnownInv'
  <2>1. /\ wpc[w] = "report" /\ wpc' = [wpc EXCEPT ![w] = "recv"]
        /\ wtask' = [wtask EXCEPT ![w] = None] /\ starts' = starts
        /\ Told(wtask[w], Verdict(wtask[w]))
    BY <1>4 DEF Report
  <2>2. /\ wtask[w] \in Requests /\ starts[wtask[w]] = 1
        /\ \A v \in Workers : v # w /\ wpc[v] # "recv" => wtask[v] # wtask[w]
    BY <1>0, <2>1 DEF HandInv
  <2>3. \A r \in Requests : r # wtask[w] => taskState'[r] = taskState[r]
    BY <1>0, <2>1 DEF Told
  <2> QED
    BY <1>0, <2>1, <2>2, <2>3
<1>5. ASSUME NEW w \in Workers, Pipeline(w) \/ SendDone(w) PROVE KnownInv'
  BY <1>0, <1>5 DEF Pipeline, SendDone
<1>6. ASSUME UNCHANGED workerVars PROVE KnownInv'
  BY <1>0, <1>6 DEF workerVars
<1>7. ASSUME NEW r \in Requests, Gateway(r) PROVE KnownInv'
  BY <1>6, <1>7 DEF Gateway, Post, ConnectRefused, Connect, Write
<1>8. CASE Master
  BY <1>6, <1>8 DEF Master, Listen, Accept, Read, ScanMiss, ScanHit, MasterLock,
     Isend, MarkBusy
<1>9. CASE Listener
  BY <1>6, <1>9 DEF Listener, RecvDone, ListenerLock, SetAvailable
<1>10. CASE UNCHANGED vars
  BY <1>6, <1>10 DEF vars, workerVars
<1> QED
  BY <1>2, <1>3, <1>4, <1>5, <1>7, <1>8, <1>9, <1>10 DEF Next, Worker

-----------------------------------------------------------------------------

\* What is known of single requests holds of every reachable state.
LEMMA RInductive == Spec => []RInv
<1>1. Init => RInv
  BY NoneAssumption DEF Init, RInv, DecidedInv, BacklogInv, ServedInv, InboxInv,
     HandInv, AtMostOnce, One, KnownInv
<1>2. IInv /\ RInv /\ [Next]_vars => RInv'
  BY StepDecided, StepBacklog, StepServed, StepInbox, StepHand, StepOnce,
     StepKnown DEF RInv
<1> QED
  BY <1>1, <1>2, Inductive, PTL DEF Spec

\* No request is executed by two workers or twice by one, and one that rank 0
\* dropped or ignored by none, for any number of requests and workers.
THEOREM OnceCorrect == Spec => []AtMostOnce
  BY RInductive, PTL DEF RInv

\* Whatever worker reports, and however late, the state of a task that the
\* server has heard to be final stays.
THEOREM FinalCorrect == Spec => FinalStateIsFinal
<1> DEFINE Kept == \A r \in Requests :
                     taskState[r] \in Final => taskState'[r] = taskState[r]
<1>1. IInv /\ RInv /\ [Next]_vars => [Kept]_vars
  <2> SUFFICES ASSUME IInv, RInv, Next PROVE Kept
    OBVIOUS
  <2>0. /\ taskState \in [Requests -> TaskStates]
        /\ \A w \in Workers : wpc[w] # "recv" =>
             wtask[w] \in Requests /\ taskState[wtask[w]] \notin Final
    BY DEF IInv, TypeOK, ServingInv, RInv, KnownInv, Final
  <2>1. ASSUME NEW w \in Workers, SetRunning(w) \/ Report(w) PROVE Kept
    <3>1. \A r \in Requests : r # wtask[w] => taskState'[r] = taskState[r]
      BY <2>0, <2>1 DEF SetRunning, Report, Told
    <3>2. wtask[w] \in Requests /\ taskState[wtask[w]] \notin Final
      BY <2>0, <2>1 DEF SetRunning, Report
    <3> QED
      BY <3>1, <3>2
  <2>2. CASE \A w \in Workers : ~ SetRunning(w) /\ ~ Report(w)
    <3>1. taskState' = taskState
      BY <2>2 DEF Next, Gateway, Post, ConnectRefused, Connect, Write, Master,
         Listen, Accept, Read, ScanMiss, ScanHit, MasterLock, Isend, MarkBusy,
         Listener, RecvDone, ListenerLock, SetAvailable, Worker, RecvWork,
         Pipeline, SendDone, workerVars
    <3> QED
      BY <3>1
  <2> QED
    BY <2>1, <2>2
<1> QED
  BY <1>1, Inductive, RInductive, PTL DEF Spec, FinalStateIsFinal

-----------------------------------------------------------------------------
(* The refinement of TaskService. *)

Working == [w \in Workers |-> Assigned(w)]
Reporting == [w \in Workers |-> IF wpc[w] = "report" THEN wtask[w] ELSE None]
Decided == {r \in Requests : fate[r] # "none"}

\* A step that moves no message, worker, decision or known state is a stutter.
LEMMA ServiceStutter ==
  ASSUME UNCHANGED <<inbox, fate, wpc, wtask, taskState>>
  PROVE  UNCHANGED <<Working, Reporting, taskState, Decided>>
BY DEF Working, Reporting, Decided, Assigned

\* A request that is refused, ignored or dropped is turned away: only its own
\* decision changes, and it had none.
LEMMA TurnAwayStep ==
  ASSUME UNCHANGED <<inbox, wpc, wtask, taskState>>,
         fate \in [Requests -> Fates], NEW r \in Requests, fate[r] = "none",
         NEW f \in {"refused", "ignored", "dropped"},
         fate' = [fate EXCEPT ![r] = f]
  PROVE  Service!TurnAway(r)
<1>1. UNCHANGED <<Working, Reporting>>
  BY DEF Working, Reporting, Assigned
<1>2. r \notin Decided /\ Decided' = Decided \cup {r}
  BY DEF Decided
<1> QED
  BY <1>1, <1>2 DEF Service!TurnAway, Working, Reporting, Decided

\* MPI_Isend assigns an undecided request to a worker that has no task.
LEMMA AssignStep ==
  ASSUME IInv, RInv, Isend
  PROVE  \E r \in Requests, w \in Workers : Service!Assign(r, w)
<1>1. PICK r \in Requests, w \in Workers : r = cur /\ w = slot
  BY IsendStep
<1>2. /\ fate[r] = "none" /\ inbox[w] = <<>>
      /\ inbox' = [inbox EXCEPT ![w] = <<r>>]
      /\ fate' = [fate EXCEPT ![r] = "sent"]
      /\ wpc' = wpc /\ wtask' = wtask /\ taskState' = taskState
  BY <1>1, IsendStep
<1>3. inbox \in [Workers -> Seq(Requests)] /\ fate \in [Requests -> Fates]
  BY DEF IInv, TypeOK
<1>4. wpc[w] \in {"recv", "report"}
  BY <1>1, OneMessage DEF Isend
<1>5. Assigned(w) = None /\ Assigned(w)' = r
  <2>1. inbox'[w] # <<>> /\ Head(inbox'[w]) = r
    BY <1>2, <1>3
  <2> QED
    BY <1>2, <1>4, <2>1 DEF Assigned
<1>6. \A v \in Workers : v # w => Assigned(v)' = Assigned(v)
  BY <1>2, <1>3 DEF Assigned
<1>7. Working[w] = None /\ Working' = [Working EXCEPT ![w] = r]
  BY <1>5, <1>6 DEF Working
<1>8. r \notin Decided /\ Decided' = Decided \cup {r}
  BY <1>2, <1>3 DEF Decided
<1>9. Reporting' = Reporting
  BY <1>2 DEF Reporting
<1>10. Service!Assign(r, w)
  BY <1>2, <1>7, <1>8, <1>9 DEF Service!Assign, Working, Reporting, Decided
<1> QED
  BY <1>10

\* Every action of a worker starts, finishes or settles its task, or is a stutter.
LEMMA WorkerStep ==
  ASSUME IInv, RInv, NEW w \in Workers, Worker(w)
  PROVE  \/ Service!Start(w) \/ Service!Finish(w) \/ Service!Settle(w)
         \/ UNCHANGED <<Working, Reporting, taskState, Decided>>
<1>0. /\ wpc \in [Workers -> WorkerStates]
      /\ wtask \in [Workers -> Requests \cup {None}]
      /\ inbox \in [Workers -> Seq(Requests)]
      /\ taskState \in [Requests -> TaskStates]
      /\ wpc[w] # "recv" => wtask[w] \in Requests
      /\ None \notin Requests
  BY NoneAssumption DEF IInv, TypeOK, ServingInv
<1>1. CASE RecvWork(w)
  <2>1. /\ inbox[w] # <<>> /\ wpc[w] = "recv"
        /\ inbox' = [inbox EXCEPT ![w] = <<>>]
        /\ wtask' = [wtask EXCEPT ![w] = Head(inbox[w])]
        /\ wpc' = [wpc EXCEPT ![w] = "running"]
        /\ fate' = fate /\ taskState' = taskState
    BY <1>1, RecvStep
  <2>2. \A v \in Workers : Assigned(v)' = Assigned(v)
    BY <1>0, <2>1 DEF Assigned
  <2>3. Reporting' = Reporting
    BY <1>0, <2>1 DEF Reporting
  <2> QED
    BY <2>1, <2>2, <2>3 DEF Working, Decided
<1>2. CASE SetRunning(w)
  <2>1. /\ wpc[w] = "running" /\ wpc' = [wpc EXCEPT ![w] = "pipeline"]
        /\ wtask' = wtask /\ inbox' = inbox /\ fate' = fate
        /\ Told(wtask[w], "RUNNING") /\ wtask[w] \in Requests
    BY <1>0, <1>2 DEF SetRunning
  <2>2. Working' = Working /\ Reporting' = Reporting /\ Decided' = Decided
    BY <1>0, <2>1 DEF Working, Assigned, Reporting, Decided
  <2>3. Working[w] = wtask[w] /\ Reporting[w] = None
    BY <2>1 DEF Working, Assigned, Reporting
  <2>4. taskState[wtask[w]] = "none"
    BY <2>1 DEF RInv, KnownInv
  <2>5. CASE UNCHANGED taskState
    BY <2>2, <2>5
  <2>6. CASE taskState' = [taskState EXCEPT ![wtask[w]] = "RUNNING"]
    <3>1. Working[w] # None
      BY <1>0, <2>1, <2>3
    <3>2. Service!Start(w)
      BY <2>2, <2>3, <2>4, <2>6, <3>1 DEF Service!Start, Working, Reporting, Decided
    <3> QED
      BY <3>2
  <2> QED
    BY <2>1, <2>5, <2>6 DEF Told
<1>3. CASE Pipeline(w)
  <2>1. /\ wpc[w] = "pipeline" /\ wpc' = [wpc EXCEPT ![w] = "done"]
        /\ wtask' = wtask /\ inbox' = inbox /\ fate' = fate
        /\ taskState' = taskState
    BY <1>3 DEF Pipeline
  <2> QED
    BY <1>0, <2>1 DEF Working, Assigned, Reporting, Decided
<1>4. CASE SendDone(w)
  <2>1. /\ wpc[w] = "done" /\ wpc' = [wpc EXCEPT ![w] = "report"]
        /\ wtask' = wtask /\ inbox' = inbox /\ fate' = fate
        /\ taskState' = taskState
    BY <1>4 DEF SendDone
  <2>2. inbox[w] = <<>> /\ wtask[w] \in Requests
    BY <1>0, <2>1, OneMessage
  <2>3. /\ Assigned(w) = wtask[w] /\ Assigned(w)' = None
        /\ \A v \in Workers : v # w => Assigned(v)' = Assigned(v)
    BY <1>0, <2>1, <2>2 DEF Assigned
  <2>4. Working[w] = wtask[w] /\ Working' = [Working EXCEPT ![w] = None]
    BY <2>3 DEF Working
  <2>5. Reporting[w] = None /\ Reporting' = [Reporting EXCEPT ![w] = wtask[w]]
    BY <1>0, <2>1 DEF Reporting
  <2>6. Working[w] # None
    BY <1>0, <2>2, <2>4
  <2>7. Service!Finish(w)
    BY <2>1, <2>4, <2>5, <2>6 DEF Service!Finish, Working, Reporting, Decided
  <2> QED
    BY <2>7
<1>5. CASE Report(w)
  <2>1. /\ wpc[w] = "report" /\ wpc' = [wpc EXCEPT ![w] = "recv"]
        /\ wtask' = [wtask EXCEPT ![w] = None] /\ inbox' = inbox /\ fate' = fate
        /\ Told(wtask[w], Verdict(wtask[w])) /\ wtask[w] \in Requests
    BY <1>0, <1>5 DEF Report
  <2>2. Working' = Working /\ Decided' = Decided
    BY <1>0, <2>1 DEF Working, Assigned, Decided
  <2>3. Reporting[w] = wtask[w] /\ Reporting' = [Reporting EXCEPT ![w] = None]
    BY <1>0, <2>1 DEF Reporting
  <2>4. Reporting[w] # None
    BY <1>0, <2>1, <2>3
  <2>5. \/ \E s \in {"ERROR", "TERMINATED"} :
              taskState' = [taskState EXCEPT ![Reporting[w]] = s]
        \/ UNCHANGED taskState
    BY <2>1, <2>3 DEF Told, Verdict
  <2>6. Service!Settle(w)
    BY <2>2, <2>3, <2>4, <2>5 DEF Service!Settle, Working, Reporting, Decided
  <2> QED
    BY <2>6
<1> QED
  BY <1>1, <1>2, <1>3, <1>4, <1>5 DEF Worker

\* Gateway, socket, master, mutex, listener and workers together implement the
\* abstract task service, for any number of requests and workers.
THEOREM Refinement == Spec => ImplementsTaskService
<1>1. Init => Service!Init
  <2> SUFFICES ASSUME Init PROVE Service!Init
    OBVIOUS
  <2>1. Working = [w \in Workers |-> None] /\ Reporting = [w \in Workers |-> None]
    BY DEF Init, Working, Reporting, Assigned
  <2>2. Decided = {} /\ taskState = [r \in Requests |-> "none"]
    BY DEF Init, Decided
  <2> QED
    BY <2>1, <2>2 DEF Service!Init, Working, Reporting, Decided
<1>2. IInv /\ RInv /\ [Next]_vars => [Service!Next]_(Service!vars)
  <2> SUFFICES ASSUME IInv, RInv, [Next]_vars
               PROVE  Service!Next \/ UNCHANGED <<Working, Reporting, taskState, Decided>>
    BY DEF Service!vars, Working, Reporting, Decided
  <2> DEFINE Goal == \/ Service!Next
                     \/ UNCHANGED <<Working, Reporting, taskState, Decided>>
  <2>0. /\ fate \in [Requests -> Fates]
        /\ mpc \in {"read", "scan"} => cur \in Requests /\ fate[cur] = "none"
        /\ \A r \in Requests : gw[r] = "connect" => fate[r] = "none"
    BY DEF IInv, TypeOK, ServingInv, RInv, ServedInv, DecidedInv
  <2>1. ASSUME UNCHANGED <<inbox, fate, wpc, wtask, taskState>> PROVE Goal
    BY <2>1, ServiceStutter
  <2>2. ASSUME UNCHANGED <<inbox, wpc, wtask, taskState>>, NEW r \in Requests,
               fate[r] = "none", NEW f \in {"refused", "ignored", "dropped"},
               fate' = [fate EXCEPT ![r] = f]
        PROVE  Goal
    BY <2>0, <2>2, TurnAwayStep DEF Service!Next
  <2>3. ASSUME NEW r \in Requests, Gateway(r) PROVE Goal
    <3>1. CASE ConnectRefused(r)
      <4>1. /\ fate[r] = "none" /\ fate' = [fate EXCEPT ![r] = "refused"]
            /\ UNCHANGED <<inbox, wpc, wtask, taskState>>
        BY <2>0, <3>1 DEF ConnectRefused, workerVars
      <4> QED
        BY <2>2, <4>1
    <3>2. CASE Post(r) \/ Connect(r) \/ Write(r)
      BY <2>1, <3>2 DEF Post, Connect, Write, workerVars
    <3> QED
      BY <2>3, <3>1, <3>2 DEF Gateway
  <2>4. CASE Read \/ ScanMiss
    <3>1. cur \in Requests /\ fate[cur] = "none"
      BY <2>0, <2>4 DEF Read, ScanMiss
    <3>2. /\ UNCHANGED <<inbox, wpc, wtask, taskState>>
          /\ \/ fate' = [fate EXCEPT ![cur] = "ignored"]
             \/ fate' = [fate EXCEPT ![cur] = "dropped"]
             \/ UNCHANGED fate
      BY <2>4 DEF Read, ScanMiss, workerVars
    <3> QED
      BY <2>1, <2>2, <3>1, <3>2
  <2>5. CASE Isend
    BY <2>5, AssignStep DEF Service!Next
  <2>6. CASE Listen \/ Accept \/ ScanHit \/ MasterLock \/ MarkBusy
    BY <2>1, <2>6 DEF Listen, Accept, ScanHit, MasterLock, MarkBusy, workerVars
  <2>7. CASE Listener
    BY <2>1, <2>7 DEF Listener, RecvDone, ListenerLock, SetAvailable, workerVars
  <2>8. ASSUME NEW w \in Workers, Worker(w) PROVE Goal
    BY <2>8, WorkerStep DEF Service!Next
  <2>9. CASE UNCHANGED vars
    BY <2>1, <2>9 DEF vars
  <2> QED
    BY <2>3, <2>4, <2>5, <2>6, <2>7, <2>8, <2>9 DEF Next, Master
<1> QED
  BY <1>1, <1>2, Inductive, RInductive, PTL DEF Spec, ImplementsTaskService, Service!Spec

-----------------------------------------------------------------------------
(* A request is dropped only when no worker is free. *)

\* A worker that the array calls busy has a task, or its end is on the way to
\* the array: the accounting leaves no other place for it.
LEMMA BusyIsOccupied ==
  ASSUME IInv, NEW w \in Workers, ~ available[w]
  PROVE  Occupied(w)
<1> SUFFICES ASSUME ~ Occupied(w) PROVE FALSE
  OBVIOUS
<1>1. inbox[w] = <<>> /\ Len(inbox[w]) = 0
  BY DEF Occupied
<1>2. done[w] = 0
  BY DEF Occupied, IInv, TypeOK
<1>3. /\ One(available[w]) = 0
      /\ One(wpc[w] \in {"running", "pipeline", "done"}) = 0
      /\ One(lpc \in {"lock", "set"} /\ source = w) = 0
  BY DEF Occupied, One
<1>4. Tokens(w) = 0
  BY <1>1, <1>2, <1>3 DEF Tokens
<1>5. Tokens(w) = 1 + One(mpc = "mark" /\ slot = w)
  BY DEF IInv, WorkerAccounting
<1>6. One(mpc = "mark" /\ slot = w) \in {0, 1}
  BY DEF One
<1> QED
  BY <1>4, <1>5, <1>6

\* Every step keeps it true that the search has passed busy workers only: it
\* goes on at an entry that is 0, and the listener leaves a record of what it
\* sets behind the master's back.
LEMMA StepPassed == IInv /\ PassedInv /\ [Next]_vars => PassedInv'
<1> SUFFICES ASSUME IInv, PassedInv, [Next]_vars PROVE PassedInv'
  OBVIOUS
<1> USE DEF PassedInv
<1>0. /\ available \in [Workers -> BOOLEAN] /\ slot \in Workers
      /\ Workers = 1 .. N /\ N \in Nat
  BY NAssumption DEF IInv, TypeOK, Workers
<1>1. ASSUME UNCHANGED <<mpc, slot, available, back>> PROVE PassedInv'
  BY <1>1
<1>2. ASSUME NEW r \in Requests, Gateway(r) PROVE PassedInv'
  BY <1>1, <1>2 DEF Gateway, Post, ConnectRefused, Connect, Write, masterVars
<1>3. CASE Read
  <2>1. mpc' = "accept" \/ (mpc' = "scan" /\ slot' = 1)
    BY <1>3 DEF Read
  <2> QED
    BY <1>0, <2>1
<1>4. CASE ScanMiss
  <2>1. /\ mpc = "scan" /\ ~ available[slot]
        /\ available' = available /\ back' = back
        /\ (mpc' = "scan" => slot' = slot + 1) \/ mpc' = "accept"
    BY <1>4 DEF ScanMiss
  <2> QED
    BY <1>0, <2>1
<1>5. CASE Listen \/ Accept \/ ScanHit \/ MasterLock \/ Isend \/ MarkBusy
  BY <1>5 DEF Listen, Accept, ScanHit, MasterLock, Isend, MarkBusy
<1>6. CASE SetAvailable
  <2>1. /\ mpc' = mpc /\ slot' = slot
        /\ available' = [available EXCEPT ![source] = TRUE]
        /\ back' = IF mpc = "scan" /\ source < slot THEN back \cup {source} ELSE back
    BY <1>6 DEF SetAvailable, masterVars
  <2> SUFFICES ASSUME mpc = "scan", NEW w \in Workers, w < slot
               PROVE  ~ available'[w] \/ w \in back'
    BY <2>1
  <2>2. CASE w = source
    BY <2>1, <2>2
  <2>3. CASE w # source
    BY <1>0, <2>1, <2>3
  <2> QED
    BY <2>2, <2>3
<1>7. CASE ListenerLock
  BY <1>1, <1>7 DEF ListenerLock, masterVars
<1>8. ASSUME NEW w \in Workers, RecvDone(w) PROVE PassedInv'
  BY <1>1, <1>8 DEF RecvDone, masterVars
<1>9. ASSUME NEW w \in Workers, Worker(w) PROVE PassedInv'
  BY <1>1, <1>9 DEF Worker, RecvWork, SetRunning, Pipeline, SendDone, Report,
     masterVars
<1>10. CASE UNCHANGED vars
  BY <1>1, <1>10 DEF vars
<1> QED
  BY <1>2, <1>3, <1>4, <1>5, <1>6, <1>7, <1>8, <1>9, <1>10
     DEF Next, Master, Listener

\* The only step that drops a request is the one that leaves the loop.
LEMMA DropStep ==
  ASSUME IInv, RInv, [Next]_vars, NEW r \in Requests,
         fate[r] # "dropped", fate'[r] = "dropped"
  PROVE  ScanMiss /\ ~ slot < N
<1>0. /\ fate \in [Requests -> Fates]
      /\ mpc \in {"read", "scan", "send"} => cur \in Requests
  BY DEF IInv, TypeOK, ServingInv
<1>1. ~ \E q \in Requests : Gateway(q)
  BY <1>0 DEF Gateway, Post, ConnectRefused, Connect, Write
<1>2. ~ (Listen \/ Accept \/ ScanHit \/ MasterLock \/ MarkBusy)
  BY <1>0 DEF Listen, Accept, ScanHit, MasterLock, MarkBusy
<1>3. ~ Read /\ ~ Isend
  BY <1>0 DEF Read, Isend
<1>4. ~ Listener
  BY <1>0 DEF Listener, RecvDone, ListenerLock, SetAvailable
<1>5. ~ \E w \in Workers : Worker(w)
  BY <1>0 DEF Worker, RecvWork, SetRunning, Pipeline, SendDone, Report
<1>6. ~ UNCHANGED vars
  BY <1>0 DEF vars
<1>7. ScanMiss
  BY <1>1, <1>2, <1>3, <1>4, <1>5, <1>6 DEF Next, Master
<1>8. ~ slot < N
  BY <1>0, <1>7 DEF ScanMiss
<1> QED
  BY <1>7, <1>8

\* When a request is dropped every single worker is busy, or came back after
\* the search had passed it, for any number of workers and any interleaving of
\* the search (mpii.c:342-359) with the listener.
THEOREM PoolCorrect == Spec => DropNeedsFullPool
<1>1. Init => PassedInv
  BY DEF Init, PassedInv
<1>2. IInv /\ PassedInv /\ [Next]_vars => PassedInv'
  BY StepPassed
<1>3. IInv /\ RInv /\ PassedInv /\ [Next]_vars =>
        [\A r \in Requests : fate[r] # "dropped" /\ fate'[r] = "dropped"
           => \A w \in Workers : Occupied(w) \/ w \in back]_vars
  <2> SUFFICES ASSUME IInv, RInv, PassedInv, [Next]_vars, NEW r \in Requests,
                      fate[r] # "dropped", fate'[r] = "dropped", NEW w \in Workers
               PROVE  Occupied(w) \/ w \in back
    OBVIOUS
  <2>1. mpc = "scan" /\ ~ available[slot] /\ ~ slot < N
    BY DropStep DEF ScanMiss
  <2>2. w < slot \/ w = slot
    BY <2>1, NAssumption DEF IInv, TypeOK, Workers
  <2>3. ~ available[w] \/ w \in back
    BY <2>1, <2>2 DEF PassedInv
  <2> QED
    BY <2>3, BusyIsOccupied
<1> QED
  BY <1>1, <1>2, <1>3, Inductive, RInductive, PTL DEF Spec, DropNeedsFullPool

=============================================================================
