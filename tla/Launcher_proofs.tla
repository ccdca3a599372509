-------------------------- MODULE Launcher_proofs ---------------------------
(* Theorems about Launcher, checked by TLAPS for every Tasks and MaxLaunch. *)
EXTENDS Launcher, FiniteSetTheorems, TLAPS

\* The steps of the graph master between publishing "data" and "ptype".
Publishing == {"put", "task_master", "ptype"}

\* The graph master serves a launch, and the keys of that launch are published
\* in the order of the code: nothing before "data", "ptype" after it.
PublishInv ==
  /\ gpc \notin {"accept", "gone"} => count \in Launches
  /\ gpc \in {"setop", "main_pset", "data"} =>
       "data" \notin keys[count] /\ "ptype" \notin keys[count]
  /\ gpc \in Publishing =>
       "data" \in keys[count] /\ "ptype" \notin keys[count] /\ data[count] = id
  /\ gpc = "finalize" => "data" \in keys[count]
  /\ \A e \in Launches : e > count => keys[e] = {} /\ tpc[e] = "off"
  /\ gpc = "setop" => tpc[count] = "off"
  /\ \A e \in Launches : "ptype" \in keys[e] => "data" \in keys[e]

\* A process has come as far as the published keys let it, and has given its
\* process set back exactly when it is to report.
ProcessInv ==
  \A e \in Launches :
    /\ tpc[e] \notin {"off", "ptype"} => "ptype" \in keys[e]
    /\ given[e] <=> tpc[e] \in {"report", "exit"}

\* The set of a launch, or of a later one of the same task, is in the key store
\* before its "ptype" is published.
StoreInv ==
  ~ lossy => \A e \in Launches :
    "ptype" \in keys[e] \/ (e = count /\ gpc \in {"task_master", "ptype"})
      => kv[data[e]] >= e

\* A state that no later report of the same process can be behind was heard of
\* a process that has passed that report.
HeardInv ==
  \A t \in Ids :
    /\ server[t] = "ERROR" => \E e \in LaunchesOf(t) :
         tpc[e] \in {"join", "sub", "report", "exit"}
    /\ server[t] = "TERMINATED" => \E e \in LaunchesOf(t) : tpc[e] = "exit"

IInv == /\ TypeOK /\ PublishInv /\ ProcessInv /\ StoreInv /\ HeardInv

-----------------------------------------------------------------------------

\* Every step keeps the types: a launch that is served has a process.
LEMMA StepType == TypeOK /\ PublishInv /\ [Next]_vars => TypeOK'
<1> SUFFICES ASSUME TypeOK, PublishInv, [Next]_vars PROVE TypeOK'
  OBVIOUS
<1> USE LaunchAssumption DEF TypeOK, PublishInv, worldVars, masterVars, taskVars,
        dictVars, MasterSteps, TaskSteps, Keys, TaskStates, Ids
<1>1. ASSUME NEW t \in Tasks, AcceptTask(t) PROVE TypeOK'
  BY <1>1 DEF AcceptTask
<1>2. CASE AcceptGarbled \/ AcceptMessage
  BY <1>2 DEF AcceptGarbled, AcceptMessage
<1>3. CASE AddProcess \/ FinalizeAdd
  BY <1>3 DEF AddProcess, FinalizeAdd
<1>4. CASE PublishMainPset \/ PublishTaskMaster \/ PublishPtype
  BY <1>4 DEF PublishMainPset, PublishTaskMaster, PublishPtype, PublishKey
<1>5. CASE PublishData
  BY <1>5 DEF PublishData, PublishKey
<1>6. CASE PutMainPset
  BY <1>6 DEF PutMainPset
<1>7. ASSUME NEW e \in Launches,
             \/ WaitPtype(e) \/ WaitData(e) \/ GetDetail(e) \/ GetMainPset(e)
             \/ Load(e) \/ Work(e) \/ JoinAndLeave(e) \/ GiveBack(e)
      PROVE  TypeOK'
  BY ZenonT(60), <1>7 DEF WaitPtype, WaitData, WaitKey, GetDetail, GetMainPset, Load, Work,
     JoinAndLeave, GiveBack, Goto
<1>8. ASSUME NEW e \in Launches, SetRunning(e) \/ SetError(e) \/ ReportEnd(e)
      PROVE  TypeOK'
  BY <1>8 DEF SetRunning, SetError, ReportEnd, Goto, Tell
<1>9. CASE UNCHANGED vars
  BY <1>9 DEF vars
<1> QED
  BY <1>1, <1>2, <1>3, <1>4, <1>5, <1>6, <1>7, <1>8, <1>9
     DEF Next, Client, Master, Task

\* Every step keeps the order in which the keys of a launch are published.
LEMMA StepPublish ==
  TypeOK /\ PublishInv /\ ProcessInv /\ [Next]_vars => PublishInv'
<1> SUFFICES ASSUME TypeOK, PublishInv, ProcessInv, [Next]_vars PROVE PublishInv'
  OBVIOUS
<1> USE LaunchAssumption DEF TypeOK, PublishInv, Publishing, Launches, worldVars,
        masterVars, taskVars, dictVars
<1>1. ASSUME NEW t \in Tasks, AcceptTask(t) PROVE PublishInv'
  BY <1>1 DEF AcceptTask
<1>2. CASE AcceptGarbled \/ AcceptMessage
  BY <1>2 DEF AcceptGarbled, AcceptMessage
<1>3. CASE AddProcess \/ FinalizeAdd
  BY <1>3 DEF AddProcess, FinalizeAdd
<1>4. CASE PublishMainPset \/ PublishTaskMaster \/ PublishPtype
  BY <1>4 DEF PublishMainPset, PublishTaskMaster, PublishPtype, PublishKey
<1>5. CASE PublishData
  BY <1>5 DEF PublishData, PublishKey
<1>6. CASE PutMainPset
  BY <1>6 DEF PutMainPset
<1>7. ASSUME NEW e \in Launches, Task(e) PROVE PublishInv'
  <2>1. /\ UNCHANGED <<gpc, id, count, keys, data>> /\ tpc[e] # "off"
        /\ \A f \in Launches : f # e => tpc'[f] = tpc[f]
    BY <1>7 DEF Task, WaitPtype, WaitData, WaitKey, GetDetail, GetMainPset, Load,
       SetRunning, Work, SetError, JoinAndLeave, GiveBack, ReportEnd, Goto
  <2> QED
    BY <2>1
<1>8. CASE UNCHANGED vars
  BY <1>8 DEF vars
<1> QED
  BY <1>1, <1>2, <1>3, <1>4, <1>5, <1>6, <1>7, <1>8 DEF Next, Client, Master

\* Every step keeps each process behind its keys, and given back when it reports.
LEMMA StepProcess ==
  TypeOK /\ PublishInv /\ ProcessInv /\ [Next]_vars => ProcessInv'
<1> SUFFICES ASSUME TypeOK, PublishInv, ProcessInv, [Next]_vars
             PROVE  ProcessInv'
  OBVIOUS
<1> USE DEF TypeOK, ProcessInv, worldVars, masterVars, taskVars, dictVars
<1>1. CASE Client
  BY <1>1 DEF Client, AcceptTask, AcceptGarbled, AcceptMessage
<1>2. CASE AddProcess
  BY <1>2 DEF AddProcess, PublishInv
<1>3. CASE PublishData
  <2>1. /\ "ptype" \notin keys[count] /\ data' = [data EXCEPT ![count] = id]
        /\ keys' = [keys EXCEPT ![count] = @ \cup {"data"}]
        /\ tpc' = tpc /\ given' = given
    BY <1>3 DEF PublishData, PublishKey, PublishInv
  <2> QED
    BY <2>1
<1>4. CASE PublishMainPset \/ PutMainPset \/ PublishTaskMaster \/ PublishPtype
           \/ FinalizeAdd
  BY <1>4 DEF PublishMainPset, PutMainPset, PublishTaskMaster, PublishPtype,
     FinalizeAdd, PublishKey
<1>5. ASSUME NEW e \in Launches, WaitPtype(e) \/ WaitData(e) \/ GetDetail(e)
                                 \/ GetMainPset(e) \/ Work(e)
      PROVE  ProcessInv'
  BY <1>5 DEF WaitPtype, WaitData, WaitKey, GetDetail, GetMainPset, Work, Goto
<1>6. ASSUME NEW e \in Launches, Load(e) PROVE ProcessInv'
  BY <1>6 DEF Load, Goto
<1>7. ASSUME NEW e \in Launches, SetRunning(e) \/ SetError(e) \/ JoinAndLeave(e)
                                 \/ GiveBack(e) \/ ReportEnd(e)
      PROVE  ProcessInv'
  BY <1>7 DEF SetRunning, SetError, JoinAndLeave, GiveBack, ReportEnd, Goto
<1>8. CASE UNCHANGED vars
  BY <1>8 DEF vars
<1> QED
  BY <1>1, <1>2, <1>3, <1>4, <1>5, <1>6, <1>7, <1>8 DEF Next, Master, Task

\* No step changes what the tasks are or whether requests may fail.
LEMMA SameWorld == [Next]_vars => UNCHANGED worldVars
BY DEF Next, Client, AcceptTask, AcceptGarbled, AcceptMessage, Master,
   AddProcess, PublishMainPset, PublishData, PutMainPset, PublishTaskMaster,
   PublishPtype, FinalizeAdd, PublishKey, Task, WaitPtype, WaitData, WaitKey,
   GetDetail, GetMainPset, Load, SetRunning, Work, SetError, JoinAndLeave,
   GiveBack, ReportEnd, worldVars, vars

\* Every step keeps the key store up to date with the published kinds: the PUT
\* of a launch precedes its "ptype", and a later launch only stores a later set.
LEMMA StepStore == TypeOK /\ PublishInv /\ StoreInv /\ [Next]_vars => StoreInv'
<1> SUFFICES ASSUME TypeOK, PublishInv, StoreInv, [Next]_vars, ~ lossy
             PROVE  \A e \in Launches :
                      ("ptype" \in keys[e]
                         \/ (e = count /\ gpc \in {"task_master", "ptype"}))'
                        => kv'[data'[e]] >= e
  BY SameWorld DEF StoreInv, worldVars
<1> DEFINE Goal == \A e \in Launches :
                     ("ptype" \in keys[e]
                        \/ (e = count /\ gpc \in {"task_master", "ptype"}))'
                       => kv'[data'[e]] >= e
<1> USE DEF TypeOK, StoreInv, worldVars, masterVars, taskVars, dictVars
<1>1. CASE Client
  BY <1>1 DEF Client, AcceptTask, AcceptGarbled, AcceptMessage
<1>2. CASE AddProcess \/ FinalizeAdd
  BY <1>2 DEF AddProcess, FinalizeAdd
<1>3. CASE PublishMainPset \/ PublishTaskMaster \/ PublishPtype
  BY <1>3 DEF PublishMainPset, PublishTaskMaster, PublishPtype, PublishKey
<1>4. CASE PublishData
  <2>1. /\ "ptype" \notin keys[count] /\ data' = [data EXCEPT ![count] = id]
        /\ keys' = [keys EXCEPT ![count] = @ \cup {"data"}]
        /\ gpc' = "put" /\ kv' = kv /\ count' = count
    BY <1>4 DEF PublishData, PublishKey, PublishInv
  <2> QED
    BY <2>1
<1>5. CASE PutMainPset
  <2>1. /\ kv' = [kv EXCEPT ![id] = count] /\ count' = count /\ keys' = keys
        /\ data' = data /\ gpc' = "task_master" /\ count \in Launches
        /\ data[count] = id
    BY <1>5 DEF PutMainPset, PublishInv, Publishing
  <2>2. \A e \in Launches : "ptype" \in keys[e] => count >= e
    BY <2>1, LaunchAssumption DEF PublishInv, Launches
  <2>3. ASSUME NEW e \in Launches, "ptype" \in keys[e] \/ e = count
        PROVE  kv'[data[e]] >= e
    <3>1. CASE data[e] = id
      <4>1. kv'[data[e]] = count
        BY <2>1, <3>1
      <4> QED
        BY <2>2, <2>3, <4>1, LaunchAssumption DEF Launches
    <3>2. CASE data[e] # id
      <4>1. kv'[data[e]] = kv[data[e]] /\ e # count
        BY <2>1, <3>2
      <4> QED
        BY <2>3, <4>1
    <3> QED
      BY <3>1, <3>2
  <2> QED
    BY <2>1, <2>3
<1>6. ASSUME NEW e \in Launches, Task(e) PROVE Goal
  <2>1. UNCHANGED <<keys, data, kv, count, gpc>>
    BY <1>6 DEF Task, WaitPtype, WaitData, WaitKey, GetDetail, GetMainPset, Load,
       SetRunning, Work, SetError, JoinAndLeave, GiveBack, ReportEnd
  <2> QED
    BY <2>1
<1>7. CASE UNCHANGED vars
  BY <1>7 DEF vars
<1> QED
  BY <1>1, <1>2, <1>3, <1>4, <1>5, <1>6, <1>7 DEF Next, Master

\* What a step does to the set of launches of a task: it only adds some, and
\* keeps where a process is unless it is a step of that process.
LEMMA LaunchesGrow ==
  ASSUME TypeOK, PublishInv, ProcessInv, [Next]_vars, NEW t \in Ids,
         NEW e \in LaunchesOf(t)
  PROVE  /\ e \in LaunchesOf(t)'
         /\ tpc[e] \in {"join", "sub", "report", "exit"} =>
              tpc'[e] \in {"join", "sub", "report", "exit"}
         /\ tpc[e] = "exit" => tpc'[e] = "exit"
<1> USE DEF TypeOK, LaunchesOf, worldVars, masterVars, taskVars, dictVars
<1>0. e \in Launches /\ tpc[e] # "off" /\ "data" \in keys[e] /\ data[e] = t
  OBVIOUS
<1>1. CASE Client
  BY <1>0, <1>1 DEF Client, AcceptTask, AcceptGarbled, AcceptMessage
<1>2. CASE AddProcess
  BY <1>0, <1>2 DEF AddProcess, PublishInv
<1>3. CASE PublishMainPset \/ PutMainPset \/ PublishTaskMaster \/ PublishPtype
           \/ FinalizeAdd
  BY <1>0, <1>3 DEF PublishMainPset, PutMainPset, PublishTaskMaster, PublishPtype,
     FinalizeAdd, PublishKey
<1>4. CASE PublishData
  BY <1>0, <1>4 DEF PublishData, PublishKey, PublishInv
<1>5. ASSUME NEW f \in Launches, Task(f)
      PROVE  /\ e \in LaunchesOf(t)'
             /\ tpc[e] \in {"join", "sub", "report", "exit"} =>
                  tpc'[e] \in {"join", "sub", "report", "exit"}
             /\ tpc[e] = "exit" => tpc'[e] = "exit"
  BY <1>0, <1>5 DEF Task, WaitPtype, WaitData, WaitKey, GetDetail, GetMainPset,
     Load, SetRunning, Work, SetError, JoinAndLeave, GiveBack, ReportEnd, Goto
<1>6. CASE UNCHANGED vars
  BY <1>0, <1>6 DEF vars
<1> QED
  BY <1>1, <1>2, <1>3, <1>4, <1>5, <1>6 DEF Next, Master

\* A process that reports is a launch of the task it reports about.
LEMMA ReporterIsLaunch ==
  ASSUME TypeOK, PublishInv, ProcessInv, NEW e \in Launches,
         tpc[e] \notin {"off", "ptype"}
  PROVE  e \in LaunchesOf(data[e]) /\ data[e] \in Ids
BY DEF TypeOK, PublishInv, ProcessInv, LaunchesOf

\* The server hears of a step only what the process that reports says: RUNNING
\* before its function runs, ERROR on the way to the join, TERMINATED last.
LEMMA ServerStep ==
  ASSUME TypeOK, [Next]_vars, server' # server
  PROVE  \E e \in Launches :
           \/ /\ tpc[e] = "running" /\ tpc'[e] = "work"
              /\ server' = [server EXCEPT ![data[e]] = "RUNNING"]
           \/ /\ tpc[e] = "error" /\ tpc'[e] = "join"
              /\ server' = [server EXCEPT ![data[e]] = "ERROR"]
           \/ /\ tpc[e] = "report" /\ tpc'[e] = "exit"
              /\ server' = [server EXCEPT ![data[e]] = "TERMINATED"]
<1> USE DEF TypeOK, worldVars, masterVars, taskVars, dictVars
<1>1. ~ Client
  BY DEF Client, AcceptTask, AcceptGarbled, AcceptMessage
<1>2. ~ Master
  BY DEF Master, AddProcess, PublishMainPset, PublishData, PutMainPset,
     PublishTaskMaster, PublishPtype, FinalizeAdd, PublishKey
<1>3. PICK e \in Launches : Task(e)
  BY <1>1, <1>2 DEF Next, vars
<1>4. SetRunning(e) \/ SetError(e) \/ ReportEnd(e)
  BY <1>3 DEF Task, WaitPtype, WaitData, WaitKey, GetDetail, GetMainPset, Load,
     Work, JoinAndLeave, GiveBack
<1> QED
  BY <1>4 DEF SetRunning, SetError, ReportEnd, Tell, Goto

\* Every step keeps it true that what the server has heard of a task was said by
\* a process of it that cannot say less any more.
LEMMA StepHeard == IInv /\ [Next]_vars => HeardInv'
<1> SUFFICES ASSUME IInv, [Next]_vars, NEW t \in Ids
             PROVE  /\ server'[t] = "ERROR" => \E e \in LaunchesOf(t)' :
                         tpc'[e] \in {"join", "sub", "report", "exit"}
                    /\ server'[t] = "TERMINATED" => \E e \in LaunchesOf(t)' :
                         tpc'[e] = "exit"
  BY DEF HeardInv
<1> USE DEF IInv
<1>1. CASE server'[t] = server[t]
  BY <1>1, LaunchesGrow DEF HeardInv
<1>2. CASE server'[t] # server[t]
  <2>1. PICK e \in Launches :
           \/ /\ tpc[e] = "running" /\ tpc'[e] = "work"
              /\ server' = [server EXCEPT ![data[e]] = "RUNNING"]
           \/ /\ tpc[e] = "error" /\ tpc'[e] = "join"
              /\ server' = [server EXCEPT ![data[e]] = "ERROR"]
           \/ /\ tpc[e] = "report" /\ tpc'[e] = "exit"
              /\ server' = [server EXCEPT ![data[e]] = "TERMINATED"]
    BY <1>2, ServerStep
  <2>2. data[e] = t
    BY <1>2, <2>1 DEF TypeOK
  <2>3. e \in LaunchesOf(t)
    BY <2>1, <2>2, ReporterIsLaunch
  <2>4. e \in LaunchesOf(t)'
    BY <2>3, LaunchesGrow
  <2> QED
    BY <2>1, <2>2, <2>4 DEF TypeOK
<1> QED
  BY <1>1, <1>2

-----------------------------------------------------------------------------

\* The strengthened invariant holds of every reachable state.
LEMMA Inductive == Spec => []IInv
<1>1. Init => IInv
  <2> SUFFICES ASSUME Init PROVE IInv
    OBVIOUS
  <2>1. TypeOK
    BY LaunchAssumption DEF Init, TypeOK, MasterSteps, TaskSteps, TaskStates, Ids
  <2>2. PublishInv /\ ProcessInv
    BY DEF Init, PublishInv, Publishing, ProcessInv
  <2>3. StoreInv /\ HeardInv
    BY DEF Init, StoreInv, HeardInv, Ids
  <2> QED
    BY <2>1, <2>2, <2>3 DEF IInv
<1>2. IInv /\ [Next]_vars => IInv'
  BY StepType, StepPublish, StepProcess, StepStore, StepHeard DEF IInv
<1> QED
  BY <1>1, <1>2, PTL DEF Spec

\* The variables of the graph master, of the launched processes, of the
\* dictionary and of the server always have their types.
THEOREM TypeCorrect == Spec => []TypeOK
  BY Inductive, PTL DEF IInv

\* A launched process that asks for its set never gets an older one, for any
\* number of launches, also of the same task.
THEOREM LookupCorrect == Spec => []LookupIsFresh
<1>1. IInv => LookupIsFresh
  BY DEF IInv, LookupIsFresh, ProcessInv, StoreInv
<1> QED
  BY <1>1, Inductive, PTL

\* A task is reported TERMINATED only after the process of some launch of it
\* was given back to the runtime.
THEOREM GivenBackCorrect == Spec => []TerminatedIsGivenBack
<1>1. IInv => TerminatedIsGivenBack
  BY DEF IInv, TerminatedIsGivenBack, HeardInv, LaunchesOf, ProcessInv
<1> QED
  BY <1>1, Inductive, PTL

\* What the server hears of a task that is launched once only moves forward.
THEOREM ForwardCorrect == Spec => StatesMoveForward
<1> DEFINE Forward == \A t \in Ids : Cardinality(LaunchesOf(t)) <= 1
                        => Before[server'[t]] >= Before[server[t]]
<1>1. IInv /\ [Next]_vars => [Forward]_vars
  <2> SUFFICES ASSUME IInv, [Next]_vars, NEW t \in Ids,
                      Cardinality(LaunchesOf(t)) <= 1
               PROVE  Before[server'[t]] >= Before[server[t]]
    OBVIOUS
  <2>1. server[t] \in TaskStates
    BY DEF IInv, TypeOK
  <2>2. CASE server'[t] = server[t]
    BY <2>1, <2>2 DEF TaskStates, Before
  <2>3. CASE server'[t] # server[t]
    <3>1. PICK e \in Launches :
             \/ /\ tpc[e] = "running" /\ tpc'[e] = "work"
                /\ server' = [server EXCEPT ![data[e]] = "RUNNING"]
             \/ /\ tpc[e] = "error" /\ tpc'[e] = "join"
                /\ server' = [server EXCEPT ![data[e]] = "ERROR"]
             \/ /\ tpc[e] = "report" /\ tpc'[e] = "exit"
                /\ server' = [server EXCEPT ![data[e]] = "TERMINATED"]
      BY <2>3, ServerStep DEF IInv
    <3>2. data[e] = t
      BY <2>3, <3>1 DEF IInv, TypeOK
    <3>3. e \in LaunchesOf(t)
      BY <3>1, <3>2, ReporterIsLaunch DEF IInv
    <3>4. \A f \in LaunchesOf(t) : f = e
      <4>1. IsFiniteSet(LaunchesOf(t))
        <5>1. IsFiniteSet(Launches)
          BY LaunchAssumption, FS_Interval DEF Launches
        <5> QED
          BY <5>1, FS_Subset DEF LaunchesOf
      <4>2. Cardinality(LaunchesOf(t)) \in Nat
        BY <4>1, FS_CardinalityType
      <4>3. Cardinality(LaunchesOf(t)) # 0
        BY <3>3, <4>1, FS_EmptySet
      <4>4. Cardinality(LaunchesOf(t)) = 1
        BY <4>2, <4>3
      <4> QED
        BY <3>3, <4>1, <4>4, FS_Singleton
    <3>5. /\ server[t] = "ERROR" => tpc[e] \in {"join", "sub", "report", "exit"}
          /\ server[t] = "TERMINATED" => tpc[e] = "exit"
      BY <3>4 DEF IInv, HeardInv
    <3>6. \/ server'[t] = "RUNNING" /\ server[t] \in {"none", "RUNNING"}
          \/ server'[t] = "ERROR" /\ server[t] \in {"none", "RUNNING", "ERROR"}
          \/ server'[t] = "TERMINATED"
      BY <2>1, <3>1, <3>2, <3>5 DEF IInv, TypeOK, TaskStates
    <3> QED
      BY <2>1, <3>6 DEF Before, TaskStates
  <2> QED
    BY <2>2, <2>3
<1> QED
  BY <1>1, Inductive, PTL DEF Spec, StatesMoveForward

=============================================================================
