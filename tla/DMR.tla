-------------------------------- MODULE DMR ---------------------------------
(***************************************************************************)
(* The macros of dmr.h under the program written for them, sleep.c.        *)
(* Every process of a task runs DMR_INIT, then a loop with one             *)
(* DMR_RECONFIGURATION per step, then DMR_FINALIZE.  The primary process   *)
(* keeps one REPLACE operation requested; the runtime executes it when it  *)
(* likes.  Once a query shows the operation, all processes move to the new *)
(* set, and gather the data on the old communicator and scatter it on the  *)
(* new one.                                                                *)
(*                                                                         *)
(* The MPI runtime is external.  Its calls that take a process set as      *)
(* their first argument (query, lookup, barrier) are collective over that  *)
(* set: dmr.h passes the main set where all call and "mpi://SELF" where    *)
(* the primary process calls alone.                                        *)
(***************************************************************************)
EXTENDS Integers, Sequences, FiniteSets, SequencesExt

CONSTANTS
  Procs,     \* every process the machine can ever run: 1 .. n
  NumOrig,   \* processes 1 .. NumOrig are launched with the task
  Sizes,     \* the numbers of processes the runtime chooses from
  Steps,     \* STEPS of sleep.c
  Size,      \* SIZE of sleep.c: the elements of the distributed vector
  MaxPsets   \* bound: the runtime executes at most MaxPsets - 1 operations

ASSUME ProcsAssumption == IsFiniteSet(Procs) /\ Procs = 1 .. Cardinality(Procs)
ASSUME OrigAssumption == NumOrig \in Procs
ASSUME SizesAssumption == Sizes \subseteq Nat \ {0} /\ NumOrig \in Sizes
ASSUME NumbersAssumption == Steps \in Nat /\ Size \in Nat \ {0} /\ MaxPsets \in Nat \ {0}

Orig == 1 .. NumOrig

\* The value of "inter_pset" that stands for "dmr://finalize".
Finalized == MaxPsets + 1

\* An element nobody has written.
Junk == 0

\* "request", "ask" and "leave" are of Grow.
Locations == {"off", "waiting", "init", "itrecv", "exprecv", "step", "query", "dup",
              "publish", "lookup", "disconnect", "recreate", "itcast", "gatherE",
              "scatterE", "gatherS", "scatterS", "finop", "leaveold", "cancel",
              "ackwait", "barrier", "exit", "request", "ask", "leave"}

VARIABLES
  psets,    \* psets[e]: the e-th main set and the operation that made it
  dict,     \* dict[d]: "inter_pset" of the set of added processes d, 0 if none
  ack,      \* the sets that have acknowledged the end of the task
  req,      \* an operation is requested and not yet executed or canceled
  log,      \* log[e]: what rank 0 has sent on the communicator of psets[e]
  pc,       \* pc[p]: where p is
  comm,     \* comm[p]: the set DMR_INTERCOMM was made from, 0 if null
  old,      \* old[p]: the set DMR_COMM_OLD was made from, 0 if null
  new,      \* new[p]: the set DMR_COMM_NEW was made from, 0 if null
  main,     \* main[p]: main_pset, 0 while it is mpi://WORLD of a spawned process
  primary,  \* primary[p]: primary_proc
  asked,    \* asked[p]: psetop_req is not null
  it,       \* it[p]: DMR_it
  idx,      \* idx[p]: messages of rank 0 that p has taken on comm[p]
  block,    \* block[p]: vector, p's part of the elements
  gathered  \* gathered[p]: gathered_data, empty unless p has gathered

runtimeVars == <<psets, dict, ack, req>>
commVars == <<comm, old, new>>
dataVars == <<block, gathered>>
vars == <<psets, dict, ack, req, log, pc, comm, old, new, main, primary, asked, it,
          idx, block, gathered>>

\* A main set: its processes by rank, those the operation that made it added
\* and removed, and how often that operation was finalized.
NewPset(ms, add, sub) == [members |-> ms, added |-> add, removed |-> sub, fin |-> 0]

Members(e) == ToSet(psets[e].members)
Root(e) == Head(psets[e].members)
Rank(p, e) == CHOOSE i \in 0 .. Len(psets[e].members) - 1 : psets[e].members[i + 1] = p
Number(e) == Len(psets[e].members)

\* q_output_psets[1], the name of the set of added processes.  The empty set
\* has the name "" whatever the operation.
DeltaAdd(e) == IF psets[e].added = {} THEN 0 ELSE e

Init ==
  /\ psets = << NewPset([i \in Orig |-> i], {}, {}) >>
  /\ dict = [d \in 0 .. MaxPsets |-> 0]
  /\ ack = {}
  /\ req = FALSE
  /\ log = <<>>
  /\ pc = [p \in Procs |-> IF p \in Orig THEN "init" ELSE "off"]
  /\ comm = [p \in Procs |-> 0]
  /\ old = [p \in Procs |-> 0]
  /\ new = [p \in Procs |-> 0]
  /\ main = [p \in Procs |-> IF p \in Orig THEN 1 ELSE 0]
  /\ primary = [p \in Procs |-> p = 1]
  /\ asked = [p \in Procs |-> FALSE]
  /\ it = [p \in Procs |-> 0]
  /\ idx = [p \in Procs |-> 0]
  /\ block = [p \in Procs |-> <<>>]
  /\ gathered = [p \in Procs |-> <<>>]

-----------------------------------------------------------------------------
(* The runtime executes a requested operation. *)

Fresh == {q \in Procs : pc[q] = "off"}

\* k processes to spawn.  They are all alike: the next ones in order.
Unused(k) == {q \in Fresh : Cardinality({r \in Fresh : r <= q}) <= k}

\* The sequences that list each member of S once, in the order of key.
Ordered(S, key) ==
  {s \in SetToSeqs(S) : \A i, j \in DOMAIN s : i < j => key[s[i]] < key[s[j]]}

\* It ranks those that stay first and in their order, keeps one at least, and
\* spawns processes that were not used before.  It never adds and removes in
\* one operation.
Grants ==
  LET e == Len(psets)
      ms == psets[e].members
      Larger(n) == LET add == Unused(n - Len(ms))
                   IN {NewPset(ms \o s, add, {}) : s \in Ordered(add, [q \in add |-> q])}
      Smaller(sub) == {NewPset(s, {}, sub) :
                         s \in Ordered(Members(e) \ sub, [q \in Members(e) |-> Rank(q, e)])}
      grown == {m \in Sizes : /\ Len(ms) < m
                              /\ Cardinality(Unused(m - Len(ms))) = m - Len(ms)}
      subs == {s \in SUBSET Members(e) : s # {} /\ Cardinality(Members(e) \ s) \in Sizes}
  IN (UNION {Larger(n) : n \in grown}) \cup (UNION {Smaller(sub) : sub \in subs})

Execute ==
  /\ req
  /\ Len(psets) < MaxPsets
  /\ req' = FALSE
  /\ \E g \in Grants :
       /\ psets' = Append(psets, g)
       /\ pc' = [q \in Procs |-> IF q \in g.added THEN "waiting" ELSE pc[q]]
       /\ primary' = [q \in Procs |-> IF q \in g.added THEN \A r \in g.added : q <= r
                                      ELSE primary[q]]
  /\ UNCHANGED <<dict, ack, log, commVars, main, asked, it, idx, dataVars>>

-----------------------------------------------------------------------------
(* MPI, as the macros use it. *)

\* All processes of ps have called the collective operation l.
AllAt(ps, l) == ps # {} /\ \A p \in ps : pc[p] = l

\* The same for the processes of set e, on the communicator made from it:
\* handle is comm or old.
AllCall(e, l, handle) == AllAt(Members(e), l) /\ \A p \in Members(e) : handle[p] = e

Move(ps, l) == pc' = [p \in Procs |-> IF p \in ps THEN l[p] ELSE pc[p]]

\* MPI_Comm_create_from_group: the processes of set e build its communicator
\* together; l is where each goes on.
CreateFromGroup(e, l) ==
  /\ \A p \in Members(e) : pc[p] \in {"init", "recreate"} /\ main[p] = e
  /\ log' = Append(log, <<>>)
  /\ comm' = [p \in Procs |-> IF p \in Members(e) THEN e ELSE comm[p]]
  /\ idx' = [p \in Procs |-> IF p \in Members(e) THEN 0 ELSE idx[p]]
  /\ Move(Members(e), l)

\* A broadcast or scatter from rank 0 does not wait for the receivers.
Send(p, kind, val) ==
  /\ log' = [log EXCEPT ![comm[p]] = Append(@, [kind |-> kind, val |-> val])]
  /\ idx' = [idx EXCEPT ![p] = @ + 1]

Ready(p, kind) ==
  /\ idx[p] < Len(log[comm[p]])
  /\ log[comm[p]][idx[p] + 1].kind = kind
Value(p) == log[comm[p]][idx[p] + 1].val
Take(p) == idx' = [idx EXCEPT ![p] = @ + 1] /\ UNCHANGED log

IsRoot(p) == Rank(p, comm[p]) = 0

-----------------------------------------------------------------------------
(* The data of sleep.c. *)

\* Elements per process: an integer division, the rest belongs to nobody.
Share(e) == Size \div Number(e)

\* gather: rank 0 has an array of all elements, filled in the order of ranks.
Collected(e) ==
  LET k == Share(e)
  IN [i \in 1 .. Size |-> IF i <= k * Number(e)
                          THEN block[psets[e].members[((i - 1) \div k) + 1]][((i - 1) % k) + 1]
                          ELSE Junk]

\* Mutant: the share is still that of the old communicator.
PartOldShare(data, p, e) ==
  LET k == Share(IF e > 1 THEN e - 1 ELSE e)
  IN [i \in 1 .. k |-> IF Rank(p, e) * k + i <= Size THEN data[Rank(p, e) * k + i] ELSE Junk]

\* scatter: rank r gets the r-th share of what rank 0 has.
Part(data, p, e) == [i \in 1 .. Share(e) |-> data[Rank(p, e) * Share(e) + i]]

\* A rank 0 that has not gathered scatters from a pointer it never assigned.
Source(p) == IF gathered[p] # <<>> THEN gathered[p] ELSE [i \in 1 .. Size |-> Junk]

\* initialize_data: the elements are numbered in the order of ranks.
Initial(p, e) == [i \in 1 .. Share(e) |-> Rank(p, e) * Share(e) + i]

-----------------------------------------------------------------------------
(* DMR_INIT. *)

\* Where a process goes on from DMR_INIT or DMR_RECONFIGURATION.
AfterCreate == [p \in Procs |-> IF pc[p] = "recreate" THEN "itcast"
                                ELSE IF p \in Orig THEN "step" ELSE "itrecv"]

\* Mutant: the processes that were spawned are not waited for.
CreateCommEarly(e) ==
  /\ \A p \in Members(e) \ psets[e].added : pc[p] \in {"init", "recreate"} /\ main[p] = e
  /\ log' = Append(log, <<>>)
  /\ comm' = [p \in Procs |-> IF p \in Members(e) THEN e ELSE comm[p]]
  /\ idx' = [p \in Procs |-> IF p \in Members(e) THEN 0 ELSE idx[p]]
  /\ new' = [p \in Procs |-> IF p \in Members(e) /\ pc[p] = "init" THEN e ELSE new[p]]
  /\ block' = [p \in Procs |-> IF p \in Members(e) /\ p \in Orig /\ pc[p] = "init"
                               THEN Initial(p, e) ELSE block[p]]
  /\ Move(Members(e), AfterCreate)
  /\ UNCHANGED <<runtimeVars, old, main, primary, asked, it, gathered>>

\* The creation of DMR_INTERCOMM in DMR_INIT and in DMR_RECONFIGURATION.
\* Those launched with the task have their first data then.
CreateComm(e) ==
  /\ CreateFromGroup(e, AfterCreate)
  /\ new' = [p \in Procs |-> IF p \in Members(e) /\ pc[p] = "init" THEN e ELSE new[p]]
  /\ block' = [p \in Procs |-> IF p \in Members(e) /\ p \in Orig /\ pc[p] = "init"
                               THEN Initial(p, e) ELSE block[p]]
  /\ UNCHANGED <<runtimeVars, old, main, primary, asked, it, gathered>>

\* The processes spawned by operation e look up the name of the main set.  If
\* the task ends instead, the primary one acknowledges and all of them stop.
Join(e) ==
  /\ AllAt(psets[e].added, "waiting")
  /\ LET ps == psets[e].added
         over == dict[e] = Finalized
     IN /\ dict[e] # 0
        /\ main' = [p \in Procs |-> IF p \in ps /\ ~ over THEN dict[e] ELSE main[p]]
        /\ primary' = [p \in Procs |-> IF p \in ps /\ ~ over THEN p = Root(dict[e])
                                       ELSE primary[p]]
        /\ ack' = IF over /\ \E p \in ps : primary[p] THEN ack \cup {e} ELSE ack
        /\ Move(ps, [p \in Procs |-> IF over THEN "exit" ELSE "init"])
  /\ UNCHANGED <<psets, dict, req, log, commVars, asked, it, idx, dataVars>>

\* Mutant: DMR_it is incremented twice.
ItRecvTwice(p) ==
  /\ pc[p] = "itrecv"
  /\ Ready(p, "it")
  /\ it' = [it EXCEPT ![p] = Value(p) + 2]
  /\ Take(p)
  /\ pc' = [pc EXCEPT ![p] = "exprecv"]
  /\ UNCHANGED <<runtimeVars, commVars, main, primary, asked, dataVars>>

\* Mutant: DMR_it++ is missing.
ItRecvSame(p) ==
  /\ pc[p] = "itrecv"
  /\ Ready(p, "it")
  /\ it' = [it EXCEPT ![p] = Value(p)]
  /\ Take(p)
  /\ pc' = [pc EXCEPT ![p] = "exprecv"]
  /\ UNCHANGED <<runtimeVars, commVars, main, primary, asked, dataVars>>

\* A spawned process starts with the step after the one rank 0 is in ...
ItRecv(p) ==
  /\ pc[p] = "itrecv"
  /\ Ready(p, "it")
  /\ it' = [it EXCEPT ![p] = Value(p) + 1]
  /\ Take(p)
  /\ pc' = [pc EXCEPT ![p] = "exprecv"]
  /\ UNCHANGED <<runtimeVars, commVars, main, primary, asked, dataVars>>

\* ... and with its part of the data: recv_expand.
ExpRecv(p) ==
  /\ pc[p] = "exprecv"
  /\ Ready(p, "data")
  /\ block' = [block EXCEPT ![p] = Part(Value(p), p, comm[p])]
  /\ Take(p)
  /\ pc' = [pc EXCEPT ![p] = "step"]
  /\ UNCHANGED <<runtimeVars, commVars, main, primary, asked, it, gathered>>

-----------------------------------------------------------------------------
(* DMR_RECONFIGURATION, and the loop around it. *)

\* One step of the program.  In all steps but the last the primary process
\* requests an operation unless it has one requested, and all query.
Compute(p) ==
  /\ pc[p] = "step"
  /\ IF it[p] < Steps
     THEN /\ LET request == primary[p] /\ ~ asked[p]
             IN /\ req' = (req \/ request)
                /\ asked' = [asked EXCEPT ![p] = @ \/ request]
          /\ pc' = [pc EXCEPT ![p] = "query"]
          /\ UNCHANGED it
     ELSE /\ it' = [it EXCEPT ![p] = @ + 1]
          /\ pc' = [pc EXCEPT ![p] = "cancel"]
          /\ UNCHANGED <<req, asked>>
  /\ UNCHANGED <<psets, dict, ack, log, commVars, main, primary, idx, dataVars>>

\* The query of set e: is there an operation that was executed on it?
Query(e) ==
  /\ AllCall(e, "query", comm)
  /\ IF Len(psets) > e
     THEN /\ Move(Members(e), [p \in Procs |-> "dup"])
          /\ UNCHANGED it
     ELSE /\ Move(Members(e), [p \in Procs |-> "step"])
          /\ it' = [p \in Procs |-> IF p \in Members(e) THEN it[p] + 1 ELSE it[p]]
  /\ UNCHANGED <<runtimeVars, log, commVars, main, primary, asked, idx, dataVars>>

\* MPI_Comm_dup of DMR_INTERCOMM to DMR_COMM_OLD.
Dup(e) ==
  /\ AllCall(e, "dup", comm)
  /\ old' = [p \in Procs |-> IF p \in Members(e) THEN comm[p] ELSE old[p]]
  /\ new' = [p \in Procs |-> IF p \in Members(e) THEN 0 ELSE new[p]]
  /\ Move(Members(e), [p \in Procs |-> IF primary[p] THEN "publish" ELSE "lookup"])
  /\ UNCHANGED <<runtimeVars, log, comm, main, primary, asked, it, idx, dataVars>>

\* The primary process frees its request and publishes the new main set.
Publish(p) ==
  /\ pc[p] = "publish"
  /\ asked' = [asked EXCEPT ![p] = FALSE]
  /\ dict' = [dict EXCEPT ![DeltaAdd(main[p] + 1)] = main[p] + 1]
  /\ pc' = [pc EXCEPT ![p] = "lookup"]
  /\ UNCHANGED <<psets, ack, req, log, commVars, main, primary, it, idx, dataVars>>

\* Mutant: a process looks the name up with "mpi://SELF", alone.
LookupAlone(e) ==
  /\ LET d == DeltaAdd(e + 1) IN
     /\ e < Len(psets)
     /\ dict[d] # 0
     /\ \E p \in Members(e) :
          /\ pc[p] = "lookup" /\ main[p] = e
          /\ main' = [main EXCEPT ![p] = dict[d]]
          /\ primary' = [primary EXCEPT ![p] = p = Root(dict[d])]
          /\ pc' = [pc EXCEPT ![p] = "disconnect"]
  /\ UNCHANGED <<runtimeVars, log, commVars, asked, it, idx, dataVars>>

\* All wait for the name of the new main set, and see whether they are its
\* primary process.
Lookup(e) ==
  /\ AllCall(e, "lookup", comm) /\ e < Len(psets)
  /\ LET d == DeltaAdd(e + 1) IN
     /\ dict[d] # 0
     /\ main' = [p \in Procs |-> IF p \in Members(e) THEN dict[d] ELSE main[p]]
     /\ primary' = [p \in Procs |-> IF p \in Members(e) THEN p = Root(dict[d])
                                    ELSE primary[p]]
  /\ Move(Members(e), [p \in Procs |-> "disconnect"])
  /\ UNCHANGED <<runtimeVars, log, commVars, asked, it, idx, dataVars>>

Included(p) == p \in Members(main[p])

\* Where a process redistributes first: EXPAND_SEND if processes were added,
\* SHRINK_RECV or SHRINK_SEND if processes were removed.
AfterSwitch(p) ==
  IF psets[main[p]].added # {} THEN "gatherE"
  ELSE IF psets[main[p]].removed # {} THEN "gatherS" ELSE "finop"

\* MPI_Comm_disconnect of DMR_INTERCOMM, by those that leave too.
Disconnect(e) ==
  /\ AllCall(e, "disconnect", comm)
  /\ comm' = [p \in Procs |-> IF p \in Members(e) THEN 0 ELSE comm[p]]
  /\ Move(Members(e), [p \in Procs |-> IF Included(p) THEN "recreate" ELSE AfterSwitch(p)])
  /\ UNCHANGED <<runtimeVars, log, old, new, main, primary, asked, it, idx, dataVars>>

\* Mutant: DMR_COMM_NEW is not set.
ItCastNoNew(p) ==
  /\ pc[p] = "itcast"
  /\ \/ IsRoot(p) /\ Send(p, "it", it[p]) /\ UNCHANGED it
     \/ /\ ~ IsRoot(p) /\ Ready(p, "it")
        /\ it' = [it EXCEPT ![p] = Value(p)]
        /\ Take(p)
  /\ pc' = [pc EXCEPT ![p] = AfterSwitch(p)]
  /\ UNCHANGED <<runtimeVars, comm, old, new, main, primary, asked, dataVars>>

\* The broadcast of DMR_it: everybody goes on with rank 0's step.
ItCast(p) ==
  /\ pc[p] = "itcast"
  /\ \/ IsRoot(p) /\ Send(p, "it", it[p]) /\ UNCHANGED it
     \/ /\ ~ IsRoot(p) /\ Ready(p, "it")
        /\ it' = [it EXCEPT ![p] = Value(p)]
        /\ Take(p)
  /\ new' = [new EXCEPT ![p] = comm[p]]
  /\ pc' = [pc EXCEPT ![p] = AfterSwitch(p)]
  /\ UNCHANGED <<runtimeVars, comm, old, main, primary, asked, dataVars>>

\* gather on DMR_COMM_OLD: first in send_expand, in recv_shrink, and all of
\* send_shrink.  Its barrier waits for all.
Gather(e, l) ==
  /\ AllCall(e, l, old)
  /\ gathered' = [gathered EXCEPT ![Root(e)] = Collected(e)]
  /\ Move(Members(e), [p \in Procs |-> IF l = "gatherE" THEN "scatterE"
                                       ELSE IF Included(p) THEN "scatterS" ELSE "finop"])
  /\ UNCHANGED <<runtimeVars, log, commVars, main, primary, asked, it, idx, block>>

AfterScatter(p) ==
  IF pc[p] = "scatterE" /\ psets[main[p]].removed # {} THEN "gatherS" ELSE "finop"

\* scatter on DMR_COMM_NEW, then rank 0 frees what it had gathered.
Scatter(p) ==
  /\ pc[p] \in {"scatterE", "scatterS"}
  /\ new[p] # 0
  /\ \/ /\ IsRoot(p)
        /\ Send(p, "data", Source(p))
        /\ block' = [block EXCEPT ![p] = Part(Source(p), p, new[p])]
        /\ gathered' = [gathered EXCEPT ![p] = <<>>]
     \/ /\ ~ IsRoot(p) /\ Ready(p, "data")
        /\ block' = [block EXCEPT ![p] = Part(Value(p), p, new[p])]
        /\ Take(p)
        /\ UNCHANGED gathered
  /\ pc' = [pc EXCEPT ![p] = AfterScatter(p)]
  /\ UNCHANGED <<runtimeVars, commVars, main, primary, asked, it>>

\* Mutant: every process that stays finalizes the operation.
FinalizePsetopByAll(p) ==
  /\ pc[p] = "finop"
  /\ psets' = IF Included(p) THEN [psets EXCEPT ![main[p]].fin = @ + 1] ELSE psets
  /\ pc' = [pc EXCEPT ![p] = "leaveold"]
  /\ UNCHANGED <<dict, ack, req, log, commVars, main, primary, asked, it, idx, dataVars>>

\* The primary process of the new set finalizes the operation.
FinalizePsetop(p) ==
  /\ pc[p] = "finop"
  /\ psets' = IF primary[p] THEN [psets EXCEPT ![main[p]].fin = @ + 1] ELSE psets
  /\ pc' = [pc EXCEPT ![p] = "leaveold"]
  /\ UNCHANGED <<dict, ack, req, log, commVars, main, primary, asked, it, idx, dataVars>>

\* MPI_Comm_disconnect of DMR_COMM_OLD; leaving processes break out of the
\* loop, the others start the next step.
LeaveOld(e) ==
  /\ AllCall(e, "leaveold", old)
  /\ old' = [p \in Procs |-> IF p \in Members(e) THEN 0 ELSE old[p]]
  /\ Move(Members(e), [p \in Procs |-> IF Included(p) THEN "step" ELSE "cancel"])
  /\ it' = [p \in Procs |-> IF p \in Members(e) /\ Included(p) THEN it[p] + 1 ELSE it[p]]
  /\ UNCHANGED <<runtimeVars, log, comm, new, main, primary, asked, idx, dataVars>>

-----------------------------------------------------------------------------
(* DMR_FINALIZE. *)

\* An operation was executed on p's main set.
Executed(p) == Len(psets) > main[p]

\* Mutant: the spawned processes are not told that the task ends.
CancelSilently(p) ==
  /\ pc[p] = "cancel"
  /\ req' = (req /\ ~ primary[p])
  /\ psets' = IF primary[p] /\ Executed(p)
              THEN [psets EXCEPT ![main[p] + 1].fin = @ + 1] ELSE psets
  /\ pc' = [pc EXCEPT ![p] = "barrier"]
  /\ UNCHANGED <<dict, ack, log, commVars, main, primary, asked, it, idx, dataVars>>

\* The primary process cancels the operation it has requested.  If it was
\* executed already, the spawned processes are told, if there are any, the
\* operation is finalized, and an acknowledgement is waited for.
Cancel(p) ==
  /\ pc[p] = "cancel"
  /\ IF primary[p] /\ Executed(p)
     THEN LET e == main[p] + 1 IN
          /\ dict' = IF psets[e].added # {} THEN [dict EXCEPT ![e] = Finalized] ELSE dict
          /\ psets' = [psets EXCEPT ![e].fin = @ + 1]
          /\ pc' = [pc EXCEPT ![p] = "ackwait"]
          /\ UNCHANGED req
     ELSE /\ req' = (req /\ ~ primary[p])
          /\ pc' = [pc EXCEPT ![p] = "barrier"]
          /\ UNCHANGED <<psets, dict>>
  /\ UNCHANGED <<ack, log, commVars, main, primary, asked, it, idx, dataVars>>

AckWait(p) ==
  /\ pc[p] = "ackwait"
  /\ DeltaAdd(main[p] + 1) \in ack
  /\ pc' = [pc EXCEPT ![p] = "barrier"]
  /\ UNCHANGED <<runtimeVars, log, commVars, main, primary, asked, it, idx, dataVars>>

\* MPI_Session_pset_barrier on final_pset: the main set, and for those that
\* have left it the set of the processes removed with them.  Then
\* DMR_INTERCOMM is disconnected where there is one, and the session ends.
Finish(e) ==
  \E ps \in {Members(e), psets[e].removed} :
    /\ AllAt(ps, "barrier") /\ \A p \in ps : main[p] = e
    /\ Move(ps, [p \in Procs |-> "exit"])
    /\ comm' = [p \in Procs |-> IF p \in ps THEN 0 ELSE comm[p]]
    /\ UNCHANGED <<runtimeVars, log, old, new, main, primary, asked, it, idx, dataVars>>

-----------------------------------------------------------------------------

Step(p) ==
  \/ ItRecv(p) \/ ExpRecv(p) \/ Compute(p) \/ Publish(p) \/ ItCast(p) \/ Scatter(p)
  \/ FinalizePsetop(p) \/ Cancel(p) \/ AckWait(p)

Collective(e) ==
  /\ e \in 1 .. Len(psets)
  /\ \/ CreateComm(e) \/ Join(e) \/ Query(e) \/ Dup(e) \/ Lookup(e) \/ Disconnect(e)
     \/ \E l \in {"gatherE", "gatherS"} : Gather(e, l)
     \/ LeaveOld(e) \/ Finish(e)

Next == \/ Execute
        \/ \E p \in Procs : Step(p)
        \/ \E e \in 1 .. MaxPsets : Collective(e)

Spec == Init /\ [][Next]_vars

\* Every process runs until it blocks, and MPI and the runtime complete a
\* collective operation all processes have called.  The runtime may never
\* execute an operation.
Fairness == /\ \A p \in Procs : WF_vars(Step(p))
            /\ \A e \in 1 .. MaxPsets : WF_vars(Collective(e))

FairSpec == Spec /\ Fairness

-----------------------------------------------------------------------------
(* Properties. *)

Epochs == 1 .. Len(psets)

\* Every variable has its type.
TypeOK ==
  /\ psets \in Seq([members : Seq(Procs), added : SUBSET Procs, removed : SUBSET Procs,
                    fin : Nat])
  /\ dict \in [0 .. MaxPsets -> Epochs \cup {0, Finalized}]
  /\ ack \subseteq Epochs
  /\ req \in BOOLEAN
  /\ Len(log) <= Len(psets)
  /\ pc \in [Procs -> Locations]
  /\ comm \in [Procs -> 0 .. Len(log)]
  /\ old \in [Procs -> 0 .. Len(log)]
  /\ new \in [Procs -> 0 .. Len(log)]
  /\ main \in [Procs -> 0 .. Len(psets)]
  /\ primary \in [Procs -> BOOLEAN]
  /\ asked \in [Procs -> BOOLEAN]
  /\ it \in [Procs -> 0 .. Steps + 1]
  /\ idx \in [Procs -> Nat]
  /\ block \in [Procs -> Seq(0 .. Size)]
  /\ gathered \in [Procs -> Seq(0 .. Size)]

\* A process that waits in the query waits for no one in vain: every process
\* of its communicator is in the same step or still on its way from the last
\* reconfiguration, the spawned ones included (dmr.h:102-103, 173).
StepsAgree ==
  \A p, q \in Procs :
    (/\ pc[p] = "query" /\ comm[p] = comm[q]
     /\ pc[q] \in {"step", "query", "dup", "cancel", "ackwait", "barrier"})
      => it[p] = it[q] /\ pc[q] \in {"step", "query"}

\* An operation is finalized once, though its primary process may be another
\* one than that which requested it, only when all processes of the new set
\* have its name, and before the next one is executed (dmr.h:157, 197-201,
\* 279).
SetopsInOrder ==
  \A e \in Epochs \ {1} :
    /\ psets[e].fin <= 1
    /\ e < Len(psets) => psets[e].fin = 1
    /\ psets[e].fin = 1 /\ dict[DeltaAdd(e)] = e => \A p \in Members(e) : main[p] >= e

\* Data is only scattered by processes that have a new communicator: "Do data
\* reditribution with DMR_COMM_OLD and DMR_COMM_NEW defined" (dmr.h:176).
CommsAreDefined ==
  /\ \A p \in Procs : pc[p] \in {"scatterE", "scatterS"} => new[p] # 0 /\ new[p] = comm[p]
  /\ \A p \in Procs : pc[p] \in {"gatherE", "gatherS"} => old[p] # 0 /\ old[p] < main[p]

\* Growing and shrinking leaves the vector as it was: a process that computes
\* has its rank's share of the elements in their order.  This holds as long as
\* the process of rank 0 stays: gather leaves the data with the old rank 0,
\* and scatter takes it from the new one (sleep.c:69-82).
DataIsWhole ==
  \A p \in Procs :
    (pc[p] \in {"step", "query", "cancel"} /\ comm[p] # 0 /\ Root(comm[p]) = 1)
      => block[p] = Initial(p, comm[p])

\* The name a process finds is that of the newest main set, also when several
\* operations publish theirs under "" because they added nobody (dmr.h:144,
\* 150).
NamesAreFresh ==
  [][\A p \in Procs : main'[p] # main[p] => main'[p] = Len(psets)]_vars

\* The primary process of a task that ends has called for an acknowledgement
\* of an operation that added nobody (dmr.h:280).
WaitsForNobody ==
  \E p \in Procs : pc[p] = "ackwait" /\ psets[main[p] + 1].added = {}

\* Every process ends, whatever the runtime executes and whenever it does so,
\* except where the primary process waits for nobody.
EverybodyEnds == <>(WaitsForNobody \/ \A p \in Procs : pc[p] \in {"off", "exit"})

\* "We need to cancel our last pset operation. If it was already executed we
\* need to tell any new procs to terminate" (dmr.h:257): the primary process
\* of a task that ends comes out of this.
CancelReturns ==
  \A p \in Procs : pc[p] = "ackwait" ~> pc[p] # "ackwait"

Life == [p \in Procs |->
          IF pc[p] = "off" THEN "spare"
          ELSE IF pc[p] \in {"waiting", "init"} THEN "waiting"
          ELSE IF pc[p] # "exit" THEN "member"
          ELSE IF main[p] = 0 THEN "dismissed" ELSE "ended"]
Team == IF log = <<>> THEN {} ELSE Members(Len(log))

Task == INSTANCE Malleable WITH life <- Life, team <- Team

\* The macros keep the promise of a malleable task: all processes spawned by
\* an operation join at once with all who stay, or are dismissed when the
\* task ends; nobody who has ended is in a later team.
ImplementsMalleable == Task!Spec

=============================================================================
