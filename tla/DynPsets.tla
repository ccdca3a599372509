------------------------------ MODULE DynPsets ------------------------------
(***************************************************************************)
(* The dynamic process-set library (dyn_psets.c) under the loop it is      *)
(* written for (the main loop of sessions.c).  The processes of a task     *)
(* share a communicator made from the task's main process set.  Rank 0     *)
(* asks the runtime for a REPLACE set operation; when the runtime has      *)
(* executed it, rank 0 announces the new main set, leaving processes stop, *)
(* the others disconnect and build a new communicator together with the    *)
(* processes the runtime has spawned.                                      *)
(*                                                                         *)
(* The MPI runtime is external: it grants or refuses an operation, keeps a *)
(* dictionary per process set, and implements the collectives.             *)
(***************************************************************************)
EXTENDS Integers, Sequences, FiniteSets, SequencesExt

CONSTANTS
  Procs,     \* every process the machine can ever run: 1 .. n
  Uses,      \* the tasks and the ways to use the library, see Use
  MaxPsets   \* bound on the main sets a task may have, see Use

\* A task: processes 1 .. numOrig are launched; it asks to "expand" or to
\* "shrink" by step processes as long as it stays within limit, and its main
\* loop has iterations iterations.  It calls dyn_pset_adapt_nb (nonBlocking)
\* or dyn_pset_adapt, and gives dyn_pset_init an info object (initInfo) or not.
\* Of its environment: the runtime refuses to create more than maxSets main sets
\* (a bound), and MPI_Comm_disconnect waits for the whole communicator (sync)
\* or not.
Use == [mode : {"expand", "shrink"}, numOrig : Procs, step : Nat \ {0}, limit : Nat,
        iterations : Nat, nonBlocking : BOOLEAN, initInfo : BOOLEAN,
        maxSets : 1 .. MaxPsets, sync : BOOLEAN]

ASSUME ProcsAssumption == IsFiniteSet(Procs) /\ Procs = 1 .. Cardinality(Procs)
ASSUME BoundAssumption == MaxPsets \in Nat \ {0}
ASSUME UsesAssumption == Uses \subseteq Use

\* Where a process is.  "init" and "create" are MPI_Comm_create_from_group in
\* dyn_pset_init and in handle_setop; "entry", "bottom" and "top" are the
\* three MPI_Barrier of the main loop; "flag", "names", "user" and "exprecv"
\* are MPI_Bcast; "spawned" and "ackwait" wait for a dictionary entry; "crash" is
\* the end of a process that has read through a null pointer.
Locations == {"off", "spawned", "init", "launch", "exprecv", "entry", "top", "adapt",
              "check", "flag", "names", "disconnect", "create", "user", "finop",
              "handled", "bottom", "finalize", "ackwait", "exit", "crash"}
Barriers == {"entry", "top", "bottom"}
Casts == {"flag", "names", "user", "exprecv"}

VARIABLES
  use,      \* the task, the same in all its processes
  psets,    \* psets[e]: the e-th main set, and what the runtime keeps with it
  log,      \* log[e]: what rank 0 has broadcast on the communicator of psets[e],
            \* which has been created
  pc,       \* pc[p]: where p is
  comm,     \* comm[p]: the set state->mpicomm was made from, 0 if none
  main,     \* main[p]: data->main_pset, 0 if not known yet
  rank,     \* rank[p]: data->rank
  pending,  \* pending[p]: data->setop_pending
  setop,    \* setop[p]: data->setop; "unset" before the first send_setop
  out,      \* out[p]: the set named by data->output_psets[2]
  idx,      \* idx[p]: broadcasts p has taken part in on comm[p]
  flagOf,   \* flagOf[p]: the local variable flag of dyn_pset_adapt
  iter      \* iter[p]: reconf_info.cur_iter

runtimeVars == <<psets, log>>
setopVars == <<setop, out>>
commVars == <<comm, rank, idx>>
vars == <<use, psets, log, pc, comm, main, rank, pending, setop, out, idx, flagOf,
          iter>>

Orig == 1 .. use.numOrig

\* A main set: its processes by rank, those the operation that made it added
\* and removed, the key "dyn_pset" of the added processes' own set, the
\* acknowledgement of a cancelation, and how often the operation was finalized.
NewPset(ms, add, sub) ==
  [members |-> ms, added |-> add, removed |-> sub,
   key |-> "none", ack |-> FALSE, fin |-> 0]

Members(e) == ToSet(psets[e].members)
Root(e) == Head(psets[e].members)
RankIn(p, e) == CHOOSE i \in 0 .. Len(psets[e].members) - 1 : psets[e].members[i + 1] = p

Init ==
  /\ use \in Uses
  /\ psets = << NewPset([i \in Orig |-> i], {}, {}) >>
  /\ log = <<>>
  /\ pc = [p \in Procs |-> IF p \in Orig THEN "init" ELSE "off"]
  /\ comm = [p \in Procs |-> 0]
  /\ main = [p \in Procs |-> IF p \in Orig THEN 1 ELSE 0]
  /\ rank = [p \in Procs |-> -1]
  /\ pending = [p \in Procs |-> FALSE]
  /\ setop = [p \in Procs |-> "unset"]
  /\ out = [p \in Procs |-> 0]
  /\ idx = [p \in Procs |-> 0]
  /\ flagOf = [p \in Procs |-> FALSE]
  /\ iter = [p \in Procs |-> 0]

-----------------------------------------------------------------------------
(* The set operation, as the runtime executes it for send_setop. *)

\* The sequences that list each member of S once, in the order of key.
Ordered(S, key) ==
  {s \in SetToSeqs(S) : \A i, j \in DOMAIN s : i < j => key[s[i]] < key[s[j]]}

\* get_psetop_info: what the info object asks the runtime to add and remove.
\* The runtime keeps at least one process, ranks those that stay first and in
\* their order, and spawns processes that were not used before.
Grants(p) ==
  LET old == psets[main[p]].members
      fresh == {q \in Procs : pc[q] = "off"}
      Stay(sub) == Ordered(ToSet(old) \ sub, [q \in ToSet(old) |-> RankIn(q, main[p])])
  IN IF use.mode = "expand"
     THEN UNION { {NewPset(old \o s, add, {}) : s \in Ordered(add, [q \in add |-> q])} :
                    add \in {a \in SUBSET fresh : Cardinality(a) = use.step} }
     ELSE UNION { {NewPset(s, {}, sub) : s \in Stay(sub)} :
                    sub \in {s \in SUBSET ToSet(old) : /\ Cardinality(s) = use.step
                                                      /\ s # ToSet(old)} }

\* send_setop: the runtime refuses (MPI_PSETOP_NULL), or creates the new set,
\* spawns the added processes, and rank 0 publishes their task on their set.
\* l is where the caller goes on.
SendSetop(p, l) ==
  \/ /\ setop' = [setop EXCEPT ![p] = "NULL"]
     /\ out' = [out EXCEPT ![p] = 0]
     /\ pc' = [pc EXCEPT ![p] = l]
     /\ UNCHANGED runtimeVars
  \/ /\ Len(psets) < use.maxSets
     /\ \E g \in Grants(p) :
          /\ psets' = Append(psets, g)
          /\ pc' = [q \in Procs |-> IF q = p THEN l
                                    ELSE IF q \in g.added THEN "spawned" ELSE pc[q]]
     /\ setop' = [setop EXCEPT ![p] = "REPLACE"]
     /\ out' = [out EXCEPT ![p] = Len(psets) + 1]
     /\ UNCHANGED log

\* A process other than rank 0 goes on to l without asking for anything.
NoSetop(p, l) ==
  /\ pc' = [pc EXCEPT ![p] = l]
  /\ UNCHANGED <<runtimeVars, setopVars>>

SendIfRoot(p, l) == IF rank[p] = 0 THEN SendSetop(p, l) ELSE NoSetop(p, l)

-----------------------------------------------------------------------------
(* MPI, as the library uses it. *)

\* Mutant: those who stay build a communicator of their own, as if the name they
\* look up were that of the set without the spawned processes.
CommCreateWithoutAdded(e) ==
  LET stay == Members(e) \ psets[e].added IN
  /\ stay # {} /\ \A p \in stay : pc[p] \in {"init", "create"} /\ main[p] = e
  /\ log' = Append(log, <<>>)
  /\ comm' = [p \in Procs |-> IF p \in stay THEN e ELSE comm[p]]
  /\ rank' = [p \in Procs |-> IF p \in stay THEN RankIn(p, e) ELSE rank[p]]
  /\ idx' = [p \in Procs |-> IF p \in stay THEN 0 ELSE idx[p]]
  /\ pc' = [p \in Procs |-> IF p \notin stay THEN pc[p]
                            ELSE IF pc[p] = "create" THEN "user" ELSE "launch"]
  /\ UNCHANGED <<psets, main, pending, setopVars, flagOf, iter>>

\* MPI_Comm_create_from_group: the members of set e build its communicator
\* together.  Each then knows its rank.
CommCreate(e) ==
  /\ \A p \in Members(e) : pc[p] \in {"init", "create"} /\ main[p] = e
  /\ log' = Append(log, <<>>)
  /\ comm' = [p \in Procs |-> IF p \in Members(e) THEN e ELSE comm[p]]
  /\ rank' = [p \in Procs |-> IF p \in Members(e) THEN RankIn(p, e) ELSE rank[p]]
  /\ idx' = [p \in Procs |-> IF p \in Members(e) THEN 0 ELSE idx[p]]
  /\ pc' = [p \in Procs |->
              IF p \notin Members(e) THEN pc[p]
              ELSE IF pc[p] = "create" THEN "user"
              ELSE IF p \in Orig THEN "launch" ELSE "exprecv"]
  /\ UNCHANGED <<psets, main, pending, setopVars, flagOf, iter>>

\* MPI_Bcast from rank 0, which does not wait for the others.
CastSend(p, kind, val) ==
  /\ comm[p] # 0 /\ rank[p] = 0
  /\ log' = [log EXCEPT ![comm[p]] = Append(@, [kind |-> kind, val |-> val])]
  /\ idx' = [idx EXCEPT ![p] = @ + 1]

\* MPI_Bcast on every other rank waits for the message of rank 0.
CastReady(p) == rank[p] # 0 /\ idx[p] < Len(log[comm[p]])
CastValue(p) == log[comm[p]][idx[p] + 1].val
CastTake(p) == idx' = [idx EXCEPT ![p] = @ + 1] /\ UNCHANGED log

\* check_limit: the task only asks for a change that stays within the limit.
CheckLimit(size) ==
  IF use.mode = "expand" THEN size + use.step <= use.limit
                         ELSE size - use.step >= use.limit

\* The three barriers of the main loop and what each process does next: the
\* loop's test, the work and check_limit, the increment.
AfterBarrier(p) ==
  CASE pc[p] = "entry"  -> IF iter[p] < use.iterations THEN "top" ELSE "finalize"
    [] pc[p] = "top"    -> IF CheckLimit(Len(psets[comm[p]].members))
                           THEN "adapt" ELSE "bottom"
    [] pc[p] = "bottom" -> IF iter[p] + 1 < use.iterations THEN "top" ELSE "finalize"

Barrier(e) ==
  /\ \A p \in Members(e) : comm[p] = e /\ pc[p] \in Barriers
  /\ pc' = [p \in Procs |-> IF p \in Members(e) THEN AfterBarrier(p) ELSE pc[p]]
  /\ iter' = [p \in Procs |-> IF p \in Members(e) /\ pc[p] = "bottom"
                              THEN iter[p] + 1 ELSE iter[p]]
  /\ UNCHANGED <<runtimeVars, commVars, main, pending, setopVars, flagOf>>

-----------------------------------------------------------------------------
(* dyn_pset_init. *)

\* Mutant: setop_pending is only set where the operation is sent.
LaunchPendingAtRoot(p) ==
  /\ pc[p] = "launch"
  /\ IF use.initInfo THEN SendIfRoot(p, "entry") ELSE NoSetop(p, "entry")
  /\ pending' = [pending EXCEPT ![p] = use.initInfo /\ rank[p] = 0]
  /\ UNCHANGED <<commVars, main, flagOf, iter>>

\* The end of dyn_pset_init in the processes launched with the task.
Launch(p) ==
  /\ pc[p] = "launch"
  /\ IF use.initInfo THEN SendIfRoot(p, "entry") ELSE NoSetop(p, "entry")
  /\ pending' = [pending EXCEPT ![p] = use.initInfo]
  /\ UNCHANGED <<commVars, main, flagOf, iter>>

\* The set a spawned process belongs to from its start.
Delta(p) == CHOOSE e \in 1 .. Len(psets) : p \in psets[e].added

\* primary = 1 is assigned when "mpi_primary" is not "True"; the runtime's
\* primary process of a spawned set is its first.
IsPrimary(p) == \E q \in psets[Delta(p)].added : q < p

\* dyn_pset_init returns NULL to a canceled process, and sessions.c passes that
\* to dyn_pset_set_info, which reads through it: the process dies there, and
\* never reaches dyn_pset_finalize.  The others go on.
UseNullState(p) == pc' = [pc EXCEPT ![p] = "crash"]

\* dyn_pset_data_new in a spawned process: wait for the name of the new main
\* set, or learn that the task is about to end, acknowledge and return no state.
Lookup(p) ==
  /\ pc[p] = "spawned"
  /\ LET e == Delta(p) IN
     \/ /\ psets[e].key = "main"
        /\ main' = [main EXCEPT ![p] = e]
        /\ pc' = [pc EXCEPT ![p] = "init"]
        /\ UNCHANGED psets
     \/ /\ psets[e].key = "canceled"
        /\ psets' = [psets EXCEPT ![e].ack = @ \/ IsPrimary(p)]
        /\ UseNullState(p)
        /\ UNCHANGED main
  /\ UNCHANGED <<log, commVars, pending, setopVars, flagOf, iter>>

\* Mutant: the iteration is counted twice.
ExpandRecvTwice(p) ==
  /\ pc[p] = "exprecv"
  /\ CastReady(p)
  /\ iter' = [iter EXCEPT ![p] = CastValue(p) + 2]
  /\ CastTake(p)
  /\ pending' = [pending EXCEPT ![p] = TRUE]
  /\ pc' = [pc EXCEPT ![p] = "entry"]
  /\ UNCHANGED <<psets, comm, rank, main, setopVars, flagOf>>

\* Mutant: the spawned process does not assume a pending operation.
ExpandRecvNotPending(p) ==
  /\ pc[p] = "exprecv"
  /\ CastReady(p)
  /\ iter' = [iter EXCEPT ![p] = CastValue(p) + 1]
  /\ CastTake(p)
  /\ pc' = [pc EXCEPT ![p] = "entry"]
  /\ UNCHANGED <<psets, comm, rank, main, pending, setopVars, flagOf>>

\* expand_recv and the end of dyn_pset_init in a spawned process: it starts
\* with the iteration after the one rank 0 is in.
ExpandRecv(p) ==
  /\ pc[p] = "exprecv"
  /\ CastReady(p)
  /\ iter' = [iter EXCEPT ![p] = CastValue(p) + 1]
  /\ CastTake(p)
  /\ pending' = [pending EXCEPT ![p] = TRUE]
  /\ pc' = [pc EXCEPT ![p] = "entry"]
  /\ UNCHANGED <<psets, comm, rank, main, setopVars, flagOf>>

-----------------------------------------------------------------------------
(* dyn_pset_adapt, dyn_pset_adapt_nb, check_setop, handle_setop. *)

\* dyn_pset_adapt sends an operation unless one is pending, then checks it.
AdaptBlocking(p) ==
  /\ pc[p] = "adapt"
  /\ ~ use.nonBlocking
  /\ IF pending[p] THEN NoSetop(p, "check") ELSE SendIfRoot(p, "check")
  /\ pending' = [pending EXCEPT ![p] = TRUE]
  /\ UNCHANGED <<commVars, main, flagOf, iter>>

\* dyn_pset_adapt_nb checks the pending operation first, if there is one.
AdaptNonBlocking(p) ==
  /\ pc[p] = "adapt"
  /\ use.nonBlocking
  /\ NoSetop(p, IF pending[p] THEN "check" ELSE "handled")
  /\ UNCHANGED <<commVars, main, pending, flagOf, iter>>

\* check_setop on rank 0: data->request is always null, so MPI_Wait and
\* MPI_Test return at once.  A granted operation gives the new names, and the
\* spawned processes are told their main set; a refused one is sent again.
CheckSetop(p) ==
  /\ pc[p] = "check" /\ rank[p] = 0
  /\ IF setop[p] = "REPLACE"
     THEN /\ main' = [main EXCEPT ![p] = out[p]]
          /\ psets' = [psets EXCEPT ![out[p]].key = "main"]
          /\ pc' = [pc EXCEPT ![p] = "flag"]
          /\ UNCHANGED <<log, setopVars>>
     ELSE SendSetop(p, "flag") /\ UNCHANGED main
  /\ flagOf' = [flagOf EXCEPT ![p] = setop[p] = "REPLACE"]
  /\ UNCHANGED <<commVars, pending, iter>>

\* Every other rank goes to the broadcast.
SkipCheck(p) ==
  /\ pc[p] = "check" /\ rank[p] # 0
  /\ NoSetop(p, "flag")
  /\ UNCHANGED <<commVars, main, pending, flagOf, iter>>

\* The broadcast of flag; without it the call returns with the operation
\* still pending.
AfterFlag(p, f) == pc' = [pc EXCEPT ![p] = IF f THEN "names" ELSE "bottom"]

CastFlag(p) ==
  /\ pc[p] = "flag"
  /\ \/ CastSend(p, "flag", flagOf[p]) /\ AfterFlag(p, flagOf[p])
     \/ CastReady(p) /\ AfterFlag(p, CastValue(p)) /\ CastTake(p)
  /\ UNCHANGED <<psets, comm, rank, main, pending, setopVars, flagOf, iter>>

\* Mutant: the test of "mpi_included" is missing.
AfterNamesUnchecked(p, e) ==
  /\ pc' = [pc EXCEPT ![p] = "disconnect"]
  /\ UNCHANGED rank

\* The three broadcasts of handle_setop: delta_add, delta_sub and main_pset,
\* which together identify the new set e.  A process that is not included in
\* it leaves, still connected to the old communicator.
AfterNames(p, e) ==
  IF psets[e].removed # {} /\ p \notin Members(e)
  THEN /\ pc' = [pc EXCEPT ![p] = "finalize"]
       /\ rank' = [rank EXCEPT ![p] = -1]
  ELSE /\ pc' = [pc EXCEPT ![p] = "disconnect"]
       /\ UNCHANGED rank

\* Mutant: data->setop_pending = false is missing.
CastNamesStillPending(p) ==
  /\ pc[p] = "names"
  /\ \/ /\ CastSend(p, "names", main[p])
        /\ AfterNames(p, main[p])
        /\ UNCHANGED main
     \/ /\ CastReady(p)
        /\ AfterNames(p, CastValue(p))
        /\ main' = [main EXCEPT ![p] = CastValue(p)]
        /\ CastTake(p)
  /\ UNCHANGED <<psets, comm, pending, setopVars, flagOf, iter>>

CastNames(p) ==
  /\ pc[p] = "names"
  /\ \/ /\ CastSend(p, "names", main[p])
        /\ AfterNames(p, main[p])
        /\ UNCHANGED main
     \/ /\ CastReady(p)
        /\ AfterNames(p, CastValue(p))
        /\ main' = [main EXCEPT ![p] = CastValue(p)]
        /\ CastTake(p)
  /\ pending' = [pending EXCEPT ![p] = FALSE]
  /\ UNCHANGED <<psets, comm, setopVars, flagOf, iter>>

\* MPI_Comm_disconnect, waiting for the whole communicator or not.
Disconnect(p) ==
  /\ pc[p] = "disconnect"
  /\ use.sync => \A q \in Members(comm[p]) : \/ pc[q] = "disconnect"
                                                   \/ comm[q] # comm[p]
  /\ comm' = [comm EXCEPT ![p] = 0]
  /\ pc' = [pc EXCEPT ![p] = "create"]
  /\ UNCHANGED <<runtimeVars, rank, idx, main, pending, setopVars, flagOf, iter>>

\* expand_send, if processes were added: rank 0 broadcasts reconf_info on the
\* new communicator, the processes that stayed receive it.
ExpandSend(p) ==
  /\ pc[p] = "user"
  /\ \/ /\ psets[main[p]].added # {}
        /\ \/ CastSend(p, "user", iter[p]) /\ UNCHANGED iter
           \/ /\ CastReady(p)
              /\ iter' = [iter EXCEPT ![p] = CastValue(p)]
              /\ CastTake(p)
     \/ psets[main[p]].added = {} /\ UNCHANGED <<log, idx, iter>>
  /\ pc' = [pc EXCEPT ![p] = "finop"]
  /\ UNCHANGED <<psets, comm, rank, main, pending, setopVars, flagOf>>

\* Mutant: every rank finalizes the set operation.
FinalizeSetopEverywhere(p) ==
  /\ pc[p] = "finop"
  /\ psets' = [psets EXCEPT ![main[p]].fin = @ + 1]
  /\ pc' = [pc EXCEPT ![p] = IF use.nonBlocking THEN "handled" ELSE "bottom"]
  /\ UNCHANGED <<log, commVars, main, pending, setopVars, flagOf, iter>>

\* Rank 0 of the new communicator finalizes the set operation.
FinalizeSetop(p) ==
  /\ pc[p] = "finop"
  /\ psets' = IF rank[p] = 0 THEN [psets EXCEPT ![main[p]].fin = @ + 1] ELSE psets
  /\ pc' = [pc EXCEPT ![p] = IF use.nonBlocking THEN "handled" ELSE "bottom"]
  /\ UNCHANGED <<log, commVars, main, pending, setopVars, flagOf, iter>>

\* The end of dyn_pset_adapt_nb: unless an operation is still pending, the
\* next one is sent at once.
AdaptNext(p) ==
  /\ pc[p] = "handled"
  /\ IF pending[p] THEN NoSetop(p, "bottom") ELSE SendIfRoot(p, "bottom")
  /\ pending' = [pending EXCEPT ![p] = TRUE]
  /\ UNCHANGED <<commVars, main, flagOf, iter>>

-----------------------------------------------------------------------------
(* dyn_pset_finalize. *)

\* Mutant: the processes already spawned are not told.
FinalizeSilently(p) ==
  /\ pc[p] = "finalize"
  /\ psets' = IF pending[p] /\ rank[p] = 0 /\ setop[p] = "REPLACE"
              THEN [psets EXCEPT ![out[p]].fin = @ + 1] ELSE psets
  /\ pc' = [pc EXCEPT ![p] = "exit"]
  /\ UNCHANGED <<log, commVars, main, pending, setopVars, flagOf, iter>>

\* Rank 0 cancels a pending operation.  If the runtime has executed it
\* already, the spawned processes are told, and their answer is waited for.
Finalize(p) ==
  /\ pc[p] = "finalize"
  /\ IF pending[p] /\ rank[p] = 0 /\ setop[p] = "REPLACE"
     THEN IF psets[out[p]].added # {}
          THEN /\ psets' = [psets EXCEPT ![out[p]].key = "canceled"]
               /\ pc' = [pc EXCEPT ![p] = "ackwait"]
          ELSE /\ psets' = [psets EXCEPT ![out[p]].fin = @ + 1]
               /\ pc' = [pc EXCEPT ![p] = "exit"]
     ELSE pc' = [pc EXCEPT ![p] = "exit"] /\ UNCHANGED psets
  /\ UNCHANGED <<log, commVars, main, pending, setopVars, flagOf, iter>>

AckWait(p) ==
  /\ pc[p] = "ackwait"
  /\ psets[out[p]].ack
  /\ psets' = [psets EXCEPT ![out[p]].fin = @ + 1]
  /\ pc' = [pc EXCEPT ![p] = "exit"]
  /\ UNCHANGED <<log, commVars, main, pending, setopVars, flagOf, iter>>

-----------------------------------------------------------------------------

Step(p) ==
  /\ \/ Launch(p) \/ Lookup(p) \/ ExpandRecv(p)
     \/ AdaptBlocking(p) \/ AdaptNonBlocking(p) \/ CheckSetop(p) \/ SkipCheck(p)
     \/ CastFlag(p) \/ CastNames(p) \/ Disconnect(p) \/ ExpandSend(p)
     \/ FinalizeSetop(p) \/ AdaptNext(p) \/ Finalize(p) \/ AckWait(p)
  /\ UNCHANGED use

Collective(e) ==
  /\ e \in 1 .. Len(psets)
  /\ CommCreate(e) \/ Barrier(e)
  /\ UNCHANGED use

Next == \/ \E p \in Procs : Step(p)
        \/ \E e \in 1 .. MaxPsets : Collective(e)

Spec == Init /\ [][Next]_vars

\* Every process runs until it blocks, and MPI completes a collective
\* operation that all the members of the communicator have entered.
Fairness == /\ \A p \in Procs : WF_vars(Step(p))
            /\ \A e \in 1 .. MaxPsets : WF_vars(Collective(e))

FairSpec == Spec /\ Fairness

-----------------------------------------------------------------------------
(* Properties. *)

Epochs == 1 .. Len(psets)

\* Every variable has its type.
TypeOK ==
  /\ use \in Uses
  /\ psets \in Seq([members : Seq(Procs), added : SUBSET Procs,
                    removed : SUBSET Procs, key : {"none", "main", "canceled"},
                    ack : BOOLEAN, fin : Nat])
  /\ Len(log) <= Len(psets)
  /\ pc \in [Procs -> Locations]
  /\ comm \in [Procs -> 0 .. Len(psets)]
  /\ main \in [Procs -> 0 .. Len(psets)]
  /\ rank \in [Procs -> Int]
  /\ pending \in [Procs -> BOOLEAN]
  /\ setop \in [Procs -> {"unset", "NULL", "REPLACE"}]
  /\ out \in [Procs -> 0 .. Len(psets)]
  /\ idx \in [Procs -> Nat]
  /\ flagOf \in [Procs -> BOOLEAN]
  /\ iter \in [Procs -> 0 .. use.iterations]

\* The broadcast a process at location l takes part in.
CastKind(l) == IF l = "exprecv" THEN "user" ELSE l

\* The processes of a communicator call the same collective operations in the
\* same order: a process that waits in a broadcast gets the message of that
\* very call of rank 0, one in a barrier has received every message, and rank
\* 0 does not wait in a barrier for a process that waits for a broadcast of
\* it.  setop_pending, kept by each process for itself, decides who calls
\* MPI_Bcast (dyn_pset_adapt, dyn_pset_adapt_nb, dyn_pset_init).
CollectivesMatch ==
  \A p \in Procs :
    (comm[p] # 0 /\ rank[p] > 0) =>
      LET said == Len(log[comm[p]])
          r == Root(comm[p])
      IN /\ pc[p] \in Casts /\ idx[p] < said
              => log[comm[p]][idx[p] + 1].kind = CastKind(pc[p])
         /\ pc[p] \in Casts \ {"user"} /\ pc[r] \in Barriers /\ comm[r] = comm[p]
              => idx[p] < said
         /\ pc[p] \in Barriers => idx[p] = said

\* No process takes part in creating a communicator from a set it is not in
\* (MPI_Comm_create_from_group would never return in the others).
NoStrangerCreates ==
  \A p \in Procs :
    pc[p] \in {"init", "disconnect", "create"} => p \in Members(main[p])

\* The runtime never sees two operations at once, or one finalized twice; an
\* operation is only finalized when all processes of the new set know of it
\* (send_setop, handle_setop: "Rank 0 of new comm finalizes").
SetopsInOrder ==
  \A e \in Epochs \ {1} :
    /\ psets[e].fin <= 1
    /\ e < Len(psets) => psets[e].fin = 1
    /\ psets[e].fin = 1 /\ psets[e].key = "main"
         => \A p \in Members(e) : main[p] >= e

\* All processes that work together are in the same iteration, those spawned
\* meanwhile included, so they leave the main loop together (expand_send,
\* expand_recv and the loop of sessions.c).
IterationsAgree ==
  \A p, q \in Procs :
    (/\ comm[p] # 0 /\ comm[p] = comm[q] /\ rank[q] # -1
     /\ pc[p] = "top" /\ pc[q] \in {"top", "finalize", "exit"})
      => pc[q] = "top" /\ iter[p] = iter[q]

\* What a spawned set is told stays: processes that were given their main set
\* are not told that the task is canceled, nor the reverse.
KeyIsFinal ==
  [][\A e \in Epochs : psets[e].key # "none" => psets'[e].key = psets[e].key]_vars

\* No process waits for ever: no spawned process for a name that never comes,
\* none in a collective operation the others do not enter, and rank 0 not for
\* the acknowledgement of those it has canceled.  Every process of the task
\* reaches the end of dyn_pset_finalize, but for those spawned by a canceled
\* operation: they have been told so and crash (sessions.c:514).
NobodyWaitsForever ==
  <>(\A p \in Procs : \/ pc[p] \in {"off", "exit"}
                      \/ pc[p] = "crash" /\ psets[Delta(p)].key = "canceled")

\* "Wait for acknowledgement of spawned processes" (dyn_psets.c:531): rank 0
\* gets an answer from the processes it has canceled.
AckArrives ==
  \A p \in Procs : pc[p] = "ackwait" ~> (out[p] # 0 /\ psets[out[p]].ack)

\* "Rank 0 of new comm finalizes the set operation" (dyn_psets.c:295): every
\* operation whose new set was announced is finalized.
AnnouncedIsFinalized ==
  \A e \in 1 .. MaxPsets :
    (e \in Epochs /\ psets[e].key = "main") ~> (e \in Epochs /\ psets[e].fin = 1)

Life == [p \in Procs |->
          IF pc[p] = "off" THEN "spare"
          ELSE IF pc[p] \in {"spawned", "init"} THEN "waiting"
          ELSE IF pc[p] = "crash" THEN "dismissed"
          ELSE IF pc[p] = "exit" THEN "ended" ELSE "member"]
Team == IF log = <<>> THEN {} ELSE Members(Len(log))

Task == INSTANCE Malleable WITH life <- Life, team <- Team

\* The library keeps the promise of a malleable task: the processes of a
\* spawned set join all at once, with all who stay, or are dismissed because
\* the task ends; nobody who has ended is in a later team.
ImplementsMalleable == Task!Spec

=============================================================================
