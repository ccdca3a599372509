-------------------------------- MODULE Grow --------------------------------
(***************************************************************************)
(* grow.c, "Example of adding MPI processes": a task that grows once, by   *)
(* the same runtime as DMR, whose state and MPI operations it uses.  Rank  *)
(* 0 requests a GROW operation, which the runtime executes before it       *)
(* returns, and publishes the name of the new main set; all query the      *)
(* operation, look the name up and build the new communicator with the     *)
(* processes added.                                                        *)
(***************************************************************************)
EXTENDS DMR

CONSTANT NumAdd   \* nprocs of grow.c

ASSUME NumAddAssumption == NumAdd \in Nat \ {0}

keptVars == <<ack, req, old, new, asked, it, dataVars>>

\* A spawned process looks up the name of the main set.
GrowJoin(e) ==
  /\ AllAt(psets[e].added, "waiting")
  /\ dict[e] # 0
  /\ main' = [p \in Procs |-> IF p \in psets[e].added THEN dict[e] ELSE main[p]]
  /\ Move(psets[e].added, [p \in Procs |-> "init"])
  /\ UNCHANGED <<psets, dict, log, comm, idx, primary, keptVars>>

\* The first communicator of each process, and the second of those launched
\* with the task.
GrowCreateComm(e) ==
  /\ CreateFromGroup(e, [p \in Procs |-> IF pc[p] = "recreate" THEN "finop"
                                         ELSE IF p \in Orig THEN "request" ELSE "leave"])
  /\ UNCHANGED <<psets, dict, main, primary, keptVars>>

\* Rank 0 requests the operation and publishes the name of the new main set.
Request(p) ==
  /\ pc[p] = "request"
  /\ IF IsRoot(p)
     THEN LET add == Unused(NumAdd)
              ms == psets[main[p]].members
          IN /\ Cardinality(add) = NumAdd
             /\ psets' = Append(psets, NewPset(ms \o SetToSortSeq(add, <), add, {}))
             /\ dict' = [dict EXCEPT ![main[p] + 1] = main[p] + 1]
             /\ pc' = [q \in Procs |-> IF q = p THEN "ask"
                                       ELSE IF q \in add THEN "waiting" ELSE pc[q]]
     ELSE pc' = [pc EXCEPT ![p] = "ask"] /\ UNCHANGED <<psets, dict>>
  /\ UNCHANGED <<log, comm, idx, main, primary, keptVars>>

\* The query; rank 0 has requested the operation when all have called it.
GrowQuery(e) ==
  /\ AllCall(e, "ask", comm)
  /\ e < Len(psets)
  /\ Move(Members(e), [p \in Procs |-> "lookup"])
  /\ UNCHANGED <<psets, dict, log, comm, idx, main, primary, keptVars>>

GrowLookup(e) ==
  /\ AllCall(e, "lookup", comm)
  /\ dict[DeltaAdd(e + 1)] # 0
  /\ main' = [p \in Procs |-> IF p \in Members(e) THEN dict[DeltaAdd(e + 1)] ELSE main[p]]
  /\ Move(Members(e), [p \in Procs |-> "disconnect"])
  /\ UNCHANGED <<psets, dict, log, comm, idx, primary, keptVars>>

GrowDisconnect(e) ==
  /\ AllCall(e, "disconnect", comm)
  /\ comm' = [p \in Procs |-> IF p \in Members(e) THEN 0 ELSE comm[p]]
  /\ Move(Members(e), [p \in Procs |-> "recreate"])
  /\ UNCHANGED <<psets, dict, log, idx, main, primary, keptVars>>

\* The process that had rank 0 before indicates completion of the operation.
GrowFinalizePsetop(p) ==
  /\ pc[p] = "finop"
  /\ psets' = IF p = Root(main[p] - 1) THEN [psets EXCEPT ![main[p]].fin = @ + 1] ELSE psets
  /\ pc' = [pc EXCEPT ![p] = "leave"]
  /\ UNCHANGED <<dict, log, comm, idx, main, primary, keptVars>>

\* All disconnect and end.
Leave(e) ==
  /\ AllCall(e, "leave", comm)
  /\ comm' = [p \in Procs |-> IF p \in Members(e) THEN 0 ELSE comm[p]]
  /\ Move(Members(e), [p \in Procs |-> "exit"])
  /\ UNCHANGED <<psets, dict, log, idx, main, primary, keptVars>>

GrowStep(p) == Request(p) \/ GrowFinalizePsetop(p)

GrowCollective(e) ==
  /\ e \in 1 .. Len(psets)
  /\ \/ GrowJoin(e) \/ GrowCreateComm(e) \/ GrowQuery(e) \/ GrowLookup(e)
     \/ GrowDisconnect(e) \/ Leave(e)

=============================================================================
