----------------------- MODULE DynPsetsSafety_proofs -----------------------
(***************************************************************************)
(* The invariant of DynPsets_proofs is inductive, and what follows from    *)
(* it: the properties DynPsetsTask checks with TLC hold for any number of  *)
(* processes, any tasks and any bound on the main sets.                    *)
(***************************************************************************)
EXTENDS DynPsetsLead_proofs

\* Steps of single processes keep the invariant.
LEMMA StepKeeps ==
  ASSUME IInv, NEW p \in Procs, Step(p)
  PROVE  IInv'
<1>1. CASE comm[p] = 0
  BY <1>1, SpawnedSteps, SpawnedKeeps
<1>2. CASE comm[p] # 0
  <2> DEFINE e == comm[p]
  <2>1. /\ e \in 1 .. Newest /\ e > 0
        /\ ~ Left(e) => e = Newest
    <3>1. e \in 1 .. Newest /\ (~ Left(e) => e = Newest)
      BY <1>2, Who
    <3> QED
      BY <3>1, Types
  <2>2. CASE Left(e)
    BY <2>1, <2>2, LeaverSteps, LeaverKeeps
  <2>3. CASE ~ Left(e) /\ p # Lead
    BY <2>1, <2>3, FollowerSteps, FollowerKeeps
  <2>4. CASE ~ Left(e) /\ p = Lead /\ pc[p] # "names"
    BY <2>1, <2>4, LeaderSteps, LeaderKeeps
  <2>5. CASE ~ Left(e) /\ p = Lead /\ pc[p] = "names"
    <3>1. CastNames(p) /\ use' = use
      BY <2>5 DEF Step, Launch, Lookup, ExpandRecv, AdaptBlocking, AdaptNonBlocking, CheckSetop,
        SkipCheck, CastFlag, CastNames, Disconnect, ExpandSend, FinalizeSetop, AdaptNext,
        Finalize, AckWait
    <3> QED
      BY <2>1, <2>5, <3>1, AnnounceKeeps
  <2> QED
    BY <2>2, <2>3, <2>4, <2>5
<1> QED
  BY <1>1, <1>2

-----------------------------------------------------------------------------
(* The members of a communicator leave a barrier. *)

\* All are in the same barrier, except that those spawned come to their first
\* one when the others end an iteration; afterwards all are in the same place.
LEMMA BarrierIsCommon ==
  ASSUME IInv, NEW e \in Epochs, \A p \in Members(e) : comm[p] = e /\ pc[p] \in Barriers,
         NEW r, r = Root(e), NEW q \in Members(e)
  PROVE  /\ e = Newest /\ ~ Left(e)
         /\ AfterBarrier(q) = AfterBarrier(r)
         /\ AfterBarrier(r) \in {"top", "adapt", "bottom", "finalize"}
         /\ AfterBarrier(r) # "finalize" =>
              (IF pc[r] = "bottom" THEN iter[r] + 1 ELSE iter[r]) < use.iterations
         /\ (IF pc[q] = "bottom" THEN iter[q] + 1 ELSE iter[q])
              = IF pc[r] = "bottom" THEN iter[r] + 1 ELSE iter[r]
         /\ (IF pc[q] = "bottom" THEN iter[q] + 1 ELSE iter[q]) \in 0 .. use.iterations
         /\ idx[q] = Len(log[e])
<1>1. r \in Members(e) /\ Members(e) \subseteq Procs /\ e \in Nat /\ e > 0
  BY Ranks, Types DEF IInv, Epochs
<1>2. ~ Left(e) /\ e = Newest /\ r = Lead
  <2>1. ~ Left(e)
    <3>1. comm[r] = e /\ pc[r] \in Barriers /\ r \in Procs
      BY <1>1
    <3>2. ~ Leaves(r, e)
      BY <3>1 DEF Leaves, Ahead, Barriers
    <3> QED
      BY <1>1, <3>1, <3>2, Who
  <2>2. e = Newest
    BY <1>1, <2>1, Who
  <2> QED
    BY <2>1, <2>2 DEF Lead
<1>3. Leads(r, e) /\ pc[r] \in Barriers /\ pc[q] \in Barriers /\ comm[q] = e /\ comm[r] = e
      /\ (q # r => Follows(q, r, e)) /\ Agrees(q, r, e)
  BY <1>1, <1>2 DEF IInv, LeadInv, TeamInv
<1>4. /\ iter[q] \in Nat /\ iter[r] \in Nat /\ use.iterations \in Nat
      /\ iter[q] \in 0 .. use.iterations
  BY <1>1, Types DEF Use, IInv, TypeOK
<1>5. \/ pc[r] = "entry" /\ pc[q] = "entry" /\ iter[q] = iter[r] /\ e = 1
      \/ pc[r] = "top" /\ pc[q] = "top" /\ iter[q] = iter[r]
      \/ pc[r] = "bottom" /\ pc[q] = "bottom" /\ iter[q] = iter[r]
      \/ pc[r] = "bottom" /\ pc[q] = "entry" /\ iter[q] = iter[r] + 1
  <2>1. CASE q = r
    BY <1>3, <2>1 DEF Leads, Barriers
  <2>2. CASE q # r
    BY <1>1, <1>3, <2>2 DEF Leads, Follows, Near, InStep, Barriers, Loop, Ending, Idle
  <2> QED
    BY <2>1, <2>2
<1>6. iter[r] \in Nat /\ (pc[r] \in {"top", "bottom"} => iter[r] < use.iterations)
  BY <1>3, <1>4 DEF Leads, Ending
<1>7. idx[q] = Len(log[e])
  <2>1. CASE q = r
    BY <1>3, <2>1 DEF Leads
  <2>2. CASE q # r
    BY <1>3, <2>2 DEF Follows, Heard, Barriers, Ahead, Ending
  <2> QED
    BY <2>1, <2>2
<1>8. AfterBarrier(q) = AfterBarrier(r)
      /\ AfterBarrier(r) \in {"top", "adapt", "bottom", "finalize"}
      /\ (AfterBarrier(r) # "finalize" =>
            (IF pc[r] = "bottom" THEN iter[r] + 1 ELSE iter[r]) < use.iterations)
  BY <1>3, <1>5, <1>6 DEF AfterBarrier
<1>9. /\ (IF pc[q] = "bottom" THEN iter[q] + 1 ELSE iter[q])
           = IF pc[r] = "bottom" THEN iter[r] + 1 ELSE iter[r]
      /\ (IF pc[q] = "bottom" THEN iter[q] + 1 ELSE iter[q]) \in 0 .. use.iterations
  BY <1>4, <1>5, <1>6
<1> QED
  BY <1>2, <1>7, <1>8, <1>9

\* The barrier moves all members of a communicator into the same call.
LEMMA BarrierKeeps ==
  ASSUME IInv, NEW e \in Epochs, Barrier(e), use' = use
  PROVE  IInv'
<1>0. PICK r : r = Root(e)
  OBVIOUS
<1>1. /\ \A p \in Members(e) : comm[p] = e /\ pc[p] \in Barriers
      /\ pc' = [p \in Procs |-> IF p \in Members(e) THEN AfterBarrier(p) ELSE pc[p]]
      /\ iter' = [p \in Procs |-> IF p \in Members(e) /\ pc[p] = "bottom"
                                  THEN iter[p] + 1 ELSE iter[p]]
      /\ UNCHANGED <<use, psets, log, comm, rank, idx, main, pending, setop, out, flagOf>>
  BY DEF Barrier, runtimeVars, commVars, setopVars
<1>2. r \in Members(e) /\ Members(e) \subseteq Procs /\ e \in Nat /\ e > 0
  BY <1>0, Ranks, Types DEF IInv, Epochs
<1>3. e = Newest /\ ~ Left(e) /\ r = Lead
  BY <1>0, <1>1, <1>2, BarrierIsCommon DEF Lead
<1> DEFINE l == AfterBarrier(r)
           i == IF pc[r] = "bottom" THEN iter[r] + 1 ELSE iter[r]
<1>4. /\ l \in {"top", "adapt", "bottom", "finalize"} /\ (l # "finalize" => i < use.iterations)
      /\ i \in 0 .. use.iterations
  BY <1>0, <1>1, <1>2, BarrierIsCommon
<1>5. ASSUME NEW q \in Members(e)
      PROVE  /\ pc'[q] = l /\ iter'[q] = i /\ idx[q] = Len(log[e])
             /\ q \in Procs /\ comm[q] = e /\ pc[q] \in Barriers
  <2>1. AfterBarrier(q) = l /\ (IF pc[q] = "bottom" THEN iter[q] + 1 ELSE iter[q]) = i
        /\ idx[q] = Len(log[e])
    BY <1>0, <1>1, BarrierIsCommon
  <2>2. pc'[q] = AfterBarrier(q) /\ iter'[q] = IF pc[q] = "bottom" THEN iter[q] + 1 ELSE iter[q]
    BY <1>1, <1>2
  <2> QED
    BY <1>1, <1>2, <2>1, <2>2
<1>6. pc'[r] = l /\ iter'[r] = i /\ pc[r] \in Barriers
  BY <1>2, <1>5
<1> HIDE DEF l, i
<1>7. ASSUME NEW q \in Procs, q \notin Members(e) PROVE SameAt(q)
  BY <1>1, <1>7 DEF SameAt
<1>8. /\ SetsInv' /\ Newest' = Newest /\ Lead' = r /\ Epochs' = Epochs
      /\ \A f : Members(f)' = Members(f) /\ Root(f)' = Root(f) /\ Left(f)' = Left(f)
  BY <1>1, <1>3, SameWorld DEF IInv
<1>9. TypeOK'
  <2>1. pc' \in [Procs -> Locations] /\ iter' \in [Procs -> 0 .. use.iterations]
    <3>1. ASSUME NEW q \in Procs PROVE pc'[q] \in Locations /\ iter'[q] \in 0 .. use.iterations
      <4>1. CASE q \in Members(e)
        BY <1>4, <1>5, <4>1 DEF Locations
      <4>2. CASE q \notin Members(e)
        BY <1>7, <4>2, Types DEF SameAt, IInv, TypeOK
      <4> QED
        BY <4>1, <4>2
    <3>2. pc' = [p \in Procs |-> pc'[p]] /\ iter' = [p \in Procs |-> iter'[p]]
      BY <1>1
    <3> QED
      BY <3>1, <3>2
  <2> QED
    BY <1>1, <2>1 DEF IInv, TypeOK
<1>10. PlaceInv'
  <2>1. ASSUME NEW q \in Procs PROVE PlaceOf(q)'
    <3>1. PlaceOf(q)
      BY DEF IInv, PlaceInv
    <3>2. CASE q \in Members(e)
      <4>1. pc'[q] \notin Outside /\ comm'[q] = e /\ main'[q] = main[q] /\ e # 0
            /\ pc[q] \notin {"spawned", "init", "exit"} /\ comm[q] = e
        <5>1. pc'[q] = l /\ pc[q] \in Barriers /\ comm[q] = e
          BY <1>5, <3>2
        <5> QED
          BY <1>1, <1>2, <1>4, <5>1 DEF Outside, Barriers
      <4> QED
        BY <1>1, <1>8, <3>1, <4>1 DEF PlaceOf, Dismissed, Outside
    <3>3. CASE q \notin Members(e)
      <4>1. Kept /\ (Left(Newest) => Left(Newest)')
        BY <1>1, <1>8 DEF Kept, Left
      <4>2. SameAt(q) /\ psets'[Len(psets)].key = psets[Len(psets)].key
        BY <1>1, <1>7, <3>3
      <4> QED
        BY <3>1, <4>1, <4>2, SamePlace
    <3> QED
      BY <3>2, <3>3
  <2> QED
    BY <2>1 DEF PlaceInv
<1>11. MemberInv'
  <2>1. ASSUME NEW q \in Procs PROVE MemberOf(q)'
    <3>1. MemberOf(q)
      BY DEF IInv, MemberInv
    <3>2. q \in Members(e) => comm[q] = Newest
      BY <1>3, <1>5
    <3> QED
      BY <1>1, <1>2, <1>3, <1>8, <3>1, <3>2 DEF MemberOf
  <2> QED
    BY <2>1 DEF MemberInv
<1>12. LeftInv'
  <2>1. ASSUME NEW f \in 1 .. Newest, Left(f), NEW q \in Procs, comm'[q] = f
        PROVE  Leaves(q, f)'
    <3>1. comm[q] = f /\ f # e
      BY <1>1, <1>3, <2>1
    <3>2. SameAt(q) /\ Leaves(q, f)
      <4>1. q \notin Members(e)
        BY <1>5, <3>1
      <4> QED
        BY <1>7, <2>1, <3>1, <4>1 DEF IInv, LeftInv
    <3> QED
      BY <1>1, <1>8, <2>1, <3>2, SameLeaver
  <2> QED
    BY <1>1, <1>3, <1>8, <2>1 DEF IInv, LeftInv
<1>13. Leads(r, e) /\ Asks(r, e) /\ Leads(r, e)' /\ Asks(r, e)'
  <2>1. Leads(r, e) /\ Asks(r, e)
    BY <1>2, <1>3 DEF IInv, LeadInv
  <2>2. /\ rank'[r] = rank[r] /\ comm'[r] = comm[r] /\ idx'[r] = idx[r] /\ main'[r] = main[r]
        /\ pending'[r] = pending[r] /\ setop'[r] = setop[r] /\ out'[r] = out[r]
        /\ log' = log /\ psets' = psets /\ use' = use
    BY <1>1
  <2>3. Leads(r, e)'
    BY <1>4, <1>6, <2>1, <2>2 DEF Leads, Ending
  <2>4. ~ Announcing(r) /\ ~ Announcing(r)' /\ (Granted(r)' <=> Granted(r))
        /\ pc[r] \notin {"ackwait", "exit"}
    BY <1>4, <1>6, <2>2 DEF Announcing, Barriers, Granted
  <2>5. Asks(r, e)'
    BY <2>1, <2>2, <2>4 DEF Asks
  <2> QED
    BY <2>1, <2>3, <2>5
<1>14. LeadInv'
  BY <1>3, <1>8, <1>13 DEF LeadInv
<1>15. FinInv'
  <2>1. FinInv /\ pc[r] \notin {"user", "finop", "exit"} /\ pc'[r] \notin {"user", "finop", "exit"}
    BY <1>4, <1>6 DEF IInv, Barriers
  <2> QED
    BY <1>1, <1>3, <1>8, <2>1 DEF FinInv
<1>16. TeamInv'
  <2>1. ASSUME NEW q \in Members(e)
        PROVE  /\ q # r => Follows(q, r, e)'
               /\ Agrees(q, r, e)'
    <3>1. /\ pc'[q] = l /\ pc'[r] = l /\ iter'[q] = i /\ iter'[r] = i
          /\ idx'[q] = Len(log'[e])
          /\ pending'[q] = pending[q] /\ pending'[r] = pending[r]
          /\ main'[q] = main[q] /\ rank'[q] = rank[q] /\ use' = use
      BY <1>1, <1>5, <1>6
    <3>2. Agrees(q, r, e) /\ (q # r => Follows(q, r, e)) /\ pc[q] \in Barriers
      BY <1>2, <1>3, <1>5 DEF IInv, TeamInv
    <3>3. use.nonBlocking => pending[q] = pending[r]
      BY <1>6, <3>2 DEF Agrees, Due
    <3>4. Agrees(q, r, e)'
      BY <1>4, <3>1, <3>3 DEF Agrees, Due, Barriers
    <3>5. Ahead(q)' <=> Ahead(r)'
      BY <1>4, <3>1, <3>3 DEF Ahead
    <3>6. Near(q, r, e)'
      BY <1>4, <3>1, <3>5 DEF Near, Loop, Ending, Idle, Ahead
    <3>7. Heard(q, r, e)'
      BY <1>4, <3>1, <3>5 DEF Heard
    <3>8. InStep(q, r, e)'
      BY <1>4, <3>1 DEF InStep
    <3> QED
      BY <3>1, <3>2, <3>4, <3>6, <3>7, <3>8 DEF Follows
  <2> QED
    BY <1>3, <1>8, <2>1 DEF TeamInv
<1> QED
  BY <1>1, <1>8, <1>9, <1>10, <1>11, <1>12, <1>14, <1>15, <1>16, Types DEF IInv

-----------------------------------------------------------------------------
(* The members of the newest set make its communicator. *)

\* Who they are: the processes of the task, or those that stay and those that
\* were spawned for it.
LEMMA CreateIsNext ==
  ASSUME IInv, NEW e \in Epochs, \A p \in Members(e) : pc[p] \in {"init", "create"} /\ main[p] = e,
         NEW r, r = Root(e)
  PROVE  /\ e = Newest + 1 /\ e = Len(psets) /\ r \in Members(e) /\ Members(e) \subseteq Procs
         /\ e > 1 => /\ Left(Newest) /\ psets[e].key = "main" /\ r \notin psets[e].added
                     /\ psets[e].added \cap Orig = {}
         /\ \A q \in Members(e) :
              /\ comm[q] = 0
              /\ e = 1 => q \in Orig /\ pc[q] = "init" /\ iter[q] = 0 /\ ~ pending[q]
              /\ e > 1 /\ q \notin psets[e].added =>
                   /\ pc[q] = "create" /\ iter[q] = iter[r] /\ iter[q] < use.iterations
                   /\ ~ pending[q]
              /\ e > 1 /\ q \in psets[e].added => pc[q] = "init"
<1>1. /\ r \in Members(e) /\ Members(e) \subseteq Procs /\ Newest \in Nat /\ e \in Nat /\ e > 0
      /\ Len(psets) \in Nat
  BY Ranks, Types DEF IInv, Epochs
<1>2. ASSUME NEW q \in Members(e)
      PROVE  PlaceOf(q) /\ MemberOf(q) /\ pc[q] \in {"init", "create"} /\ main[q] = e /\ q \in Procs
  BY <1>1 DEF IInv, PlaceInv, MemberInv
<1>3. e = Newest + 1 /\ e = Len(psets)
  <2>1. PlaceOf(r) /\ pc[r] \in {"init", "create"} /\ main[r] = e
    BY <1>1, <1>2
  <2>2. main[r] = Len(psets)
    BY <2>1 DEF PlaceOf
  <2>3. Len(psets) = Newest + 1
    BY <2>1 DEF PlaceOf
  <2> QED
    BY <2>1, <2>2, <2>3
<1>4. CASE e = 1
  <2>1. Newest = 0 /\ Members(e) = Orig
    <3>1. psets[1].members = [i \in Orig |-> i]
      BY DEF IInv, SetsInv
    <3> QED
      BY <1>1, <1>3, <1>4, <3>1 DEF Members, ToSet
  <2>2. ASSUME NEW q \in Members(e)
        PROVE  comm[q] = 0 /\ pc[q] = "init" /\ iter[q] = 0 /\ ~ pending[q] /\ q \in Orig
    BY <1>2, <2>1 DEF MemberOf, PlaceOf, Outside
  <2> QED
    BY <1>1, <1>3, <1>4, <2>2
<1>5. CASE e > 1
  <2>1. /\ r \notin psets[e].added /\ Newest > 0
        /\ psets[e].added \cap Members(Newest) = {} /\ psets[e].added \cap Members(1) = {}
    <3>1. IsMainSet(e) /\ Newest = e - 1 /\ 1 \in 1 .. e - 1 /\ e - 1 \in 1 .. e - 1
      BY <1>1, <1>3, <1>5 DEF IInv, SetsInv
    <3> QED
      BY <1>1, <1>5, <3>1 DEF IsMainSet
  <2>2. psets[e].added \cap Orig = {}
    <3>1. Members(1) = Orig
      BY DEF IInv, SetsInv, Members, ToSet
    <3> QED
      BY <2>1, <3>1
  <2>3. ASSUME NEW q \in Members(e), q \notin psets[e].added
        PROVE  pc[q] = "create" /\ ~ pending[q] /\ q \in Members(Newest) /\ Left(Newest)
    <3>1. pc[q] # "init"
      BY <1>2, <1>3, <2>1, <2>3 DEF PlaceOf
    <3> QED
      BY <1>2, <3>1 DEF PlaceOf
  <2>4. Left(Newest) /\ r \in Members(Newest)
    BY <1>1, <2>1, <2>3
  <2>5. psets[e].key = "main"
        /\ \A p, q \in Members(Newest) : iter[p] = iter[q] /\ iter[p] < use.iterations
    BY <1>3, <2>1, <2>4 DEF IInv, LeftInv
  <2>6. ASSUME NEW q \in Members(e), q \in psets[e].added
        PROVE  pc[q] = "init"
    <3>1. pc[q] # "create"
      BY <1>2, <2>1, <2>6 DEF PlaceOf
    <3> QED
      BY <1>2, <3>1
  <2>7. ASSUME NEW q \in Members(e)
        PROVE  comm[q] = 0
    BY <1>2 DEF PlaceOf, Outside
  <2> QED
    BY <1>1, <1>3, <1>5, <2>1, <2>2, <2>3, <2>4, <2>5, <2>6, <2>7
<1> QED
  BY <1>1, <1>4, <1>5

\* A new communicator begins a new team.
LEMMA CreateKeeps ==
  ASSUME IInv, NEW e \in Epochs, CommCreate(e), use' = use
  PROVE  IInv'
<1>0. PICK r : r = Root(e)
  OBVIOUS
<1>1. /\ \A p \in Members(e) : pc[p] \in {"init", "create"} /\ main[p] = e
      /\ log' = Append(log, <<>>)
      /\ comm' = [p \in Procs |-> IF p \in Members(e) THEN e ELSE comm[p]]
      /\ rank' = [p \in Procs |-> IF p \in Members(e) THEN RankIn(p, e) ELSE rank[p]]
      /\ idx' = [p \in Procs |-> IF p \in Members(e) THEN 0 ELSE idx[p]]
      /\ pc' = [p \in Procs |->
                  IF p \notin Members(e) THEN pc[p]
                  ELSE IF pc[p] = "create" THEN "user"
                  ELSE IF p \in Orig THEN "launch" ELSE "exprecv"]
      /\ UNCHANGED <<use, psets, main, pending, setop, out, flagOf, iter>>
  BY DEF CommCreate, setopVars
<1>2. /\ e = Newest + 1 /\ e = Len(psets) /\ r \in Members(e) /\ Members(e) \subseteq Procs
      /\ e > 1 => /\ Left(Newest) /\ psets[e].key = "main" /\ r \notin psets[e].added
                  /\ psets[e].added \cap Orig = {}
      /\ e \in Nat /\ e > 0 /\ Newest \in Nat /\ psets \in Seq(Pset)
  BY <1>0, <1>1, CreateIsNext, Types DEF Epochs
<1>3. ASSUME NEW q \in Members(e)
      PROVE  /\ comm[q] = 0
             /\ e = 1 => q \in Orig /\ pc[q] = "init" /\ iter[q] = 0 /\ ~ pending[q]
             /\ e > 1 /\ q \notin psets[e].added =>
                  /\ pc[q] = "create" /\ iter[q] = iter[r] /\ iter[q] < use.iterations
                  /\ ~ pending[q]
             /\ e > 1 /\ q \in psets[e].added => pc[q] = "init"
  BY <1>0, <1>1, CreateIsNext
<1>4. /\ log \in Seq(Seq(Message)) /\ Newest' = e /\ log'[e] = <<>>
      /\ \A f \in 1 .. Newest : log'[f] = log[f]
      /\ log' \in Seq(Seq(Message))
  <2>1. log \in Seq(Seq(Message)) /\ <<>> \in Seq(Message)
    BY Types
  <2> QED
    BY <1>1, <1>2, <2>1 DEF Newest
<1>5. /\ psets' = psets /\ Epochs' = Epochs /\ use' = use /\ Orig' = Orig
      /\ \A f : Members(f)' = Members(f) /\ Root(f)' = Root(f)
      /\ \A f \in 1 .. Newest : Left(f)' <=> Left(f)
      /\ ~ Left(e)' /\ Lead' = r
  <2>1. psets' = psets /\ use' = use
    BY <1>1
  <2>2. \A f : Members(f)' = Members(f) /\ Root(f)' = Root(f)
    BY <2>1 DEF Members, Root
  <2>3. \A f \in 1 .. Newest : Left(f)' <=> Left(f)
    BY <1>4 DEF Left
  <2>4. ~ Left(e)'
    BY <1>4 DEF Left
  <2>5. Lead' = Head(psets'[Newest'].members)
    BY DEF Lead, Root
  <2>6. Lead' = r
    BY <1>0, <1>4, <2>1, <2>5 DEF Root
  <2> QED
    BY <2>1, <2>2, <2>3, <2>4, <2>6 DEF Epochs, Orig
<1>6. ASSUME NEW q \in Members(e)
      PROVE  /\ q \in Procs /\ comm'[q] = e /\ rank'[q] \in Nat /\ (rank'[q] = 0 <=> q = r)
             /\ idx'[q] = 0 /\ main'[q] = e /\ pending'[q] = pending[q] /\ iter'[q] = iter[q]
             /\ e = 1 => pc'[q] = "launch"
             /\ e > 1 => pc'[q] = IF q \in psets[e].added THEN "exprecv" ELSE "user"
  <2>1. q \in Procs /\ comm'[q] = e /\ rank'[q] = RankIn(q, e) /\ idx'[q] = 0 /\ main'[q] = e
        /\ pending'[q] = pending[q] /\ iter'[q] = iter[q]
    BY <1>1, <1>2
  <2>2. RankIn(q, e) \in Nat /\ (RankIn(q, e) = 0 <=> q = r)
    BY <1>0, <1>2, Ranks DEF IInv
  <2>3. pc'[q] = IF pc[q] = "create" THEN "user"
                 ELSE IF q \in Orig THEN "launch" ELSE "exprecv"
    BY <1>1, <1>2
  <2>4. e = 1 => pc'[q] = "launch"
    BY <1>3, <2>3
  <2>5. e > 1 => pc'[q] = IF q \in psets[e].added THEN "exprecv" ELSE "user"
    BY <1>2, <1>3, <2>3
  <2> QED
    BY <2>1, <2>2, <2>4, <2>5
<1>7. ASSUME NEW q \in Procs, q \notin Members(e)
      PROVE  SameAt(q)
  BY <1>1, <1>7 DEF SameAt
<1>8. TypeOK'
  <2>1. ASSUME NEW q \in Procs
        PROVE  /\ pc'[q] \in Locations /\ comm'[q] \in 0 .. Len(psets) /\ rank'[q] \in Int
               /\ idx'[q] \in Nat
    <3>1. CASE q \in Members(e)
      <4>1. e = 1 \/ e > 1
        BY <1>2
      <4>2. pc'[q] \in Locations
        BY <1>6, <3>1, <4>1 DEF Locations
      <4> QED
        BY <1>2, <1>6, <3>1, <4>2
    <3>2. CASE q \notin Members(e)
      <4>1. SameAt(q)
        BY <1>7, <3>2
      <4> QED
        BY <4>1 DEF SameAt, IInv, TypeOK
    <3> QED
      BY <3>1, <3>2
  <2>2. /\ pc' \in [Procs -> Locations] /\ comm' \in [Procs -> 0 .. Len(psets)]
        /\ rank' \in [Procs -> Int] /\ idx' \in [Procs -> Nat]
    <3>1. /\ pc' = [p \in Procs |-> pc'[p]] /\ comm' = [p \in Procs |-> comm'[p]]
          /\ rank' = [p \in Procs |-> rank'[p]] /\ idx' = [p \in Procs |-> idx'[p]]
      BY <1>1
    <3> QED
      BY <2>1, <3>1
  <2>3. Len(log') <= Len(psets')
    BY <1>2, <1>4, <1>5 DEF Newest
  <2> QED
    BY <1>1, <2>2, <2>3 DEF IInv, TypeOK
<1>9. SetsInv'
  <2>1. \A f : IsMainSet(f) => IsMainSet(f)'
    BY <1>5 DEF IsMainSet, Members, Root
  <2> QED
    BY <1>2, <1>4, <1>5, <2>1 DEF IInv, SetsInv, Newest, Epochs
<1>10. PlaceInv'
  <2>1. ASSUME NEW q \in Procs
        PROVE  PlaceOf(q)'
    <3>1. PlaceOf(q) /\ Len(psets') = e /\ Newest' = e /\ Epochs' = Epochs
      BY <1>2, <1>4, <1>5 DEF IInv, PlaceInv
    <3>2. CASE q \in Members(e)
      <4>1. pc'[q] \in {"launch", "user", "exprecv"} /\ comm'[q] = e /\ main'[q] = e
        BY <1>2, <1>6, <3>2
      <4>2. e # 0 /\ e \in 1 .. e /\ ~ (e < e) /\ e # e + 1
        BY <1>2
      <4> QED
        BY <1>5, <3>1, <3>2, <4>1, <4>2 DEF PlaceOf, Dismissed, Outside
    <3>3. CASE q \notin Members(e)
      <4>1. /\ pc'[q] = pc[q] /\ comm'[q] = comm[q] /\ main'[q] = main[q]
            /\ pending'[q] = pending[q]
        BY <1>7, <3>3 DEF SameAt
      <4>2. pc[q] \notin {"spawned", "init", "create"} /\ ~ Dismissed(q)
        BY <1>2, <3>1, <3>3 DEF PlaceOf
      <4>3. comm[q] # 0 => comm[q] \in 1 .. e /\ (comm[q] < e => q \notin Members(comm[q] + 1))
        <5>1. comm[q] # 0 => /\ comm[q] \in 1 .. Newest
                             /\ comm[q] < Newest => q \notin Members(comm[q] + 1)
          BY <3>1 DEF PlaceOf
        <5>2. comm[q] = Newest => comm[q] + 1 = e
          BY <1>2
        <5> QED
          BY <1>2, <3>3, <5>1, <5>2
      <4>4. PlaceOf(q)'
        <5>1. Members(comm[q])' = ToSet(psets'[comm'[q]].members)
              /\ Members(comm[q] + 1)' = ToSet(psets'[comm'[q] + 1].members)
          BY DEF Members
        <5>2. ~ Dismissed(q)' /\ pc'[q] \notin {"spawned", "init", "create"}
          BY <4>1, <4>2 DEF Dismissed
        <5>3. e # e + 1
          BY <1>2
        <5>4. comm'[q] # 0 => /\ comm'[q] \in 1 .. Newest' /\ q \in Members(comm[q])'
                              /\ main'[q] >= comm'[q]
                              /\ comm'[q] < Newest' => q \notin Members(comm[q] + 1)'
          BY <1>5, <3>1, <4>1, <4>3, <5>1 DEF PlaceOf, Members
        <5>5. pc'[q] = "off" => main'[q] = 0 /\ \A f \in Epochs' : q \notin Members(f)'
          BY <1>5, <3>1, <4>1 DEF PlaceOf
        <5>6. (pc'[q] \in Outside => comm'[q] = 0)
              /\ (comm'[q] = 0 => pc'[q] \in Outside)
          BY <3>1, <4>1 DEF PlaceOf
        <5> QED
          BY <3>1, <5>1, <5>2, <5>3, <5>4, <5>5, <5>6 DEF PlaceOf
      <4> QED
        BY <4>4
    <3> QED
      BY <3>2, <3>3
  <2> QED
    BY <2>1 DEF PlaceInv
<1>11. MemberInv'
  <2>1. ASSUME NEW q \in Procs
        PROVE  MemberOf(q)'
    <3>1. MemberOf(q) /\ main'[q] = main[q]
      BY <1>1 DEF IInv, MemberInv
    <3>2. ASSUME NEW f \in 1 .. e, q \in Members(f)
          PROVE  main'[q] >= f
      <4>1. CASE f = e
        BY <1>2, <1>6, <3>2, <4>1
      <4>2. CASE f # e
        <5>1. f \in 1 .. Newest
          BY <1>2, <4>2
        <5> QED
          BY <3>1, <3>2, <5>1 DEF MemberOf
      <4> QED
        BY <4>1, <4>2
    <3>3. q \in Members(e) => comm'[q] = e
      BY <1>6
    <3>4. e # 0
      BY <1>2
    <3> QED
      BY <1>4, <1>5, <3>2, <3>3, <3>4 DEF MemberOf
  <2> QED
    BY <2>1 DEF MemberInv
<1>12. LeftInv'
  <2>1. ASSUME NEW f \in 1 .. e - 1
        PROVE  f \in 1 .. Newest /\ Left(f) /\ Left(f)'
    <3>1. f \in 1 .. Newest
      BY <1>2
    <3>2. Left(f)
      <4>1. CASE f = Newest
        BY <1>2, <4>1
      <4>2. CASE f # Newest
        <5>1. f \in 1 .. Newest - 1
          BY <1>2, <3>1, <4>2
        <5> QED
          BY <5>1 DEF IInv, LeftInv
      <4> QED
        BY <4>1, <4>2
    <3> QED
      BY <1>5, <3>1, <3>2
  <2>2. ASSUME NEW f \in 1 .. e, Left(f)'
        PROVE  f \in 1 .. Newest /\ Left(f) /\ log'[f] = log[f]
    <3>1. f # e
      BY <1>5, <2>2
    <3>2. f \in 1 .. Newest
      BY <1>2, <3>1
    <3> QED
      BY <1>4, <1>5, <2>2, <3>2
  <2>3. ASSUME NEW f \in 1 .. Newest, Left(f), NEW q \in Procs, comm'[q] = f
        PROVE  Leaves(q, f)'
    <3>1. q \notin Members(e)
      <4>1. f # e
        BY <1>2
      <4> QED
        BY <1>6, <2>3, <4>1
    <3>2. SameAt(q) /\ comm[q] = f
      BY <1>7, <2>3, <3>1 DEF SameAt
    <3>3. Leaves(q, f) /\ log'[f] = log[f]
      BY <1>4, <2>3, <3>2 DEF IInv, LeftInv
    <3>4. f = Newest => q \notin Members(f + 1)
      BY <1>2, <3>1
    <3>5. ~ (pc[q] = "disconnect" /\ f = Newest /\ q \in Members(f + 1))
      BY <3>4
    <3> QED
      BY <1>5, <3>2, <3>3, <3>5 DEF Leaves, SameAt, Ahead
  <2>4. ASSUME NEW f \in 1 .. e, Left(f)'
        PROVE  /\ Len(log'[f]) > 1
               /\ log'[f][Len(log'[f]) - 1] = [kind |-> "flag", val |-> TRUE]
               /\ log'[f][Len(log'[f])] = [kind |-> "names", val |-> f + 1]
               /\ \A q \in Procs : comm'[q] = f => Leaves(q, f)'
    <3>1. f \in 1 .. Newest /\ Left(f) /\ log'[f] = log[f]
      BY <2>2, <2>4
    <3>2. /\ Len(log[f]) > 1
          /\ log[f][Len(log[f]) - 1] = [kind |-> "flag", val |-> TRUE]
          /\ log[f][Len(log[f])] = [kind |-> "names", val |-> f + 1]
      BY <3>1 DEF IInv, LeftInv
    <3> QED
      BY <2>3, <3>1, <3>2
  <2> QED
    BY <1>4, <1>5, <2>1, <2>4 DEF LeftInv
<1>13. r \in Procs /\ pc'[r] = (IF e = 1 THEN "launch" ELSE "user") /\ ~ pending'[r]
       /\ rank'[r] = 0 /\ comm'[r] = e /\ idx'[r] = 0 /\ main'[r] = e
       /\ (e > 1 => iter'[r] < use.iterations)
  BY <1>2, <1>3, <1>6
<1>14. LeadInv'
  <2>1. Len(log'[e]) = 0 /\ e \in Nat /\ e # 0 /\ e # e + 1 /\ Len(psets') = e /\ use' = use
    <3>1. psets' = psets /\ use' = use /\ log'[e] = <<>>
      BY <1>4, <1>5
    <3> QED
      BY <1>2, <3>1
  <2>2. e = 1 \/ e > 1
    BY <2>1
  <2>3. Leads(r, e)'
    BY <1>13, <2>1, <2>2 DEF Leads, Ending
  <2>4. Asks(r, e)'
    BY <1>13, <2>1 DEF Asks, Granted, Announcing
  <2> QED
    BY <1>4, <1>5, <2>3, <2>4 DEF LeadInv
<1>15. FinInv'
  <2>1. \A f \in 2 .. e - 1 : psets[f].fin = 1
    <3>1. ASSUME NEW f \in 2 .. e - 1
          PROVE  psets[f].fin = 1
      <4>1. CASE f = Newest
        BY <1>2, <4>1 DEF IInv, FinInv
      <4>2. CASE f # Newest
        <5>1. f \in 2 .. Newest - 1
          BY <1>2, <4>2
        <5> QED
          BY <5>1 DEF IInv, FinInv
      <4> QED
        BY <4>1, <4>2
    <3> QED
      BY <3>1
  <2>2. psets[1].fin = 0
    BY DEF IInv, FinInv
  <2>3. e > 1 => psets[e].fin = 0
    BY <1>2 DEF IInv, FinInv
  <2>4. e > 1 => pc'[r] = "user"
    BY <1>13
  <2>5. Len(psets') # e + 1
    BY <1>2, <1>5
  <2> QED
    BY <1>4, <1>5, <2>1, <2>2, <2>3, <2>4, <2>5 DEF FinInv
<1>16. TeamInv'
  <2>1. ASSUME NEW q \in Members(e)
        PROVE  /\ q # r => Follows(q, r, e)'
               /\ Agrees(q, r, e)'
    <3>1. e = 1 \/ e > 1
      BY <1>2
    <3>2. /\ use' = use /\ psets' = psets /\ log'[e] = <<>> /\ Len(log'[e]) = 0
      BY <1>1, <1>4
    <3>3. e > 1 /\ q \in psets[e].added => psets[e].added # {}
      OBVIOUS
    <3>4. Agrees(q, r, e)'
      BY <1>6, <1>13, <3>1, <3>2 DEF Agrees, Due, Barriers
    <3>5. ASSUME q # r PROVE Follows(q, r, e)'
      <4>1. rank'[q] \notin {0, -1} /\ main'[q] = e
        BY <1>6, <3>5
      <4>2. Near(q, r, e)'
        BY <1>6, <1>13, <3>1 DEF Near, Loop, Ending, Idle, Ahead
      <4>3. Heard(q, r, e)'
        BY <1>6, <1>13, <3>1, <3>2 DEF Heard, Ahead
      <4>4. InStep(q, r, e)'
        BY <1>2, <1>3, <1>6, <1>13, <3>1 DEF InStep
      <4> QED
        BY <4>1, <4>2, <4>3, <4>4 DEF Follows
    <3> QED
      BY <3>4, <3>5
  <2> QED
    BY <1>5, <1>4, <2>1 DEF TeamInv
<1> QED
  BY <1>4, <1>8, <1>9, <1>10, <1>11, <1>12, <1>14, <1>15, <1>16 DEF IInv

-----------------------------------------------------------------------------
(* The invariant holds in every reachable state. *)

\* The invariant holds at the start.
LEMMA InitHolds == Init => IInv
<1> SUFFICES ASSUME Init PROVE IInv
  OBVIOUS
<1> DEFINE ms == [i \in Orig |-> i]
<1>1. use \in Use /\ use.numOrig \in Procs /\ use.iterations \in Nat
  BY UsesAssumption DEF Init, Use
<1>2. use.numOrig \in Nat /\ use.numOrig > 0 /\ Orig \subseteq Procs
  <2>1. Procs = 1 .. Cardinality(Procs) /\ Cardinality(Procs) \in Nat
    BY ProcsAssumption, FS_CardinalityType
  <2> QED
    BY <1>1, <2>1 DEF Orig
<1>3. ms \in Seq(Procs) /\ Len(ms) = use.numOrig /\ ms # <<>> /\ IsInjective(ms) /\ ToSet(ms) = Orig
  <2>1. ms \in [1 .. use.numOrig -> Procs]
    BY <1>2 DEF Orig
  <2>2. ms \in Seq(Procs) /\ Len(ms) = use.numOrig
    BY <1>2, <2>1
  <2>3. ms # <<>>
    BY <1>2, <2>2
  <2>4. IsInjective(ms) /\ ToSet(ms) = Orig
    BY <1>2 DEF IsInjective, ToSet, Orig
  <2> QED
    BY <2>2, <2>3, <2>4
<1>4. /\ psets = << [members |-> ms, added |-> {}, removed |-> {}, key |-> "none", ack |-> FALSE,
                     fin |-> 0] >>
      /\ log = <<>>
      /\ use \in Uses
      /\ pc = [p \in Procs |-> IF p \in Orig THEN "init" ELSE "off"]
      /\ comm = [p \in Procs |-> 0]
      /\ main = [p \in Procs |-> IF p \in Orig THEN 1 ELSE 0]
      /\ rank = [p \in Procs |-> -1]
      /\ pending = [p \in Procs |-> FALSE]
      /\ setop = [p \in Procs |-> "unset"]
      /\ out = [p \in Procs |-> 0]
      /\ idx = [p \in Procs |-> 0]
      /\ flagOf = [p \in Procs |-> FALSE]
      /\ iter = [p \in Procs |-> 0]
  BY DEF Init, NewPset
<1> HIDE DEF ms
<1>5. /\ Len(psets) = 1 /\ Newest = 0 /\ Epochs = {1}
      /\ psets[1] = [members |-> ms, added |-> {}, removed |-> {}, key |-> "none", ack |-> FALSE,
                     fin |-> 0]
  BY <1>4 DEF Newest, Epochs
<1>6. psets \in Seq(Pset)
  <2>1. [members |-> ms, added |-> {}, removed |-> {}, key |-> "none", ack |-> FALSE, fin |-> 0]
          \in Pset
    BY <1>3 DEF Pset
  <2> QED
    BY <1>4, <2>1
<1>7. Members(1) = Orig /\ psets[1].added = {} /\ psets[1].removed = {} /\ psets[1].key = "none"
      /\ psets[1].fin = 0 /\ psets[1].members = ms
  BY <1>3, <1>5 DEF Members
<1>8. TypeOK
  <2>1. psets \in Seq([members : Seq(Procs), added : SUBSET Procs, removed : SUBSET Procs,
                       key : {"none", "main", "canceled"}, ack : BOOLEAN, fin : Nat])
    BY <1>6 DEF Pset
  <2>2. /\ pc \in [Procs -> Locations] /\ rank \in [Procs -> Int] /\ pending \in [Procs -> BOOLEAN]
        /\ setop \in [Procs -> {"unset", "NULL", "REPLACE"}] /\ idx \in [Procs -> Nat]
        /\ flagOf \in [Procs -> BOOLEAN]
    BY <1>4 DEF Locations
  <2>3. /\ comm \in [Procs -> 0 .. 1] /\ main \in [Procs -> 0 .. 1] /\ out \in [Procs -> 0 .. 1]
        /\ iter \in [Procs -> 0 .. use.iterations]
    BY <1>1, <1>4
  <2>4. Len(log) <= 1
    BY <1>5 DEF Newest
  <2> QED
    BY <1>4, <1>5, <2>1, <2>2, <2>3, <2>4 DEF TypeOK
<1>9. log \in Seq(Seq(Message))
  BY <1>4
<1>10. SetsInv
  <2>1. IsMainSet(1)
    BY <1>3, <1>7 DEF IsMainSet
  <2>2. psets[1].members = [i \in Orig |-> i]
    BY <1>7 DEF ms
  <2> QED
    BY <1>5, <1>7, <2>1, <2>2 DEF SetsInv, Newest
<1>11. PlaceInv
  <2>1. ASSUME NEW p \in Procs PROVE PlaceOf(p)
    <3>1. comm[p] = 0 /\ pc[p] \in {"init", "off"} /\ (pc[p] = "init" <=> p \in Orig)
          /\ main[p] = IF p \in Orig THEN 1 ELSE 0
      BY <1>4
    <3> QED
      BY <1>5, <1>7, <3>1 DEF PlaceOf, Outside, Dismissed
  <2> QED
    BY <2>1 DEF PlaceInv
<1>12. MemberInv
  <2>1. ASSUME NEW p \in Procs PROVE MemberOf(p)
    <3>1. (p \in Orig => pc[p] = "init") /\ ~ pending[p] /\ iter[p] = 0
      BY <1>4
    <3> QED
      BY <1>5, <3>1 DEF MemberOf
  <2> QED
    BY <2>1 DEF MemberInv
<1>13. LeftInv /\ LeadInv /\ TeamInv
  BY <1>5 DEF LeftInv, LeadInv, TeamInv
<1>14. FinInv
  BY <1>5, <1>7 DEF FinInv
<1> QED
  BY <1>8, <1>9, <1>10, <1>11, <1>12, <1>13, <1>14 DEF IInv

\* A step that changes nothing keeps the invariant.
LEMMA StutterKeeps == IInv /\ UNCHANGED vars => IInv'
<1> SUFFICES ASSUME IInv, UNCHANGED vars PROVE IInv'
  OBVIOUS
<1>1. UNCHANGED <<use, psets, log, pc, comm, main, rank, pending, setop, out, idx, flagOf, iter>>
  BY DEF vars
<1>2. /\ SetsInv' /\ Newest' = Newest /\ Lead' = Lead /\ Epochs' = Epochs
      /\ \A e : Members(e)' = Members(e) /\ Root(e)' = Root(e) /\ Left(e)' = Left(e)
  BY <1>1, SameWorld DEF IInv
<1>3. Kept /\ \A q : SameAt(q)
  BY <1>1, <1>2 DEF Kept, SameAt
<1>4. TypeOK' /\ log' \in Seq(Seq(Message))
  BY <1>1 DEF IInv, TypeOK
<1>5. Left(Newest)' = Left(Newest)
  BY <1>1, <1>2 DEF Left
<1>6. PlaceInv'
  BY <1>1, <1>3, <1>5, SamePlace DEF IInv, PlaceInv
<1>7. MemberInv'
  BY <1>3, SameMember DEF IInv, MemberInv
<1>8. LeftInv'
  BY <1>1, <1>2, <1>3, SameLeaver DEF IInv, LeftInv
<1>9. LeadInv'
  <2>1. Newest > 0 /\ ~ Left(Newest) => Leads(Lead, Newest)' /\ Asks(Lead, Newest)'
    BY <1>1, <1>2 DEF IInv, LeadInv, Leads, Asks, Granted, Latest, Announcing
  <2> QED
    BY <1>2, <1>5, <2>1 DEF LeadInv
<1>10. FinInv'
  BY <1>1, <1>2, <1>5, SameFin
<1>11. TeamInv'
  BY <1>1, <1>2, <1>3, <1>5, SameFollower DEF IInv, TeamInv
<1> QED
  BY <1>2, <1>4, <1>6, <1>7, <1>8, <1>9, <1>10, <1>11 DEF IInv

\* Every step keeps the invariant.
LEMMA NextKeeps == IInv /\ [Next]_vars => IInv'
<1> SUFFICES ASSUME IInv, [Next]_vars PROVE IInv'
  OBVIOUS
<1>1. CASE \E p \in Procs : Step(p)
  BY <1>1, StepKeeps
<1>2. CASE \E e \in 1 .. MaxPsets : Collective(e)
  <2>1. PICK e \in Epochs : (CommCreate(e) \/ Barrier(e)) /\ use' = use
    BY <1>2 DEF Collective, Epochs
  <2> QED
    BY <2>1, CreateKeeps, BarrierKeeps
<1>3. CASE UNCHANGED vars
  BY <1>3, StutterKeeps
<1> QED
  BY <1>1, <1>2, <1>3 DEF Next

\* Everything IInv says of the processes, the main sets and the broadcasts
\* holds in every reachable state.
THEOREM Inductive == Spec => []IInv
BY InitHolds, NextKeeps, PTL DEF Spec

\* Every variable of the library has its type, whatever the tasks: in
\* particular the runtime's sets only ever list processes, and no process
\* counts more iterations than its task has.
THEOREM TypesCorrect == Spec => []TypeOK
<1>1. IInv => TypeOK
  BY DEF IInv
<1> QED
  BY <1>1, Inductive, PTL

-----------------------------------------------------------------------------
(* What follows from it. *)

\* The processes of a communicator call MPI's collective operations in the
\* same order: whoever waits in a broadcast gets the message of that very call
\* of rank 0, and rank 0 enters no barrier before a process has what it waits
\* for, with any number of processes and any sequence of operations.
THEOREM CollectivesCorrect == Spec => []CollectivesMatch
<1>1. ASSUME IInv, NEW p \in Procs, comm[p] # 0, rank[p] > 0, NEW e, e = comm[p],
             NEW r, r = Root(e)
      PROVE  /\ pc[p] \in Casts /\ idx[p] < Len(log[e])
                  => log[e][idx[p] + 1].kind = CastKind(pc[p])
             /\ pc[p] \in Casts \ {"user"} /\ pc[r] \in Barriers /\ comm[r] = e
                  => idx[p] < Len(log[e])
             /\ pc[p] \in Barriers => idx[p] = Len(log[e])
  <2>1. e \in 1 .. Newest /\ rank[p] \in Int /\ rank[p] # 0
    BY <1>1, Who, Types
  <2>2. Len(log[e]) \in Nat /\ idx[p] \in Nat
    <3>1. log[e] \in Seq(Message)
      BY <1>1, <2>1, Types DEF Newest
    <3> QED
      BY <1>1, <3>1, Types
  <2>3. CASE Left(e)
    <3> DEFINE n == Len(log[e])
    <3>1. /\ n > 1 /\ log[e][n - 1].kind = "flag" /\ log[e][n].kind = "names"
      <4>1. /\ Len(log[e]) > 1
            /\ log[e][Len(log[e]) - 1] = [kind |-> "flag", val |-> TRUE]
            /\ log[e][Len(log[e])] = [kind |-> "names", val |-> e + 1]
        BY <1>1, <2>1, <2>3 DEF IInv, LeftInv
      <4> QED
        BY <4>1
    <3>2. Leaves(p, e)
      BY <1>1, <2>3, Who
    <3>3. CASE pc[p] \in {"adapt", "check", "flag"} /\ idx[p] = n - 2
      BY <2>2, <3>1, <3>3 DEF Casts, CastKind, Barriers
    <3>4. CASE pc[p] = "names" /\ idx[p] = n - 1
      BY <2>2, <3>1, <3>4 DEF Casts, CastKind, Barriers
    <3>5. CASE pc[p] \in {"disconnect", "finalize", "exit"}
      BY <3>5 DEF Casts, Barriers
    <3> QED
      BY <3>2, <3>3, <3>4, <3>5 DEF Leaves, Ahead
  <2>4. CASE ~ Left(e)
    <3>1. e = Newest /\ r = Lead /\ Leads(r, e)
      BY <1>1, <2>4, Who DEF Lead
    <3>2. p # r
      BY <2>1, <3>1 DEF Leads
    <3>3. Follows(p, r, e) /\ Agrees(p, r, e)
      BY <1>1, <2>4, <3>1, <3>2, Who
    <3>4. CASE pc[p] = "flag"
      <4>1. Ahead(p) /\ pc[p] \notin {"exprecv", "user"} /\ pc[p] \notin Ending
        BY <3>4 DEF Ahead, Ending
      <4>2. CASE Ahead(r)
        <5>1. idx[p] = Len(log[e]) /\ pc[r] \notin Barriers
          BY <3>3, <4>1, <4>2 DEF Follows, Heard, Ahead, Barriers
        <5> QED
          BY <2>2, <3>4, <5>1 DEF Barriers
      <4>3. CASE ~ Ahead(r)
        <5>1. idx[p] = Len(log[e]) - 1 /\ Latest(e).kind = "flag"
          BY <3>3, <4>1, <4>3 DEF Follows, Heard, FlagMessage
        <5>2. idx[p] + 1 = Len(log[e])
          BY <2>2, <5>1
        <5> QED
          BY <2>2, <3>4, <5>1, <5>2 DEF Barriers, CastKind, Latest
      <4> QED
        BY <4>2, <4>3
    <3>5. CASE pc[p] = "names"
      <4>1. idx[p] = Len(log[e]) /\ pc[r] = "names"
        BY <3>3, <3>5 DEF Follows, Heard, Near, Ahead, Ending
      <4> QED
        BY <2>2, <3>5, <4>1 DEF Barriers
    <3>6. CASE pc[p] \in {"exprecv", "user"}
      <4>1. CASE psets[e].added # {}
        <5>1. idx[p] = 0 /\ (pc[r] # "user" => Len(log[e]) = 1 /\ log[e][1].kind = "user")
          BY <3>3, <3>6, <4>1 DEF Follows, Heard
        <5>2. pc[r] = "user" => Len(log[e]) = 0
          BY <3>1 DEF Leads
        <5> QED
          BY <3>6, <5>1, <5>2 DEF Barriers, CastKind
      <4>2. CASE psets[e].added = {}
        <5>1. pc[p] = "user" /\ idx[p] = Len(log[e])
          BY <3>3, <3>6, <4>2 DEF Follows, Agrees, Heard, Ahead, Ending
        <5> QED
          BY <2>2, <5>1 DEF Barriers
      <4> QED
        BY <4>1, <4>2
    <3>7. CASE pc[p] \in Barriers
      BY <3>3, <3>7 DEF Follows, Heard, Ahead, Ending, Barriers, Casts
    <3>8. CASE pc[p] \notin Casts \cup Barriers
      BY <3>8
    <3> QED
      BY <3>4, <3>5, <3>6, <3>7, <3>8 DEF Casts
  <2> QED
    BY <2>3, <2>4
<1>2. IInv => CollectivesMatch
  BY <1>1 DEF CollectivesMatch
<1> QED
  BY <1>2, Inductive, PTL

\* No process ever takes part in creating a communicator from a set it is not
\* in: the name it was told is always that of a set with it.
THEOREM NoStrangerCorrect == Spec => []NoStrangerCreates
<1>1. ASSUME IInv, NEW p \in Procs, pc[p] \in {"init", "disconnect", "create"}
      PROVE  p \in Members(main[p])
  <2>1. PlaceOf(p)
    BY <1>1 DEF IInv, PlaceInv
  <2>2. CASE pc[p] \in {"init", "create"}
    BY <2>1, <2>2 DEF PlaceOf
  <2>3. CASE pc[p] = "disconnect"
    <3>1. comm[p] # 0
      BY <2>1, <2>3 DEF PlaceOf, Outside
    <3>2. Leaves(p, comm[p])
      BY <1>1, <2>3, <3>1, Who DEF Leads, Follows, Near
    <3> QED
      BY <2>3, <3>2 DEF Leaves, Ahead
  <2> QED
    BY <1>1, <2>2, <2>3
<1>2. IInv => NoStrangerCreates
  BY <1>1 DEF NoStrangerCreates
<1> QED
  BY <1>2, Inductive, PTL

\* The runtime never has two operations to do at once, none is finalized twice,
\* and none before every process of the new set knows of it.
THEOREM OrderCorrect == Spec => []SetopsInOrder
<1>1. ASSUME IInv, NEW e \in Epochs \ {1}
      PROVE  /\ psets[e].fin <= 1
             /\ e < Len(psets) => psets[e].fin = 1
             /\ psets[e].fin = 1 /\ psets[e].key = "main" => \A p \in Members(e) : main[p] >= e
  <2>1. /\ e \in Nat /\ e > 1 /\ e <= Len(psets) /\ Newest \in Nat
        /\ Len(psets) \in {Newest, Newest + 1}
        /\ Members(e) \subseteq Procs
    <3>1. e \in Epochs /\ Newest \in Nat /\ Len(psets) \in {Newest, Newest + 1} /\ Len(psets) \in Nat
      BY <1>1, Types DEF IInv, SetsInv, Newest
    <3>2. Members(e) \subseteq Procs
      BY <1>1, <3>1, Types, Ranks DEF IInv
    <3> QED
      BY <1>1, <3>1, <3>2 DEF Epochs
  <2>2. CASE e <= Newest
    <3>1. \A p \in Members(e) : main[p] >= e
      BY <1>1, <2>1, <2>2 DEF IInv, MemberInv, MemberOf
    <3>2. CASE e < Newest
      <4>1. e \in 2 .. Newest - 1
        BY <2>1, <3>2
      <4> QED
        BY <1>1, <3>1, <4>1 DEF IInv, FinInv
    <3>3. CASE e = Newest
      <4>1. psets[e].fin = IF ~ Left(Newest) /\ pc[Lead] \in {"user", "finop"} THEN 0 ELSE 1
        BY <1>1, <2>1, <3>3 DEF IInv, FinInv
      <4>2. Len(psets) = e + 1 /\ ~ Left(Newest) => pc[Lead] \notin {"user", "finop"}
        <5> SUFFICES ASSUME Len(psets) = e + 1, ~ Left(Newest)
                     PROVE  pc[Lead] \notin {"user", "finop"}
          OBVIOUS
        <5>1. Leads(Lead, Newest) /\ Asks(Lead, Newest)
          BY <1>1, <2>1, <3>3 DEF IInv, LeadInv
        <5>2. pending[Lead]
          BY <3>3, <5>1 DEF Asks, Granted
        <5> QED
          BY <5>1, <5>2 DEF Leads
      <4>3. e < Len(psets) => Len(psets) = e + 1
        BY <2>1, <3>3
      <4> QED
        BY <3>1, <4>1, <4>2, <4>3
    <3> QED
      BY <2>1, <2>2, <3>2, <3>3
  <2>3. CASE e > Newest
    <3>1. e = Newest + 1 /\ Len(psets) = e /\ Newest > 0
      BY <2>1, <2>3
    <3>2. psets[e].fin = IF ~ Left(Newest) /\ pc[Lead] = "exit" THEN 1 ELSE 0
      BY <1>1, <3>1 DEF IInv, FinInv
    <3>3. ~ Left(Newest) /\ pc[Lead] = "exit" => psets[e].key # "main"
      BY <1>1, <3>1 DEF IInv, LeadInv, Asks, Announcing
    <3> QED
      BY <3>1, <3>2, <3>3
  <2> QED
    BY <2>1, <2>2, <2>3
<1>2. IInv => SetopsInOrder
  BY <1>1 DEF SetopsInOrder
<1> QED
  BY <1>2, Inductive, PTL

\* Processes that work together are in the same iteration, those that were
\* spawned meanwhile included: none of them leaves the main loop while another
\* goes into one more iteration.
THEOREM IterationsCorrect == Spec => []IterationsAgree
<1>1. ASSUME IInv, NEW p \in Procs, NEW q \in Procs, comm[p] # 0, comm[p] = comm[q],
             rank[q] # -1, pc[p] = "top", pc[q] \in {"top", "finalize", "exit"}
      PROVE  pc[q] = "top" /\ iter[p] = iter[q]
  <2> DEFINE e == comm[p]
  <2>1. ~ Leaves(p, e)
    BY <1>1 DEF Leaves, Ahead
  <2>2. /\ p # Lead => Follows(p, Lead, e)
        /\ q # Lead => Follows(q, Lead, e)
    BY <1>1, <2>1, Who
  <2>3. pc[Lead] = "top" /\ iter[p] = iter[Lead]
    BY <1>1, <2>2 DEF Follows, Near, InStep, Ending
  <2>4. pc[q] = "top"
    BY <1>1, <2>2, <2>3 DEF Follows, Near, Ending
  <2>5. iter[q] = iter[Lead]
    BY <2>2, <2>4 DEF Follows, InStep, Ending
  <2> QED
    BY <2>3, <2>4, <2>5
<1>2. IInv => IterationsAgree
  BY <1>1 DEF IterationsAgree
<1> QED
  BY <1>2, Inductive, PTL

\* What a spawned set is told stays: processes that were given their main set
\* are not told that the task is canceled, nor the reverse.
THEOREM KeyCorrect == Spec => KeyIsFinal
<1>1. ASSUME IInv, NEW p \in Procs, Step(p), NEW f \in Epochs, psets[f].key # "none"
      PROVE  psets'[f].key = psets[f].key
  <2>1. CASE comm[p] = 0
    <3>1. \/ psets' = psets
          \/ \E a \in BOOLEAN : psets' = [psets EXCEPT ![Newest + 1].ack = a]
      BY <1>1, <2>1, SpawnedSteps DEF SpawnedStep
    <3>2. psets[f] \in Pset /\ f \in DOMAIN psets
      BY <1>1, Types DEF Epochs
    <3>3. CASE \E a \in BOOLEAN : psets' = [psets EXCEPT ![Newest + 1].ack = a]
      <4>1. PICK a \in BOOLEAN : psets' = [psets EXCEPT ![Newest + 1].ack = a]
        BY <3>3
      <4>2. psets'[f] = psets[f] \/ psets'[f] = [psets[f] EXCEPT !.ack = a]
        BY <3>2, <4>1
      <4> QED
        BY <3>2, <4>2 DEF Pset
    <3> QED
      BY <3>1, <3>3
  <2>2. CASE comm[p] # 0
    <3> DEFINE e == comm[p]
    <3>1. /\ e \in 1 .. Newest /\ e > 0
          /\ ~ Left(e) => e = Newest
      <4>1. e \in 1 .. Newest /\ (~ Left(e) => e = Newest)
        BY <1>1, <2>2, Who
      <4> QED
        BY <1>1, <4>1, Types
    <3>2. CASE Left(e)
      <4>1. LeaverStep(p, e)
        BY <1>1, <3>1, <3>2, LeaverSteps
      <4> QED
        BY <4>1 DEF LeaverStep
    <3>3. CASE ~ Left(e) /\ p # Lead
      <4>1. FollowerStep(p, Lead, e)
        BY <1>1, <3>1, <3>3, FollowerSteps
      <4> QED
        BY <4>1 DEF FollowerStep
    <3>4. CASE ~ Left(e) /\ p = Lead
      <4>1. /\ Leads(p, e) /\ Asks(p, e) /\ psets \in Seq(Pset) /\ rank[p] = 0
        BY <1>1, <3>1, <3>4, Leader
      <4>2. Granted(p) /\ pc[p] \in {"check", "finalize"} =>
              out[p] = e + 1 /\ psets[e + 1].key = "none"
        BY <4>1 DEF Asks, Announcing
      <4>3. pc[p] = "check" => pending[p]
        BY <4>1 DEF Leads
      <4>4. \/ psets' = psets
            \/ \E g : psets' = Append(psets, g)
            \/ \E x, n : psets' = [psets EXCEPT ![x].fin = n]
            \/ /\ Granted(p) /\ pc[p] \in {"check", "finalize"}
               /\ \E k : psets' = [psets EXCEPT ![out[p]].key = k]
        <5>1. CASE Launch(p)
          BY <5>1 DEF Launch, SendIfRoot, SendSetop, NoSetop, runtimeVars
        <5>2. CASE AdaptBlocking(p)
          BY <5>2 DEF AdaptBlocking, SendIfRoot, SendSetop, NoSetop, runtimeVars
        <5>3. CASE AdaptNonBlocking(p) \/ SkipCheck(p)
          BY <5>3 DEF AdaptNonBlocking, SkipCheck, NoSetop, runtimeVars
        <5>4. CASE CheckSetop(p)
          BY <4>3, <5>4 DEF CheckSetop, SendSetop, runtimeVars, Granted
        <5>5. CASE AdaptNext(p)
          BY <5>5 DEF AdaptNext, SendIfRoot, SendSetop, NoSetop, runtimeVars
        <5>6. CASE FinalizeSetop(p)
          BY <5>6 DEF FinalizeSetop
        <5>7. CASE Finalize(p)
          <6>1. CASE pending[p] /\ rank[p] = 0 /\ setop[p] = "REPLACE"
            <7>1. Granted(p) /\ pc[p] = "finalize"
              BY <5>7, <6>1 DEF Finalize, Granted
            <7>2. \/ psets' = [psets EXCEPT ![out[p]].key = "canceled"]
                  \/ psets' = [psets EXCEPT ![out[p]].fin = @ + 1]
              BY <5>7, <6>1 DEF Finalize
            <7>3. CASE psets' = [psets EXCEPT ![out[p]].key = "canceled"]
              BY <7>1, <7>3
            <7>4. CASE psets' = [psets EXCEPT ![out[p]].fin = @ + 1]
              BY <7>4
            <7> QED
              BY <7>2, <7>3, <7>4
          <6>2. CASE ~ (pending[p] /\ rank[p] = 0 /\ setop[p] = "REPLACE")
            BY <5>7, <6>2 DEF Finalize
          <6> QED
            BY <6>1, <6>2
        <5>8. CASE AckWait(p)
          BY <5>8 DEF AckWait
        <5>9. CASE ExpandRecv(p) \/ CastFlag(p) \/ CastNames(p) \/ Disconnect(p) \/ ExpandSend(p)
          BY <5>9 DEF ExpandRecv, CastFlag, CastNames, Disconnect, ExpandSend, runtimeVars
        <5>10. ~ Lookup(p)
          <6>1. pc[p] # "spawned"
            BY <1>1, <2>2 DEF IInv, PlaceInv, PlaceOf, Outside
          <6> QED
            BY <6>1 DEF Lookup
        <5> QED
          BY <1>1, <5>1, <5>2, <5>3, <5>4, <5>5, <5>6, <5>7, <5>8, <5>9, <5>10 DEF Step
      <4>5. CASE \E g : psets' = Append(psets, g)
        BY <4>1, <4>5 DEF Epochs
      <4>6. CASE \E x, n : psets' = [psets EXCEPT ![x].fin = n]
        <5>1. PICK x, n : psets' = [psets EXCEPT ![x].fin = n]
          BY <4>6
        <5>2. psets[f] \in Pset /\ f \in DOMAIN psets
          BY <4>1 DEF Epochs
        <5>3. psets'[f] = psets[f] \/ psets'[f] = [psets[f] EXCEPT !.fin = n]
          BY <5>1, <5>2
        <5> QED
          BY <5>2, <5>3 DEF Pset
      <4>7. CASE /\ Granted(p) /\ pc[p] \in {"check", "finalize"}
                 /\ \E k : psets' = [psets EXCEPT ![out[p]].key = k]
        <5>1. f # out[p]
          BY <1>1, <4>2, <4>7
        <5> QED
          BY <4>1, <4>7, <5>1 DEF Epochs
      <4> QED
        BY <4>4, <4>5, <4>6, <4>7
    <3> QED
      BY <3>2, <3>3, <3>4
  <2> QED
    BY <2>1, <2>2
<1>2. IInv /\ [Next]_vars =>
        [\A e \in Epochs : psets[e].key # "none" => psets'[e].key = psets[e].key]_vars
  <2> SUFFICES ASSUME IInv, Next, NEW e \in Epochs, psets[e].key # "none"
               PROVE  psets'[e].key = psets[e].key
    OBVIOUS
  <2>1. CASE \E p \in Procs : Step(p)
    BY <1>1, <2>1
  <2>2. CASE \E c \in 1 .. MaxPsets : Collective(c)
    BY <2>2 DEF Collective, CommCreate, Barrier, runtimeVars
  <2> QED
    BY <2>1, <2>2 DEF Next
<1> QED
  BY <1>2, Inductive, PTL DEF Spec, KeyIsFinal

=============================================================================
