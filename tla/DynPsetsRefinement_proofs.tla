--------------------- MODULE DynPsetsRefinement_proofs ----------------------
(***************************************************************************)
(* The library keeps the promise of Malleable: each of its steps is one    *)
(* step of the abstract task, or none.  Processes are spawned when the     *)
(* leader's operation is granted, the team is replaced when the new        *)
(* communicator is made, and everything else moves a single process.       *)
(***************************************************************************)
EXTENDS DynPsetsSafety_proofs

\* A step the abstract task can take, or none.
TaskStep == Task!Next \/ (Life' = Life /\ Team' = Team)

\* The life of a process is told by its location.
LEMMA LifeOf ==
  /\ Life = [p \in Procs |-> Life[p]] /\ Life' = [p \in Procs |-> Life'[p]]
  /\ \A p \in Procs :
       Life[p] = IF pc[p] = "off" THEN "spare"
                 ELSE IF pc[p] \in {"spawned", "init"} THEN "waiting"
                 ELSE IF pc[p] = "crash" THEN "dismissed"
                 ELSE IF pc[p] = "exit" THEN "ended" ELSE "member"
  /\ \A p \in Procs :
       Life'[p] = IF pc'[p] = "off" THEN "spare"
                  ELSE IF pc'[p] \in {"spawned", "init"} THEN "waiting"
                  ELSE IF pc'[p] = "crash" THEN "dismissed"
                  ELSE IF pc'[p] = "exit" THEN "ended" ELSE "member"
BY DEF Life

\* The team only changes with the newest communicator.
LEMMA SameTeam ==
  ASSUME IInv, IInv', Len(log') = Len(log),
         Newest > 0 => psets'[Newest].members = psets[Newest].members
  PROVE  Team' = Team
<1>1. Len(log) \in Nat /\ (log = <<>> <=> Len(log) = 0)
  <2>1. log \in Seq(Seq(Message))
    BY DEF IInv
  <2> QED
    BY <2>1
<1>2. log' = <<>> <=> Len(log') = 0
  <2>1. log' \in Seq(Seq(Message))
    BY DEF IInv
  <2> QED
    BY <2>1
<1>3. Team' = IF log' = <<>> THEN {} ELSE ToSet(psets'[Len(log')].members)
  BY DEF Team, Members
<1>4. Team = IF log = <<>> THEN {} ELSE ToSet(psets[Len(log)].members)
  BY DEF Team, Members
<1> QED
  BY <1>1, <1>2, <1>3, <1>4 DEF Newest

\* A step that concerns one process: it ends, or is dismissed, or stays what it is.
LEMMA OneMoves ==
  ASSUME NEW p \in Procs, Team' = Team, \A q \in Procs : q # p => Life'[q] = Life[q],
         \/ Life'[p] = Life[p]
         \/ Life[p] = "member" /\ Life'[p] = "ended"
         \/ Life[p] = "waiting" /\ Life'[p] = "dismissed"
  PROVE  TaskStep
<1>1. CASE Life'[p] = Life[p]
  <2>1. \A q \in Procs : Life'[q] = Life[q]
    BY <1>1
  <2>2. Life' = Life
    BY <2>1, LifeOf
  <2> QED
    BY <2>2 DEF TaskStep
<1>2. ASSUME NEW from, NEW to, from # to, Life[p] = from, Life'[p] = to
      PROVE  Task!Change(from, to)
  <2>1. {p} \in SUBSET Task!With(from)
    BY <1>2 DEF Task!With
  <2>2. Life' = [q \in Procs |-> IF q \in {p} THEN to ELSE Life[q]]
    BY <1>2, LifeOf
  <2>3. Life' # Life
    BY <1>2
  <2> QED
    BY <2>1, <2>2, <2>3 DEF Task!Change
<1>3. CASE Life[p] = "member" /\ Life'[p] = "ended"
  BY <1>2, <1>3 DEF TaskStep, Task!Next, Task!End
<1>4. CASE Life[p] = "waiting" /\ Life'[p] = "dismissed"
  BY <1>2, <1>4 DEF TaskStep, Task!Next, Task!Dismiss
<1> QED
  BY <1>1, <1>3, <1>4

\* A process in a communicator that takes a step is a member before and a
\* member or ended afterwards.
LEMMA MemberMoves ==
  ASSUME IInv, IInv', NEW p \in Procs, comm[p] # 0, OnlyOf(p, pc, pc'), OnlyOf(p, main, main'),
         main'[p] >= main[p], pc[p] # "exit", pc'[p] \notin {"off", "spawned", "init", "crash"},
         Len(log') = Len(log), Newest > 0 => psets'[Newest].members = psets[Newest].members
  PROVE  TaskStep
<1>1. Team' = Team
  BY SameTeam
<1>2. \A q \in Procs : q # p => Life'[q] = Life[q]
  <2>1. \A q \in Procs : q # p => pc'[q] = pc[q] /\ main'[q] = main[q]
    BY Types DEF OnlyOf
  <2> QED
    BY <2>1, LifeOf
<1>3. pc[p] \notin Outside /\ main[p] > 0
  <2>1. PlaceOf(p) /\ main[p] \in Nat /\ comm[p] \in Nat
    BY Types DEF IInv, PlaceInv
  <2>2. pc[p] \notin Outside /\ main[p] >= comm[p]
    BY <2>1 DEF PlaceOf
  <2> QED
    BY <2>1, <2>2
<1>4. Life[p] = "member"
  BY <1>3, LifeOf DEF Outside
<1>5. Life'[p] \in {"member", "ended"}
  BY LifeOf
<1> QED
  BY <1>1, <1>2, <1>4, <1>5, OneMoves

\* A process outside of the communicators looks its main set up.
LEMMA SpawnedRefines ==
  ASSUME IInv, IInv', NEW p \in Procs, comm[p] = 0, Step(p)
  PROVE  TaskStep
<1>1. SpawnedStep(p)
  BY SpawnedSteps
<1>2. \A q \in Procs : q # p => Life'[q] = Life[q]
  <2>1. \A q \in Procs : q # p => pc'[q] = pc[q] /\ main'[q] = main[q]
    BY <1>1, Types DEF SpawnedStep, OnlyOf
  <2> QED
    BY <2>1, LifeOf
<1>3. Team' = Team
  <2>1. Len(log') = Len(log) /\ Newest + 1 # Newest /\ Newest \in Nat
    BY <1>1, Types DEF SpawnedStep
  <2>2. psets'[Newest].members = psets[Newest].members
    <3>1. \/ psets' = psets
          \/ \E a \in BOOLEAN : psets' = [psets EXCEPT ![Newest + 1].ack = a]
      BY <1>1 DEF SpawnedStep
    <3>2. psets \in Seq(Pset) /\ Newest \in DOMAIN psets
      BY <1>1, <2>1, Types DEF SpawnedStep
    <3> QED
      BY <2>1, <3>1, <3>2
  <2> QED
    BY <2>1, <2>2, SameTeam
<1>4. Life[p] = "waiting"
  BY <1>1, LifeOf DEF SpawnedStep
<1>5. Life'[p] \in {"waiting", "dismissed"}
  BY <1>1, LifeOf DEF SpawnedStep
<1> QED
  BY <1>2, <1>3, <1>4, <1>5, OneMoves

\* A process whose communicator has been left behind, or that follows the
\* leader, goes its way or ends.
LEMMA OthersRefine ==
  ASSUME IInv, IInv', NEW p \in Procs, comm[p] # 0, Left(comm[p]) \/ p # Lead, Step(p)
  PROVE  TaskStep
<1>1. pc[p] # "exit"
  BY DEF Step, Launch, Lookup, ExpandRecv, AdaptBlocking, AdaptNonBlocking, CheckSetop,
    SkipCheck, CastFlag, CastNames, Disconnect, ExpandSend, FinalizeSetop, AdaptNext,
    Finalize, AckWait
<1> DEFINE e == comm[p]
<1>2. /\ e \in 1 .. Newest /\ e \in Nat /\ e > 0 /\ main[p] \in Nat /\ main[p] >= e
  <2>1. e \in 1 .. Newest /\ main[p] >= e
    BY DEF IInv, PlaceInv, PlaceOf
  <2> QED
    BY <2>1, Types
<1>3. CASE Left(e)
  <2>1. LeaverStep(p, e)
    BY <1>2, <1>3, LeaverSteps
  <2>2. /\ psets' = psets /\ log' = log /\ OnlyOf(p, pc, pc') /\ OnlyOf(p, main, main')
        /\ main'[p] >= main[p]
    BY <1>2, <2>1 DEF LeaverStep
  <2>3. pc'[p] \notin {"off", "spawned", "init", "crash"}
    BY <2>1 DEF LeaverStep, Leaves, Ahead
  <2> QED
    BY <1>1, <2>2, <2>3, MemberMoves
<1>4. CASE ~ Left(e)
  <2>1. FollowerStep(p, Lead, e)
    BY <1>2, <1>4, FollowerSteps
  <2>2. /\ psets' = psets /\ log' = log /\ OnlyOf(p, pc, pc') /\ main' = main
        /\ pc'[p] \notin {"off", "spawned", "init", "crash"}
    BY <2>1 DEF FollowerStep, Outside
  <2>3. OnlyOf(p, main, main') /\ main'[p] >= main[p]
    BY <1>2, <2>2, Types DEF OnlyOf
  <2> QED
    BY <1>1, <2>2, <2>3, MemberMoves
<1> QED
  BY <1>3, <1>4

\* The leader is granted an operation: processes are spawned, if it adds any.
LEMMA GrowRefines ==
  ASSUME IInv, IInv', NEW e, e = Newest, e > 0, NEW r \in Procs, comm[r] = e, Grows(r, e),
         Len(log') = Len(log), main'[r] >= main[r], OnlyOf(r, main, main'),
         pc[r] # "exit", pc'[r] \notin {"off", "spawned", "init", "crash", "exit"}
  PROVE  TaskStep
<1> DEFINE new == psets'[e + 1].added
<1>1. /\ Len(psets) = e /\ psets'[e] = psets[e] /\ e \in Nat /\ e # e + 1
      /\ \A q \in new : pc[q] = "off"
      /\ \A q \in Procs : pc'[q] = IF q = r THEN pc'[r] ELSE IF q \in new THEN "spawned" ELSE pc[q]
      /\ \A q \in Procs : q # r => main'[q] = main[q]
  <2>1. \A q \in Procs : pc'[q] = IF q = r THEN pc'[r] ELSE IF q \in new THEN "spawned" ELSE pc[q]
    BY DEF Grows
  <2>2. \A q \in Procs : q # r => main'[q] = main[q]
    BY Types DEF OnlyOf
  <2> QED
    BY <2>1, <2>2, Types DEF Grows
<1>2. new \subseteq Procs
  <2>1. psets' \in Seq(Pset) /\ Len(psets') = e + 1 /\ e + 1 \in 1 .. e + 1
    BY <1>1 DEF IInv, TypeOK, Grows, Pset
  <2>2. psets'[e + 1] \in Pset
    BY <2>1
  <2> QED
    BY <2>2 DEF Pset
<1> HIDE DEF new
<1>3. Team' = Team
  BY <1>1, SameTeam
<1>4. ASSUME NEW q \in Procs
      PROVE  Life[q] \notin {"waiting", "dismissed"}
  <2>1. PlaceOf(q) /\ Len(psets) # Newest + 1
    BY <1>1 DEF IInv, PlaceInv
  <2>2. pc[q] \notin {"spawned", "init"} /\ ~ Dismissed(q)
    BY <2>1 DEF PlaceOf
  <2> QED
    BY <2>2, LifeOf DEF Dismissed
<1>5. pc[r] \notin {"off", "spawned", "init", "crash", "exit"}
  BY DEF IInv, PlaceInv, PlaceOf, Outside
<1>6. Life[r] = "member" /\ Life'[r] = "member" /\ r \notin new
  BY <1>1, <1>5, LifeOf
<1>7. \A q \in new : Life[q] = "spare"
  BY <1>1, <1>2, LifeOf
<1>8. Life' = [q \in Procs |-> IF q \in new THEN "waiting" ELSE Life[q]]
  <2>1. ASSUME NEW q \in Procs PROVE Life'[q] = IF q \in new THEN "waiting" ELSE Life[q]
    <3>1. CASE q = r
      BY <1>6, <3>1
    <3>2. CASE q # r /\ q \in new
      BY <1>1, <3>2, LifeOf
    <3>3. CASE q # r /\ q \notin new
      BY <1>1, <3>3, LifeOf
    <3> QED
      BY <3>1, <3>2, <3>3
  <2> QED
    BY <2>1, LifeOf
<1>9. CASE new = {}
  <2>1. Life' = [q \in Procs |-> Life[q]]
    BY <1>8, <1>9
  <2> QED
    BY <1>3, <2>1, LifeOf DEF TaskStep
<1>10. CASE new # {}
  <2>1. Life' # Life
    <3>1. PICK q \in new : TRUE
      BY <1>10
    <3> QED
      BY <1>2, <1>7, <1>8, <3>1
  <2>2. new \in SUBSET Task!With("spare")
    BY <1>2, <1>7 DEF Task!With
  <2>3. Task!With("waiting") = {} /\ Task!With("dismissed") = {}
    BY <1>4 DEF Task!With
  <2>4. Task!Change("spare", "waiting")
    BY <1>3, <1>8, <2>1, <2>2 DEF Task!Change
  <2> QED
    BY <2>3, <2>4 DEF TaskStep, Task!Next, Task!Spawn
<1> QED
  BY <1>9, <1>10

\* A step of rank 0 is one of the abstract task, or changes nothing for it.
LEMMA LeaderRefines ==
  ASSUME IInv, IInv', NEW r \in Procs, comm[r] # 0, ~ Left(comm[r]), r = Lead, Step(r)
  PROVE  TaskStep
<1> DEFINE e == comm[r]
<1>1. e = Newest /\ e \in Nat /\ e > 0 /\ Newest \in Epochs /\ main[r] \in Nat
  <2>1. e = Newest /\ e \in 1 .. Newest /\ e \in Epochs
    BY Who
  <2> QED
    BY <2>1, Types
<1>2. pc[r] # "exit"
  BY DEF Step, Launch, Lookup, ExpandRecv, AdaptBlocking, AdaptNonBlocking, CheckSetop,
    SkipCheck, CastFlag, CastNames, Disconnect, ExpandSend, FinalizeSetop, AdaptNext,
    Finalize, AckWait
<1>3. CASE pc[r] = "names"
  <2>1. CastNames(r)
    BY <1>3 DEF Step, Launch, Lookup, ExpandRecv, AdaptBlocking, AdaptNonBlocking, CheckSetop,
      SkipCheck, CastFlag, CastNames, Disconnect, ExpandSend, FinalizeSetop, AdaptNext,
      Finalize, AckWait
  <2>2. rank[r] = 0
    BY <1>1, Leader
  <2>3. CastSend(r, "names", main[r]) /\ AfterNames(r, main[r]) /\ main' = main /\ psets' = psets
    BY <2>1, <2>2 DEF CastNames, CastReady
  <2>4. Len(log') = Len(log)
    <3>1. log \in Seq(Seq(Message))
      BY Types
    <3> QED
      BY <2>3, <3>1 DEF CastSend
  <2>5. OnlyOf(r, pc, pc') /\ pc'[r] \notin {"off", "spawned", "init", "crash"}
    BY <2>3, Types DEF AfterNames, OnlyOf
  <2>6. OnlyOf(r, main, main') /\ main'[r] >= main[r]
    BY <1>1, <2>3, Types DEF OnlyOf
  <2> QED
    BY <1>2, <2>3, <2>4, <2>5, <2>6, MemberMoves
<1>4. CASE pc[r] # "names"
  <2>1. LeaderStep(r, e)
    BY <1>1, <1>4, LeaderSteps
  <2>2. /\ Len(log') = Len(log) /\ OnlyOf(r, main, main') /\ pc'[r] \notin Outside
        /\ Keeps(r, e) \/ Grows(r, e)
    BY <2>1 DEF LeaderStep, LeaderFrame
  <2>3. main'[r] >= main[r]
    <3>1. main'[r] \in main[r] .. Len(psets') /\ Len(psets') \in Int
      <4>1. psets' \in Seq(Pset)
        BY <2>1 DEF LeaderStep, LeaderFrame
      <4> QED
        BY <2>1, <4>1 DEF LeaderStep, LeaderFrame
    <3> QED
      BY <1>1, <3>1
  <2>4. CASE Keeps(r, e)
    <3>1. OnlyOf(r, pc, pc') /\ psets'[Newest].members = psets[Newest].members
      BY <1>1, <2>4 DEF Keeps, Kept
    <3> QED
      BY <1>2, <2>2, <2>3, <3>1, MemberMoves DEF Outside
  <2>5. CASE Grows(r, e)
    <3>1. Len(psets') # Len(psets)
      BY <1>1, <2>5 DEF Grows
    <3>2. ~ Finalize(r) /\ ~ AckWait(r)
      <4>1. \A x, k : Len([psets EXCEPT ![x].key = k]) = Len(psets)
        BY Types
      <4>2. \A x, k : Len([psets EXCEPT ![x].fin = k]) = Len(psets)
        BY Types
      <4> QED
        BY <3>1, <4>1, <4>2 DEF Finalize, AckWait
    <3>3. pc'[r] # "exit"
      <4>1. LeaderMoves(r, e)
        BY <2>1 DEF LeaderStep
      <4>2. pc[r] \notin {"finalize", "ackwait"}
        BY <3>2 DEF Step, Launch, Lookup, ExpandRecv, AdaptBlocking, AdaptNonBlocking, CheckSetop,
          SkipCheck, CastFlag, CastNames, Disconnect, ExpandSend, FinalizeSetop, AdaptNext,
          Finalize, AckWait
      <4> QED
        BY <4>1, <4>2 DEF LeaderMoves, Walks, Tells
    <3> QED
      BY <1>1, <1>2, <2>2, <2>3, <2>5, <3>3, GrowRefines DEF Outside
  <2> QED
    BY <2>2, <2>4, <2>5
<1> QED
  BY <1>3, <1>4

\* All who stay and all who wait make the new communicator.
LEMMA CreateRefines ==
  ASSUME IInv, IInv', NEW e \in Epochs, CommCreate(e)
  PROVE  TaskStep
<1>0. PICK r : r = Root(e)
  OBVIOUS
<1>1. /\ \A p \in Members(e) : pc[p] \in {"init", "create"} /\ main[p] = e
      /\ log' = Append(log, <<>>) /\ psets' = psets /\ main' = main
      /\ pc' = [p \in Procs |->
                  IF p \notin Members(e) THEN pc[p]
                  ELSE IF pc[p] = "create" THEN "user"
                  ELSE IF p \in Orig THEN "launch" ELSE "exprecv"]
  BY DEF CommCreate
<1>2. /\ e = Newest + 1 /\ e = Len(psets) /\ r \in Members(e) /\ Members(e) \subseteq Procs
      /\ e > 1 => psets[e].key = "main"
      /\ Newest \in Nat /\ log \in Seq(Seq(Message))
  BY <1>0, <1>1, CreateIsNext, Types
<1>3. ASSUME NEW q \in Members(e)
      PROVE  /\ e = 1 => pc[q] = "init"
             /\ e > 1 /\ q \notin psets[e].added => pc[q] = "create"
             /\ e > 1 /\ q \in psets[e].added => pc[q] = "init"
  BY <1>0, <1>1, CreateIsNext
<1>4. Team' = Members(e) /\ Team = IF e = 1 THEN {} ELSE Members(e - 1)
  <2>1. log' # <<>> /\ Len(log') = e /\ (log = <<>> <=> e = 1) /\ Len(log) = e - 1
    BY <1>1, <1>2 DEF Newest
  <2>2. Team' = ToSet(psets'[Len(log')].members)
    BY <2>1 DEF Team, Members
  <2> QED
    BY <1>1, <2>1, <2>2 DEF Team, Members
<1>5. ASSUME NEW q \in Procs
      PROVE  /\ pc[q] \in {"spawned", "init", "create"} \/ Dismissed(q) => q \in Members(e)
             /\ ~ Dismissed(q)
             /\ Life[q] # "dismissed"
             /\ Life[q] = "waiting" <=> (q \in Members(e) /\ pc[q] = "init")
             /\ pc[q] = "create" => q \in Members(e - 1) /\ e # 1
  <2>1. PlaceOf(q) /\ e - 1 = Newest /\ e \in Nat
    BY <1>2 DEF IInv, PlaceInv
  <2>2. pc[q] \in {"spawned", "init", "create"} \/ Dismissed(q) => q \in Members(e)
    BY <1>2, <2>1 DEF PlaceOf
  <2>3. ~ Dismissed(q)
    BY <1>2, <2>1 DEF PlaceOf
  <2>4. Life[q] # "dismissed"
    BY <2>3, LifeOf DEF Dismissed
  <2>5. Life[q] = "waiting" <=> (q \in Members(e) /\ pc[q] = "init")
    BY <1>1, <2>2, LifeOf
  <2>6. pc[q] = "create" => q \in Members(e - 1) /\ e # 1
    BY <2>1 DEF PlaceOf
  <2> QED
    BY <2>2, <2>3, <2>4, <2>5, <2>6
<1>6. Life' = [q \in Procs |-> IF q \in Members(e) THEN "member" ELSE Life[q]]
  <2>1. ASSUME NEW q \in Procs PROVE Life'[q] = IF q \in Members(e) THEN "member" ELSE Life[q]
    <3>1. CASE q \in Members(e)
      <4>1. pc'[q] \in {"user", "launch", "exprecv"}
        BY <1>1, <3>1
      <4> QED
        BY <3>1, <4>1, LifeOf
    <3>2. CASE q \notin Members(e)
      BY <1>1, <3>2, LifeOf
    <3> QED
      BY <3>1, <3>2
  <2> QED
    BY <2>1, LifeOf
<1>7. CASE Team' = Team
  <2>1. ASSUME NEW q \in Members(e) PROVE Life[q] = "member"
    <3>1. e > 1
      BY <1>2, <1>4, <1>7
    <3>2. psets[e].added \cap Members(e - 1) = {}
      BY <1>2, <3>1 DEF IInv, SetsInv, IsMainSet
    <3>3. pc[q] = "create"
      BY <1>3, <1>4, <1>7, <3>1, <3>2
    <3> QED
      BY <1>2, <3>3, LifeOf
  <2>2. Life' = [q \in Procs |-> Life[q]]
    BY <1>6, <2>1
  <2> QED
    BY <1>7, <2>2, LifeOf DEF TaskStep
<1>8. CASE Team' # Team
  <2> DEFINE stay == {q \in Members(e) : pc[q] = "create"}
  <2>1. stay \in SUBSET (Team \ Task!With("ended"))
    <3>1. ASSUME NEW q \in stay PROVE q \in Team /\ q \notin Task!With("ended")
      <4>1. q \in Members(e - 1) /\ e # 1 /\ Life[q] = "member"
        BY <1>2, <1>5, LifeOf
      <4> QED
        BY <1>4, <4>1 DEF Task!With
    <3> QED
      BY <3>1
  <2>2. Team' = stay \cup Task!With("waiting")
    <3>1. Task!With("waiting") = {q \in Members(e) : pc[q] = "init"}
      BY <1>2, <1>5 DEF Task!With
    <3> QED
      BY <1>1, <1>4, <3>1
  <2>3. Task!With("dismissed") = {}
    BY <1>5 DEF Task!With
  <2>4. Team' # {}
    BY <1>2, <1>4
  <2>5. Life' = [q \in Procs |-> IF q \in Team' THEN "member" ELSE Life[q]]
    BY <1>4, <1>6
  <2> HIDE DEF stay
  <2>6. Task!Switch
    BY <1>8, <2>1, <2>2, <2>3, <2>4, <2>5 DEF Task!Switch
  <2> QED
    BY <2>6 DEF TaskStep, Task!Next
<1> QED
  BY <1>7, <1>8

\* A barrier changes nothing the abstract task knows of.
LEMMA BarrierRefines ==
  ASSUME IInv, IInv', NEW e \in Epochs, Barrier(e)
  PROVE  TaskStep
<1>1. /\ \A p \in Members(e) : comm[p] = e /\ pc[p] \in Barriers
      /\ pc' = [p \in Procs |-> IF p \in Members(e) THEN AfterBarrier(p) ELSE pc[p]]
      /\ psets' = psets /\ log' = log /\ main' = main
  BY DEF Barrier, runtimeVars
<1>2. Team' = Team
  BY <1>1, SameTeam
<1>3. ASSUME NEW q \in Procs PROVE Life'[q] = Life[q]
  <2>1. CASE q \in Members(e)
    <3>1. pc'[q] \in {"top", "adapt", "bottom", "finalize"}
      BY <1>1, <2>1 DEF AfterBarrier, Barriers
    <3> QED
      BY <1>1, <2>1, <3>1, LifeOf DEF Barriers
  <2>2. CASE q \notin Members(e)
    BY <1>1, <2>2, LifeOf
  <2> QED
    BY <2>1, <2>2
<1> QED
  BY <1>2, <1>3, LifeOf DEF TaskStep

\* Initial states are initial states of the abstract task.
LEMMA InitRefines == Init => Task!Init
<1> SUFFICES ASSUME Init PROVE Task!Init
  OBVIOUS
<1>1. pc = [p \in Procs |-> IF p \in Orig THEN "init" ELSE "off"] /\ log = <<>>
  BY DEF Init
<1>2. \A p \in Procs : Life[p] \in {"spare", "waiting"} /\ (p \in Orig => Life[p] = "waiting")
  BY <1>1, LifeOf
<1>3. 1 \in Procs /\ 1 \in Orig
  <2>1. Procs = 1 .. Cardinality(Procs) /\ Cardinality(Procs) \in Nat
    BY ProcsAssumption, FS_CardinalityType
  <2>2. use.numOrig \in Procs
    BY UsesAssumption DEF Init, Use
  <2> QED
    BY <2>1, <2>2 DEF Orig
<1>4. Life \in [Procs -> {"spare", "waiting"}] /\ Task!With("waiting") # {}
  BY <1>2, <1>3, LifeOf DEF Task!With
<1>5. Team = {}
  BY <1>1 DEF Team
<1> QED
  BY <1>4, <1>5 DEF Task!Init

\* The library keeps the promise of a malleable task, for any number of
\* processes and any tasks: the processes of a spawned set join all at once,
\* with all who stay, or are dismissed because the task ends, and nobody who
\* has ended is in a later team.
THEOREM RefinesMalleable == Spec => ImplementsMalleable
<1>1. Init => Task!Init
  BY InitRefines
<1>2. IInv /\ IInv' /\ [Next]_vars => [Task!Next]_(Task!vars)
  <2> SUFFICES ASSUME IInv, IInv', [Next]_vars PROVE TaskStep
    BY DEF TaskStep, Task!vars
  <2>1. CASE \E p \in Procs : Step(p)
    <3>1. PICK p \in Procs : Step(p)
      BY <2>1
    <3> QED
      BY <3>1, SpawnedRefines, OthersRefine, LeaderRefines
  <2>2. CASE \E e \in 1 .. MaxPsets : Collective(e)
    BY <2>2, CreateRefines, BarrierRefines DEF Collective, Epochs
  <2>3. CASE UNCHANGED vars
    <3>1. pc' = pc /\ main' = main /\ log' = log /\ psets' = psets
      BY <2>3 DEF vars
    <3>2. Life' = Life
      BY <3>1, LifeOf
    <3> QED
      BY <3>1, <3>2, SameTeam DEF TaskStep
  <2> QED
    BY <2>1, <2>2, <2>3 DEF Next
<1> QED
  BY <1>1, <1>2, Inductive, PTL DEF Spec, ImplementsMalleable, Task!Spec

=============================================================================
