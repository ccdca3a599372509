------------------------ MODULE DynPsetsLead_proofs ------------------------
(***************************************************************************)
(* Rank 0 of the newest communicator of DynPsets: no step of it breaks the *)
(* invariant of DynPsets_proofs.  FollowersStay is the heart of it: rank 0 *)
(* may go on as far as its guards allow, without waiting for the others,   *)
(* and every other member still is where its position bounds it to.        *)
(***************************************************************************)
EXTENDS DynPsets_proofs

\* What the leader r of communicator e does without telling anybody.
Walks(r, e) ==
  \/ pc[r] = "launch" /\ pc'[r] = "entry" /\ pending'[r] = use.initInfo
  \/ Ahead(r) /\ pc[r] = "adapt" /\ pc'[r] = "check" /\ pending'[r] = TRUE
  \/ pc[r] = "handled" /\ pc'[r] = "bottom" /\ pending'[r] = TRUE
  \/ /\ pending'[r] = pending[r]
     /\ \/ Idle(r) /\ pc'[r] = "handled"
        \/ pc[r] = "check" /\ pc'[r] = "flag"
        \/ pc[r] = "user" /\ psets[e].added = {} /\ pc'[r] = "finop"
        \/ pc[r] = "finop" /\ pc'[r] = IF use.nonBlocking THEN "handled" ELSE "bottom"
        \/ pc[r] \in {"finalize", "ackwait"} /\ pc'[r] \in {"ackwait", "exit"}

\* What it tells: its iteration, or whether there is a new set.
Tells(r, e) ==
  /\ pending'[r] = pending[r]
  /\ \/ /\ pc[r] = "user" /\ psets[e].added # {} /\ pc'[r] = "finop"
        /\ log'[e] = Append(log[e], [kind |-> "user", val |-> iter[r]])
     \/ \E f \in BOOLEAN :
          /\ pc[r] = "flag" /\ pc'[r] = IF f THEN "names" ELSE "bottom"
          /\ log'[e] = Append(log[e], FlagMessage(f))

LeaderMoves(r, e) ==
  /\ use' = use /\ iter'[r] = iter[r] /\ psets'[e].added = psets[e].added
  /\ (Walks(r, e) /\ log'[e] = log[e]) \/ Tells(r, e)

\* A follower that stands still follows the leader that moves.
LEMMA FollowersStay ==
  ASSUME IInv, NEW e, e = Newest, e > 0, ~ Left(e), NEW r, r = Lead, LeaderMoves(r, e),
         NEW q \in Members(e), q # r, SameAt(q)
  PROVE  Follows(q, r, e)' /\ Agrees(q, r, e)'
<1>1. /\ Follows(q, r, e) /\ Agrees(q, r, e) /\ Leads(r, e) /\ e \in Nat
      /\ log[e] \in Seq(Message) /\ Len(log[e]) \in Nat
  <2>1. log[e] \in Seq(Message)
    BY Types DEF Newest
  <2>2. q \in Procs /\ Len(log[e]) \in Nat /\ e \in Nat
    BY SMTT(30), <2>1, Ranks, Types DEF IInv, Epochs
  <2> QED
    BY <2>1, <2>2 DEF IInv, TeamInv, LeadInv
<1>2. /\ Near(q, r, e) /\ Heard(q, r, e) /\ InStep(q, r, e)
      /\ rank[q] \notin {0, -1} /\ main[q] = e
  BY <1>1 DEF Follows
<1>3. /\ pc'[q] = pc[q] /\ pending'[q] = pending[q] /\ idx'[q] = idx[q] /\ iter'[q] = iter[q]
      /\ rank'[q] \notin {0, -1} /\ main'[q] = e
      /\ use' = use /\ iter'[r] = iter[r] /\ psets'[e].added = psets[e].added
  BY <1>2 DEF SameAt, LeaderMoves
<1>4. InStep(q, r, e)'
  BY <1>2, <1>3 DEF InStep
<1> USE DEF Ahead, Idle, Loop, Ending, Barriers, Due, Latest
<1>5. CASE Walks(r, e) /\ log'[e] = log[e]
  <2>1. Near(q, r, e)'
    BY <1>1, <1>2, <1>3, <1>5 DEF Walks, Near, Leads
  <2>2. Heard(q, r, e)'
    BY <1>1, <1>2, <1>3, <1>5 DEF Walks, Near, Heard, Leads
  <2>3. Agrees(q, r, e)'
    BY ZenonT(60), <1>1, <1>2, <1>3, <1>5 DEF Walks, Near, Agrees, Leads
  <2> QED
    BY <1>3, <1>4, <2>1, <2>2, <2>3 DEF Follows
<1>6. CASE Tells(r, e)
  <2>1. CASE /\ pc[r] = "user" /\ psets[e].added # {} /\ pc'[r] = "finop"
             /\ log'[e] = Append(log[e], [kind |-> "user", val |-> iter[r]])
    <3>1. pc[q] \in {"exprecv", "user", "finalize", "exit"}
      BY <1>1, <1>2, <2>1 DEF Near, Leads
    <3>2. pc[q] \in {"exprecv", "user"}
      BY <1>2, <2>1, <3>1 DEF Near
    <3>3. Len(log'[e]) = 1 /\ log'[e][1] = [kind |-> "user", val |-> iter[r]]
      BY <1>1, <2>1 DEF Leads
    <3>4. Near(q, r, e)'
      BY <1>3, <2>1, <3>2 DEF Near
    <3>5. Heard(q, r, e)'
      BY <1>2, <1>3, <2>1, <3>2, <3>3 DEF Heard
    <3>6. Agrees(q, r, e)'
      BY <1>1, <1>3, <2>1, <3>2 DEF Agrees
    <3> QED
      BY <1>3, <1>4, <3>4, <3>5, <3>6 DEF Follows
  <2>2. CASE \E f \in BOOLEAN :
               /\ pc[r] = "flag" /\ pc'[r] = IF f THEN "names" ELSE "bottom"
               /\ log'[e] = Append(log[e], FlagMessage(f))
    <3>1. PICK f \in BOOLEAN :
            /\ pc[r] = "flag" /\ pc'[r] = IF f THEN "names" ELSE "bottom"
            /\ log'[e] = Append(log[e], FlagMessage(f))
      BY <2>2
    <3>2. Ahead(q)
      BY <1>1, <1>2, <3>1 DEF Near, Leads
    <3>3. pending'[r] = pending[r] /\ pending[r]
      BY <1>1, <1>6, <3>1 DEF Tells, Leads
    <3>4. idx[q] = Len(log[e])
      BY <1>2, <3>1, <3>2 DEF Heard
    <3>5. Len(log'[e]) = Len(log[e]) + 1 /\ log'[e][Len(log'[e])] = FlagMessage(f)
      <4> DEFINE m == FlagMessage(f)
      <4>1. log'[e] = Append(log[e], m)
        BY <3>1
      <4> HIDE DEF m
      <4>2. Len(log'[e]) = Len(log[e]) + 1 /\ log'[e][Len(log[e]) + 1] = m
        BY <1>1, <4>1
      <4> QED
        BY <4>2 DEF m
    <3>6. f = (pc'[r] = "names") /\ idx[q] = Len(log'[e]) - 1
      BY <1>1, <3>1, <3>4, <3>5
    <3>7. Near(q, r, e)'
      BY <1>3, <3>1, <3>2 DEF Near
    <3>8. Heard(q, r, e)'
      BY <1>3, <3>1, <3>2, <3>5, <3>6 DEF Heard
    <3>9. Agrees(q, r, e)'
      BY <1>1, <1>3, <3>1, <3>2, <3>3 DEF Agrees
    <3> QED
      BY <1>3, <1>4, <3>7, <3>8, <3>9 DEF Follows
  <2> QED
    BY <1>6, <2>1, <2>2 DEF Tells
<1> QED
  BY <1>5, <1>6 DEF LeaderMoves

-----------------------------------------------------------------------------
(* What a step of the leader may change. *)

\* How far the operations on set e and on the next one have been finalized.
FinOf(r, e) ==
  /\ psets[e].fin = IF e = 1 \/ pc[r] \in {"user", "finop"} THEN 0 ELSE 1
  /\ Len(psets) = e + 1 => psets[e + 1].fin = IF pc[r] = "exit" THEN 1 ELSE 0

\* No set is made; what the next one is told, it is told once.
Keeps(r, e) ==
  /\ Kept /\ OnlyOf(r, pc, pc')
  /\ \/ psets'[Len(psets)].key = psets[Len(psets)].key
     \/ psets[Len(psets)].key = "none"

\* The runtime makes set e + 1 and spawns the processes it adds.
Grows(r, e) ==
  /\ Len(psets) = e /\ Len(psets') = e + 1 /\ psets'[e] = psets[e]
  /\ IsMainSet(e + 1)'
  /\ \A q \in psets'[e + 1].added : pc[q] = "off"
  /\ pc' = [q \in Procs |-> IF q = r THEN pc'[r]
                            ELSE IF q \in psets'[e + 1].added THEN "spawned" ELSE pc[q]]

LeaderFrame(r, e) ==
  /\ UNCHANGED <<use, comm, rank, iter>>
  /\ OnlyOf(r, main, main') /\ OnlyOf(r, pending, pending') /\ OnlyOf(r, setop, setop')
  /\ OnlyOf(r, out, out') /\ OnlyOf(r, idx, idx') /\ OnlyOf(r, flagOf, flagOf')
  /\ main'[r] \in main[r] .. Len(psets') /\ pending'[r] \in BOOLEAN
  /\ setop'[r] \in {"unset", "NULL", "REPLACE"} /\ out'[r] \in 0 .. Len(psets')
  /\ idx'[r] \in Nat /\ flagOf'[r] \in BOOLEAN /\ pc'[r] \in Locations \ Outside
  /\ log' \in Seq(Seq(Message)) /\ Len(log') = Len(log)
  /\ \A f \in 1 .. e - 1 : log'[f] = log[f] /\ psets'[f] = psets[f]
  /\ psets' \in Seq(Pset)
  /\ Keeps(r, e) \/ Grows(r, e)

LeaderStep(r, e) ==
  /\ LeaderFrame(r, e) /\ LeaderMoves(r, e) /\ ~ Left(e)'
  /\ Leads(r, e)' /\ Asks(r, e)' /\ Agrees(r, r, e)' /\ FinOf(r, e)'

\* Whatever fits the summary of a step of rank 0 keeps the invariant.
LEMMA LeaderKeeps ==
  ASSUME IInv, NEW e, e = Newest, e > 0, ~ Left(e), NEW r, r = Lead, LeaderStep(r, e)
  PROVE  IInv'
<1>1. /\ e \in Nat /\ e \in Epochs /\ r \in Procs /\ r \in Members(e)
      /\ Members(e) \subseteq Procs /\ Newest' = e
      /\ Len(psets) \in {e, e + 1} /\ 1 \in Epochs /\ 1 \in 1 .. e
      /\ \A f \in 1 .. e : f \in Epochs
  <2>1. e \in Nat /\ e \in Epochs /\ Len(psets) \in {e, e + 1} /\ 1 \in Epochs
    BY Types DEF Epochs, IInv, SetsInv, Newest
  <2>2. Newest' = e
    BY DEF LeaderStep, LeaderFrame, Newest
  <2> QED
    BY SMTT(30), <2>1, <2>2, Ranks, Types DEF IInv, Lead, Epochs
<1>2. /\ Leads(r, e) /\ comm[r] = e /\ comm'[r] = e
      /\ pc[r] \notin Outside /\ pc'[r] \notin Outside
      /\ main[r] \in Nat /\ main'[r] \in Nat /\ main'[r] >= main[r]
  <2>0. main[r] \in Nat /\ main'[r] \in Nat /\ main'[r] >= main[r]
    <3>1. main[r] \in Nat /\ main'[r] \in main[r] .. Len(psets')
      BY <1>1, Types DEF LeaderStep, LeaderFrame
    <3>2. Len(psets') \in Nat
      BY <1>1 DEF LeaderStep, LeaderFrame, Keeps, Kept, Grows
    <3> QED
      BY <3>1, <3>2
  <2>1. Leads(r, e)
    BY DEF IInv, LeadInv
  <2>2. comm[r] = e /\ e # 0
    BY <1>1, <2>1 DEF Leads
  <2>3. PlaceOf(r)
    BY <1>1 DEF IInv, PlaceInv
  <2> QED
    BY <2>0, <2>1, <2>2, <2>3 DEF PlaceOf, LeaderStep, LeaderFrame
<1>3. \A f \in 1 .. e : psets'[f].members = psets[f].members /\ psets'[f].added = psets[f].added
                        /\ psets'[f].removed = psets[f].removed /\ Members(f)' = Members(f)
  <2>1. ASSUME NEW f \in 1 .. e
        PROVE  psets'[f].members = psets[f].members /\ psets'[f].added = psets[f].added
               /\ psets'[f].removed = psets[f].removed
    <3>1. CASE f = e
      BY <1>1, <3>1 DEF LeaderStep, LeaderFrame, Keeps, Kept, Grows
    <3>2. CASE f # e
      <4>1. f \in 1 .. e - 1
        BY <1>1, <3>2
      <4> QED
        BY <4>1 DEF LeaderStep, LeaderFrame
    <3> QED
      BY <3>1, <3>2
  <2> QED
    BY <2>1 DEF Members
<1>4. Lead' = r
  BY <1>1, <1>3 DEF Lead, Root
\* The processes that the step leaves as they are.
<1>5. ASSUME NEW q \in Procs, q # r, pc'[q] = pc[q]
      PROVE  SameAt(q)
  BY <1>1, <1>5, Types DEF LeaderStep, LeaderFrame, OnlyOf, SameAt
<1>6. ASSUME NEW q \in Procs, q # r, comm[q] # 0 \/ pc[q] # "off"
      PROVE  SameAt(q)
  <2>1. pc[q] # "off"
    BY <1>6 DEF IInv, PlaceInv, PlaceOf, Outside
  <2>2. pc'[q] = pc[q]
    <3>1. CASE Keeps(r, e)
      BY <1>1, <1>6, <3>1, Types DEF Keeps, OnlyOf
    <3>2. CASE Grows(r, e)
      <4>1. q \notin psets'[e + 1].added
        BY <2>1, <3>2 DEF Grows
      <4> QED
        BY <1>6, <3>2, <4>1 DEF Grows
    <3> QED
      BY <3>1, <3>2 DEF LeaderStep, LeaderFrame
  <2> QED
    BY <1>5, <1>6, <2>2
<1>7. TypeOK'
  <2>1. pc' \in [Procs -> Locations]
    <3>1. CASE Keeps(r, e)
      BY <1>1, <3>1, OnlyType, Types DEF Keeps, LeaderStep, LeaderFrame
    <3>2. CASE Grows(r, e)
      BY SMTT(30), <1>1, <3>2, Types DEF Grows, LeaderStep, LeaderFrame, Locations
    <3> QED
      BY <3>1, <3>2 DEF LeaderStep, LeaderFrame
  <2>2. Len(psets) <= Len(psets') /\ Len(psets') \in Nat
    BY <1>1 DEF LeaderStep, LeaderFrame, Keeps, Kept, Grows
  <2>3. /\ main \in [Procs -> 0 .. Len(psets')] /\ comm \in [Procs -> 0 .. Len(psets')]
        /\ out \in [Procs -> 0 .. Len(psets')] /\ iter \in [Procs -> 0 .. use.iterations]
    <3>1. 0 .. Len(psets) \subseteq 0 .. Len(psets')
      BY <1>1, <2>2
    <3>2. main \in [Procs -> 0 .. Len(psets)] /\ comm \in [Procs -> 0 .. Len(psets)]
          /\ out \in [Procs -> 0 .. Len(psets)] /\ iter \in [Procs -> 0 .. use.iterations]
      BY DEF IInv, TypeOK
    <3> QED
      BY <3>1, <3>2
  <2>4. main'[r] \in 0 .. Len(psets')
    BY <1>1, <1>2, <2>2 DEF LeaderStep, LeaderFrame
  <2>5. main' \in [Procs -> 0 .. Len(psets')] /\ out' \in [Procs -> 0 .. Len(psets')]
    BY <1>1, <2>3, <2>4, OnlyType DEF LeaderStep, LeaderFrame
  <2>6. /\ pending' \in [Procs -> BOOLEAN] /\ idx' \in [Procs -> Nat]
        /\ setop' \in [Procs -> {"unset", "NULL", "REPLACE"}] /\ flagOf' \in [Procs -> BOOLEAN]
    BY <1>1, OnlyType, Types DEF LeaderStep, LeaderFrame
  <2>7. use' \in Uses /\ psets' \in Seq(Pset) /\ Len(log') <= Len(psets')
        /\ rank' \in [Procs -> Int] /\ comm' = comm /\ iter' = iter /\ use' = use
    BY SMTT(30), <1>1, <2>2, Types DEF LeaderStep, LeaderFrame, IInv, TypeOK
  <2> QED
    BY <2>1, <2>3, <2>5, <2>6, <2>7 DEF TypeOK, Pset
<1>8. SetsInv'
  <2>1. psets'[1].members = psets[1].members /\ psets'[1].key = psets[1].key /\ Orig' = Orig
    <3>1. psets'[1].key = psets[1].key
      <4>1. CASE Keeps(r, e)
        BY <4>1 DEF Keeps, Kept
      <4>2. CASE Grows(r, e)
        <5>1. e = 1 \/ 1 \in 1 .. e - 1
          BY <1>1
        <5> QED
          BY <4>2, <5>1 DEF Grows, LeaderStep, LeaderFrame
      <4> QED
        BY <4>1, <4>2 DEF LeaderStep, LeaderFrame
    <3> QED
      BY <1>1, <1>3, <3>1 DEF LeaderStep, LeaderFrame, Orig
  <2>2. ASSUME NEW f \in 1 .. e PROVE IsMainSet(f)'
    <3>1. IsMainSet(f) /\ f \in Nat /\ (f > 1 => f - 1 \in 1 .. e)
          /\ \A d \in 1 .. f - 1 : d \in 1 .. e
      BY <1>1 DEF IInv, SetsInv
    <3> QED
      BY <1>3, <3>1 DEF IsMainSet, Root
  <2>3. CASE Keeps(r, e)
    BY <2>3, KeptSets DEF Keeps
  <2>4. CASE Grows(r, e)
    <3>1. Epochs' = 1 .. e + 1 /\ Len(psets') = Len(log') + 1
      BY <1>1, <2>4 DEF Grows, Epochs, Newest
    <3>2. \A f \in Epochs' : f \in 1 .. e \/ f = e + 1
      BY <1>1, <3>1
    <3>3. \A f \in Epochs' : IsMainSet(f)'
      BY <2>2, <2>4, <3>2 DEF Grows
    <3> QED
      BY <1>1, <2>1, <3>1, <3>3 DEF SetsInv, IInv
  <2> QED
    BY <2>3, <2>4 DEF LeaderStep, LeaderFrame
<1>9. ~ Left(e)' /\ \A f \in 1 .. e - 1 : Left(f)' = Left(f)
  BY DEF LeaderStep, LeaderFrame, Left
<1>10. PlaceInv'
  <2>1. PlaceOf(r)'
    <3>1. ~ (Len(psets') = e + 1 /\ r \in psets'[Len(psets')].added)
      <4>1. CASE Keeps(r, e)
        <5>1. PlaceOf(r)
          BY <1>1 DEF IInv, PlaceInv
        <5>2. ~ (Len(psets) = e + 1 /\ r \in psets[Len(psets)].added)
          BY <1>1, <1>2, <5>1 DEF PlaceOf, Outside, Dismissed
        <5>3. psets'[Len(psets)].added = psets[Len(psets)].added /\ Len(psets') = Len(psets)
          BY <1>1, <4>1, Types DEF Keeps, Kept, Epochs
        <5> QED
          BY <5>2, <5>3
      <4>2. CASE Grows(r, e)
        BY <1>2, <4>2 DEF Grows, Outside
      <4> QED
        BY <4>1, <4>2 DEF LeaderStep, LeaderFrame
    <3>2. main'[r] >= e
      <4>1. main[r] >= e
        BY <1>1, <1>2 DEF IInv, PlaceInv, PlaceOf
      <4> QED
        BY <1>1, <1>2, <4>1
    <3>3. r \in Members(e)' /\ e \in 1 .. e /\ e # 0
      BY <1>1, <1>3
    <3> QED
      BY <1>1, <1>2, <3>1, <3>2, <3>3 DEF PlaceOf, Outside, Dismissed, Members
  <2>2. ASSUME NEW q \in Procs, q # r, Keeps(r, e)
        PROVE  PlaceOf(q)'
    <3>1. SameAt(q)
      BY <1>1, <1>5, <2>2, Types DEF Keeps, OnlyOf
    <3> QED
      BY <2>2, <3>1, SamePlace DEF Keeps, IInv, PlaceInv
  <2>3. ASSUME NEW q \in Procs, q # r, Grows(r, e)
        PROVE  PlaceOf(q)'
    <3>1. PlaceOf(q) /\ Len(psets) = e /\ Len(psets') = e + 1
      BY <2>3 DEF IInv, PlaceInv, Grows
    <3>2. psets'[e + 1].added \subseteq Members(e + 1)'
      BY <2>3 DEF Grows, IsMainSet
    <3>3. pc[q] \notin {"spawned", "init", "create"} /\ ~ Dismissed(q)
      BY <1>1, <3>1 DEF PlaceOf
    <3>4. CASE q \in psets'[e + 1].added
      <4>1. pc[q] = "off" /\ pc'[q] = "spawned" /\ comm[q] = 0 /\ main[q] = 0
        BY <2>3, <3>1, <3>4 DEF Grows, PlaceOf, Outside
      <4>2. comm'[q] = 0 /\ main'[q] = 0
        BY <1>1, <2>3, <4>1, Types DEF LeaderStep, LeaderFrame, OnlyOf
      <4>3. q \in Members(e + 1)'
        BY <3>2, <3>4
      <4> QED
        BY <1>1, <3>1, <3>4, <4>1, <4>2, <4>3 DEF PlaceOf, Outside, Dismissed, Members
    <3>5. CASE q \notin psets'[e + 1].added
      <4>1. SameAt(q)
        BY <1>5, <2>3, <3>5 DEF Grows
      <4>2. pc[q] = "off" => \A f \in Epochs' : q \notin Members(f)'
        <5>1. ASSUME pc[q] = "off" PROVE q \notin Members(e) /\ q \notin Members(e + 1)'
          <6>1. Members(e + 1)' \subseteq Members(e)' \cup psets'[e + 1].added
            <7>1. e + 1 > 1 /\ (e + 1) - 1 = e
              BY <1>1
            <7> QED
              BY <2>3, <7>1 DEF Grows, IsMainSet, Members
          <6>2. q \notin Members(e)
            BY <1>1, <3>1, <5>1 DEF PlaceOf
          <6>3. Members(e)' = Members(e)
            BY <1>1, <1>3
          <6> QED
            BY <3>5, <6>1, <6>2, <6>3
        <5>2. \A f \in Epochs' : f \in 1 .. e \/ f = e + 1
          BY <1>1, <3>1 DEF Epochs
        <5>3. \A f \in 1 .. e : pc[q] = "off" => q \notin Members(f)'
          BY <1>1, <1>3, <3>1 DEF PlaceOf
        <5> QED
          BY <5>1, <5>2, <5>3
      <4>3. comm[q] # 0 =>
              /\ q \in ToSet(psets'[comm[q]].members) /\ comm[q] \in 1 .. e
              /\ comm[q] < e => q \notin ToSet(psets'[comm[q] + 1].members)
        <5>1. comm[q] # 0 => /\ q \in Members(comm[q]) /\ comm[q] \in 1 .. e
                             /\ comm[q] < e => q \notin Members(comm[q] + 1)
          BY <1>1, <3>1 DEF PlaceOf
        <5>2. comm[q] # 0 /\ comm[q] < e => comm[q] + 1 \in 1 .. e
          BY <1>1, <5>1
        <5> QED
          BY <1>3, <5>1, <5>2 DEF Members
      <4> QED
        BY <1>1, <3>1, <3>3, <3>5, <4>1, <4>2, <4>3
        DEF PlaceOf, Outside, Dismissed, SameAt, Members
    <3> QED
      BY <3>4, <3>5
  <2> QED
    BY <2>1, <2>2, <2>3 DEF PlaceInv, LeaderStep, LeaderFrame
<1>11. MemberInv'
  <2>1. ASSUME NEW q \in Procs PROVE MemberOf(q)'
    <3>1. MemberOf(q) /\ pc[q] # "create"
      BY <1>1 DEF IInv, MemberInv, PlaceInv, PlaceOf
    <3>2. main'[q] \in Nat /\ main[q] \in Nat /\ main'[q] >= main[q] /\ comm'[q] = comm[q]
      <4>1. q # r => main'[q] = main[q] /\ main[q] \in Nat
        BY <1>1, Types DEF LeaderStep, LeaderFrame, OnlyOf
      <4> QED
        BY <1>2, <4>1 DEF LeaderStep, LeaderFrame
    <3>3. \A f \in 1 .. e : q \in Members(f)' => main'[q] >= f
      <4>1. \A f \in 1 .. e : q \in Members(f) => main[q] >= f
        BY <3>1 DEF MemberOf
      <4> QED
        BY <1>1, <1>3, <3>2, <4>1
    <3>4. q \in Members(e)' => comm[q] = e
      BY <1>1, <1>3, <3>1 DEF MemberOf
    <3> QED
      BY <1>1, <3>2, <3>3, <3>4 DEF MemberOf, Members
  <2> QED
    BY <2>1 DEF MemberInv
<1>12. LeftInv'
  <2>1. ASSUME NEW f \in 1 .. e - 1, NEW q \in Procs, comm'[q] = f
        PROVE  Leaves(q, f)'
    <3>1. comm[q] = f /\ f # 0 /\ q # r /\ f \in 1 .. e
      BY <1>1, <1>2, <2>1 DEF LeaderStep, LeaderFrame
    <3>2. Leaves(q, f) /\ SameAt(q)
      <4>1. Left(f)
        BY DEF IInv, LeftInv
      <4>2. SameAt(q)
        BY <1>6, <3>1
      <4> QED
        BY <3>1, <4>1, <4>2 DEF IInv, LeftInv
    <3>3. Members(f + 1)' = Members(f + 1)
      <4>1. f + 1 \in 1 .. e
        BY <1>1
      <4> QED
        BY <1>3, <4>1
    <3> QED
      BY <1>1, <3>2, <3>3, SameLeaver DEF LeaderStep, LeaderFrame
  <2>2. \A f \in 1 .. e : Left(f)' => f \in 1 .. e - 1
    BY <1>1, <1>9
  <2>3. \A f \in 1 .. e - 1 : Left(f) /\ log'[f] = log[f]
    BY DEF IInv, LeftInv, LeaderStep, LeaderFrame
  <2> QED
    BY ZenonT(60), <1>1, <1>9, <2>1, <2>2, <2>3 DEF IInv, LeftInv, Left
<1>13. LeadInv'
  BY <1>1, <1>4 DEF LeadInv, LeaderStep
<1>14. FinInv'
  <2>1. FinOf(r, e)'
    BY DEF LeaderStep
  <2>2. psets'[1].fin = 0 /\ \A f \in 2 .. e - 1 : psets'[f].fin = 1
    <3>1. CASE e = 1
      BY <2>1, <3>1 DEF FinOf
    <3>2. CASE e # 1
      <4>1. 1 \in 1 .. e - 1 /\ \A f \in 2 .. e - 1 : f \in 1 .. e - 1
        BY <1>1, <3>2
      <4> QED
        BY <4>1 DEF IInv, FinInv, LeaderStep, LeaderFrame
    <3> QED
      BY <3>1, <3>2
  <2> QED
    BY <1>1, <1>4, <1>9, <2>1, <2>2 DEF FinInv, FinOf, Left
<1>15. TeamInv'
  <2>1. ASSUME NEW q \in Members(e), q # r
        PROVE  Follows(q, r, e)' /\ Agrees(q, r, e)'
    <3>1. comm[q] # 0
      <4>1. MemberOf(q) /\ PlaceOf(q)
        BY <1>1 DEF IInv, MemberInv, PlaceInv
      <4> QED
        BY <1>1, <4>1 DEF MemberOf, PlaceOf
    <3>2. SameAt(q)
      BY <1>1, <1>6, <2>1, <3>1
    <3> QED
      BY <2>1, <3>2, FollowersStay DEF LeaderStep
  <2>2. Members(e)' = Members(e)
    BY <1>1, <1>3
  <2> QED
    BY <1>1, <1>4, <2>1, <2>2 DEF TeamInv, LeaderStep, Members
<1> QED
  BY <1>7, <1>8, <1>10, <1>11, <1>12, <1>13, <1>14, <1>15 DEF IInv, LeaderStep, LeaderFrame

-----------------------------------------------------------------------------
(* The steps of the leader. *)

\* The set that a granted operation makes of the set ms of the leader.
LEMMA GrantsMainSets ==
  ASSUME IInv, NEW e, e = Newest, e > 0, ~ Left(e), NEW r, r = Lead, main[r] = e,
         NEW g \in Grants(r)
  PROVE  LET ms == ToSet(g.members) IN
         /\ g \in Pset /\ g.key = "none" /\ g.fin = 0
         /\ g.members # <<>> /\ IsInjective(g.members) /\ g.added \subseteq ms
         /\ \A q \in g.added : pc[q] = "off"
         /\ Head(g.members) \notin g.added
         /\ ms = (Members(e) \ g.removed) \cup g.added
<1> DEFINE old == psets[e].members
<1>1. /\ e \in Nat /\ e \in Epochs /\ old \in Seq(Procs) /\ old # <<>> /\ IsInjective(old)
      /\ ToSet(old) = Members(e)
  <2>1. e \in Epochs
    BY Types DEF Epochs
  <2>2. psets[e] \in Pset /\ IsMainSet(e)
    BY <2>1, Types DEF IInv, SetsInv, Epochs
  <2> QED
    BY <2>1, <2>2, Types DEF Pset, IsMainSet, Members
<1>2. /\ ToSet(old) \subseteq Procs /\ IsFiniteSet(Procs) /\ Procs \subseteq Int
      /\ \A q \in Members(e) : RankIn(q, e) \in Int /\ pc[q] # "off"
  <2>1. ToSet(old) \subseteq Procs /\ \A q \in Members(e) : RankIn(q, e) \in Int
    <3>1. Members(e) \subseteq Procs /\ \A q \in Members(e) : RankIn(q, e) \in Nat
      BY <1>1, Ranks, Types DEF IInv
    <3> HIDE DEF old
    <3> QED
      BY <1>1, <3>1
  <2>2. \A q \in Members(e) : pc[q] # "off"
    BY <1>1, <2>1 DEF IInv, PlaceInv, PlaceOf
  <2>3. Procs \subseteq Int
    BY ProcsAssumption, FS_CardinalityType
  <2> QED
    BY <2>1, <2>2, <2>3, ProcsAssumption
<1>3. CASE use.mode = "expand"
  <2>0. PICK add \in SUBSET {q \in Procs : pc[q] = "off"} :
          \E s \in Ordered(add, [q \in add |-> q]) : g = NewPset(psets[main[r]].members \o s, add, {})
    BY <1>3 DEF Grants
  <2>1. PICK s \in Ordered(add, [q \in add |-> q]) : g = NewPset(old \o s, add, {})
    BY <2>0
  <2>2. s \in Seq(add) /\ IsInjective(s) /\ ToSet(s) = add
    <3>1. IsFiniteSet(add)
      BY <1>2, <2>1, FS_Subset
    <3>2. \A x \in add : [q \in add |-> q][x] \in Int
      BY <1>2, <2>1
    <3> QED
      BY <3>1, <3>2, OrderedList
  <2>3. /\ g.members = old \o s /\ g.added = add /\ g.removed = {}
        /\ g.key = "none" /\ g.ack = FALSE /\ g.fin = 0
        /\ g = [members |-> old \o s, added |-> add, removed |-> {}, key |-> "none",
                ack |-> FALSE, fin |-> 0]
    BY <2>1 DEF NewPset
  <2>4. old \o s \in Seq(Procs) /\ old \o s # <<>> /\ Head(old \o s) = old[1]
        /\ Len(old \o s) = Len(old) + Len(s)
        /\ \A i \in 1 .. Len(old) + Len(s) :
             (old \o s)[i] = IF i <= Len(old) THEN old[i] ELSE s[i - Len(old)]
    <3>1. s \in Seq(Procs)
      BY <2>2
    <3> HIDE DEF old
    <3> QED
      BY <1>1, <3>1
  <2>5. \A i \in 1 .. Len(old) : old[i] \in Members(e)
    BY <1>1 DEF ToSet
  <2>6. \A i \in 1 .. Len(s) : s[i] \in add
    BY <2>2
  <2>7. ToSet(old \o s) = ToSet(old) \cup add
    <3> HIDE DEF old
    <3>1. ToSet(old \o s) \subseteq ToSet(old) \cup add
      BY <1>1, <2>2, <2>4, <2>5, <2>6 DEF ToSet
    <3>2. ASSUME NEW x \in ToSet(old) PROVE x \in ToSet(old \o s)
      <4>1. PICK i \in 1 .. Len(old) : old[i] = x
        BY <1>1 DEF ToSet
      <4>2. i \in 1 .. Len(old) + Len(s) /\ (old \o s)[i] = x
        BY <1>1, <2>2, <2>4, <4>1
      <4> QED
        BY <2>4, <4>2 DEF ToSet
    <3>3. ASSUME NEW x \in add PROVE x \in ToSet(old \o s)
      <4>1. PICK i \in 1 .. Len(s) : s[i] = x
        BY <2>2 DEF ToSet
      <4>2. Len(old) + i \in 1 .. Len(old) + Len(s) /\ (old \o s)[Len(old) + i] = x
        BY <1>1, <2>2, <2>4, <4>1
      <4> QED
        BY <2>4, <4>2 DEF ToSet
    <3> QED
      BY <3>1, <3>2, <3>3
  <2>8. IsInjective(old \o s)
    <3> HIDE DEF old
    <3>1. ASSUME NEW i \in 1 .. Len(old) + Len(s), NEW j \in 1 .. Len(old) + Len(s),
                 (old \o s)[i] = (old \o s)[j]
          PROVE  i = j
      <4>1. Len(old) \in Nat /\ Len(s) \in Nat
        BY <1>1, <2>2
      <4>2. CASE i <= Len(old) /\ j <= Len(old)
        BY <1>1, <2>4, <3>1, <4>1, <4>2 DEF IsInjective
      <4>3. CASE i > Len(old) /\ j > Len(old)
        <5>1. i - Len(old) \in 1 .. Len(s) /\ j - Len(old) \in 1 .. Len(s)
          BY <4>1, <4>3
        <5>2. s[i - Len(old)] = s[j - Len(old)]
          BY <2>4, <3>1, <4>1, <4>3
        <5>3. i - Len(old) = j - Len(old)
          BY <2>2, <5>1, <5>2 DEF IsInjective
        <5> QED
          BY <4>1, <5>3
      <4>4. ASSUME NEW k \in 1 .. Len(old), NEW m \in 1 .. Len(s) PROVE old[k] # s[m]
        BY <1>2, <2>1, <2>5, <2>6
      <4>5. CASE i <= Len(old) /\ j > Len(old)
        <5>1. i \in 1 .. Len(old) /\ j - Len(old) \in 1 .. Len(s)
          BY <4>1, <4>5
        <5> QED
          BY <2>4, <3>1, <4>4, <4>5, <5>1
      <4>6. CASE i > Len(old) /\ j <= Len(old)
        <5>1. j \in 1 .. Len(old) /\ i - Len(old) \in 1 .. Len(s)
          BY <4>1, <4>6
        <5> QED
          BY <2>4, <3>1, <4>4, <4>6, <5>1
      <4> QED
        BY <4>1, <4>2, <4>3, <4>5, <4>6
    <3> QED
      BY <2>4, <3>1 DEF IsInjective
  <2>9. Head(g.members) \notin add
    <3>1. 1 \in 1 .. Len(old)
      <4> HIDE DEF old
      <4> QED
        BY <1>1
    <3>2. old[1] \in Members(e)
      BY <2>5, <3>1
    <3>3. pc[old[1]] # "off"
      BY <1>2, <3>2
    <3> QED
      BY <2>3, <2>4, <3>3
  <2>10. g \in Pset
    <3>1. add \in SUBSET Procs /\ {} \in SUBSET Procs /\ old \o s \in Seq(Procs)
      BY <2>4
    <3> HIDE DEF old
    <3> QED
      BY <2>3, <3>1 DEF Pset
  <2> QED
    BY <1>1, <2>1, <2>3, <2>4, <2>7, <2>8, <2>9, <2>10
<1>4. CASE use.mode # "expand"
  <2> DEFINE key == [q \in ToSet(old) |-> RankIn(q, main[r])]
  <2>0. PICK sub \in SUBSET ToSet(old) :
          /\ sub # ToSet(old)
          /\ \E s \in Ordered(ToSet(old) \ sub, key) : g = NewPset(s, {}, sub)
    BY <1>4 DEF Grants
  <2>1. PICK s \in Ordered(ToSet(old) \ sub, key) : g = NewPset(s, {}, sub)
    BY <2>0
  <2> DEFINE stay == ToSet(old) \ sub
  <2>2. s \in Seq(stay) /\ IsInjective(s) /\ ToSet(s) = stay
    <3>1. IsFiniteSet(stay)
      BY <1>2, FS_Subset
    <3>2. \A x \in stay : key[x] \in Int
      BY <1>1, <1>2
    <3> HIDE DEF key, stay
    <3>3. s \in Ordered(stay, key)
      BY <2>1 DEF stay
    <3> QED
      BY <3>1, <3>2, <3>3, OrderedList
  <2>3. stay # {} /\ s # <<>> /\ s \in Seq(Procs)
    <3>1. stay # {}
      BY <2>0
    <3>2. stay \subseteq Procs
      BY <1>2
    <3> HIDE DEF stay
    <3> QED
      BY <2>2, <3>1, <3>2 DEF ToSet
  <2>4. /\ g.members = s /\ g.added = {} /\ g.removed = sub
        /\ g.key = "none" /\ g.ack = FALSE /\ g.fin = 0
        /\ g = [members |-> s, added |-> {}, removed |-> sub, key |-> "none",
                ack |-> FALSE, fin |-> 0]
    BY <2>1 DEF NewPset
  <2>5. g \in Pset
    <3>1. sub \in SUBSET Procs /\ {} \in SUBSET Procs /\ s \in Seq(Procs)
      BY <1>2, <2>3
    <3> QED
      BY <2>4, <3>1 DEF Pset
  <2> QED
    BY <1>1, <2>2, <2>3, <2>4, <2>5
<1> QED
  BY <1>3, <1>4

\* What the leader gets for an operation it asks for: a refusal or a new set.
Asked(r, e) ==
  \/ setop'[r] = "NULL" /\ out'[r] = 0 /\ psets' = psets /\ OnlyOf(r, pc, pc')
  \/ /\ setop'[r] = "REPLACE" /\ out'[r] = e + 1 /\ Grows(r, e) /\ psets' \in Seq(Pset)
     /\ \A f \in 1 .. e : psets'[f] = psets[f]
     /\ psets'[e + 1].key = "none" /\ psets'[e + 1].fin = 0

\* Sending an operation, refused or granted, changes only what rank 0 asks.
LEMMA SendsAsk ==
  ASSUME IInv, NEW e, e = Newest, e > 0, ~ Left(e), NEW r, r = Lead, main[r] = e, ~ Granted(r),
         NEW l, SendSetop(r, l)
  PROVE  /\ Asked(r, e) /\ log' = log /\ pc'[r] = l
         /\ OnlyOf(r, setop, setop') /\ OnlyOf(r, out, out')
<1>1. /\ e \in Nat /\ Len(psets) = e /\ r \in Procs /\ psets \in Seq(Pset) /\ e \in Epochs
      /\ \A f \in 1 .. e : f \in Epochs /\ f \in DOMAIN psets
  <2>1. Asks(r, e)
    BY DEF IInv, LeadInv
  <2>2. e \in Nat /\ e \in Epochs /\ Len(psets) \in {e, e + 1} /\ psets \in Seq(Pset)
    BY Types DEF Epochs, IInv, SetsInv, Newest
  <2>3. r \in Procs
    BY <2>2, Ranks DEF IInv, Lead
  <2> QED
    BY <2>1, <2>2, <2>3 DEF Asks, Epochs
<1>2. CASE /\ setop' = [setop EXCEPT ![r] = "NULL"]
           /\ out' = [out EXCEPT ![r] = 0]
           /\ pc' = [pc EXCEPT ![r] = l]
           /\ UNCHANGED runtimeVars
  BY <1>1, <1>2, Types DEF Asked, OnlyOf, runtimeVars
<1>3. ASSUME NEW g \in Grants(r),
             psets' = Append(psets, g),
             pc' = [q \in Procs |-> IF q = r THEN l
                                    ELSE IF q \in g.added THEN "spawned" ELSE pc[q]],
             setop' = [setop EXCEPT ![r] = "REPLACE"],
             out' = [out EXCEPT ![r] = Len(psets) + 1],
             UNCHANGED log
      PROVE  /\ Asked(r, e) /\ log' = log /\ pc'[r] = l
             /\ OnlyOf(r, setop, setop') /\ OnlyOf(r, out, out')
  <2>1. LET ms == ToSet(g.members) IN
        /\ g \in Pset /\ g.key = "none" /\ g.fin = 0
        /\ g.members # <<>> /\ IsInjective(g.members) /\ g.added \subseteq ms
        /\ \A q \in g.added : pc[q] = "off"
        /\ Head(g.members) \notin g.added
        /\ ms = (Members(e) \ g.removed) \cup g.added
    BY GrantsMainSets
  <2>2. /\ Len(psets') = e + 1 /\ psets' \in Seq(Pset) /\ psets'[e + 1] = g
        /\ \A f \in 1 .. e : psets'[f] = psets[f]
    <3>1. g \in Pset
      BY <2>1
    <3> QED
      BY <1>1, <1>3, <3>1
  <2>3. /\ Members(e + 1)' = ToSet(g.members) /\ Root(e + 1)' = Head(g.members)
        /\ \A f \in 1 .. e : Members(f)' = Members(f)
    BY <2>2 DEF Members, Root
  <2>4. IsMainSet(e + 1)'
    <3>1. \A d \in 1 .. (e + 1) - 1 : psets'[e + 1].added \cap Members(d)' = {}
      <4>1. ASSUME NEW d \in 1 .. e, NEW q \in g.added PROVE q \notin Members(d)
        <5>1. g.added \subseteq Procs
          BY <2>1 DEF Pset
        <5>2. PlaceOf(q) /\ pc[q] = "off"
          BY <2>1, <5>1 DEF IInv, PlaceInv
        <5> QED
          BY <1>1, <5>2 DEF PlaceOf
      <4> QED
        BY <1>1, <2>2, <2>3, <4>1
    <3>2. Members((e + 1) - 1)' = Members(e)
      BY <1>1, <2>3
    <3> QED
      BY <1>1, <2>1, <2>2, <2>3, <3>1, <3>2 DEF IsMainSet
  <2>5. pc'[r] = l /\ setop'[r] = "REPLACE" /\ out'[r] = e + 1
        /\ OnlyOf(r, setop, setop') /\ OnlyOf(r, out, out')
    BY <1>1, <1>3, Types DEF OnlyOf
  <2>6. Grows(r, e)
    <3>1. e \in 1 .. e /\ psets'[e] = psets[e]
      BY <1>1, <2>2
    <3> QED
      BY <1>1, <1>3, <2>1, <2>2, <2>4, <2>5, <3>1 DEF Grows
  <2> QED
    BY <1>3, <2>1, <2>2, <2>5, <2>6 DEF Asked
<1> QED
  BY <1>2, <1>3 DEF SendSetop

\* What the invariant says of the leader before its step.
LEMMA Leader ==
  ASSUME IInv, NEW e, e = Newest, e > 0, ~ Left(e), NEW r, r = Lead
  PROVE  /\ e \in Nat /\ e \in Epochs /\ r \in Procs /\ Len(psets) \in {e, e + 1}
         /\ psets \in Seq(Pset) /\ psets[e] \in Pset
         /\ Leads(r, e) /\ Asks(r, e) /\ Agrees(r, r, e) /\ FinOf(r, e)
         /\ rank[r] = 0 /\ comm[r] = e /\ e # 0
         /\ pc[r] \in Locations \ (Outside \cup {"exprecv", "disconnect"})
         /\ log[e] \in Seq(Message) /\ Len(log[e]) \in Nat /\ idx[r] = Len(log[e])
<1>1. e \in Nat /\ e \in Epochs /\ Len(psets) \in {e, e + 1} /\ psets \in Seq(Pset)
  BY Types DEF Epochs, IInv, SetsInv, Newest
<1>2. r \in Procs /\ r \in Members(e)
  BY <1>1, Ranks DEF IInv, Lead
<1>3. FinOf(r, e)
  BY <1>1 DEF IInv, FinInv, FinOf
<1>4. Leads(r, e) /\ Asks(r, e) /\ Agrees(r, r, e)
  BY <1>2 DEF IInv, LeadInv, TeamInv
<1>5. rank[r] = 0 /\ comm[r] = e /\ e # 0 /\ pc[r] \notin {"exprecv", "disconnect"}
      /\ idx[r] = Len(log[e])
  BY <1>1, <1>4 DEF Leads
<1>6. pc[r] \in Locations /\ pc[r] \notin Outside
  <2>1. PlaceOf(r)
    BY <1>2 DEF IInv, PlaceInv
  <2> QED
    BY <1>2, <1>5, <2>1, Types DEF PlaceOf
<1>7. psets[e] \in Pset
  BY <1>1 DEF Epochs
<1>8. log[e] \in Seq(Message)
  BY <1>1, Types DEF Newest
<1>9. Len(log[e]) \in Nat
  BY <1>8
<1> QED
  BY <1>1, <1>2, <1>3, <1>4, <1>5, <1>6, <1>7, <1>8, <1>9

\* A step of the leader that tells nobody anything and finalizes nothing.
LEMMA LeaderWalks ==
  ASSUME IInv, NEW e, e = Newest, e > 0, ~ Left(e), NEW r, r = Lead,
         UNCHANGED <<use, log, comm, rank, iter, idx, main>>,
         OnlyOf(r, pending, pending'), pending'[r] \in BOOLEAN,
         OnlyOf(r, flagOf, flagOf'), flagOf'[r] \in BOOLEAN,
         Walks(r, e), pc[r] \notin {"finop", "ackwait"}, ~ Announcing(r),
         pc'[r] = "flag" => ~ flagOf'[r],
         pc[r] = "finalize" => pc'[r] = "exit" /\ ~ Granted(r),
         \/ /\ UNCHANGED <<psets, setop, out>> /\ OnlyOf(r, pc, pc')
            /\ (pending'[r] /\ setop[r] = "REPLACE") <=> Granted(r)
         \/ /\ Asked(r, e) /\ ~ Granted(r) /\ pending'[r] = TRUE /\ pc'[r] # "exit"
            /\ OnlyOf(r, setop, setop') /\ OnlyOf(r, out, out')
  PROVE  LeaderStep(r, e)
<1>1. /\ e \in Nat /\ e \in Epochs /\ r \in Procs /\ Len(psets) \in {e, e + 1}
      /\ psets \in Seq(Pset)
      /\ Leads(r, e) /\ Asks(r, e) /\ Agrees(r, r, e) /\ FinOf(r, e) /\ log' = log
  BY Leader
<1>2. pc'[r] \in {"entry", "check", "bottom", "handled", "flag", "finop", "exit"}
  BY DEF Walks
<1>3. /\ rank'[r] = rank[r] /\ idx'[r] = idx[r] /\ comm'[r] = comm[r] /\ iter'[r] = iter[r]
      /\ main'[r] = main[r]
  OBVIOUS
<1>4. ~ Left(e)'
  BY DEF Left
<1>5. Leads(r, e)'
  BY <1>1, <1>2, <1>3 DEF Leads, Walks, Ahead, Idle, Ending, Granted, Latest
<1>6. Agrees(r, r, e)'
  BY <1>1, <1>2 DEF Agrees, Walks, Leads
<1>7. ~ Announcing(r)'
  BY <1>2 DEF Announcing
<1>8. /\ main[r] = e /\ (Len(psets) = e + 1 <=> Granted(r)) /\ (Granted(r) => out[r] = e + 1)
      /\ Len(psets) = e \/ Len(psets) = e + 1
      /\ setop[r] \in {"unset", "NULL", "REPLACE"} /\ out[r] \in 0 .. Len(psets)
      /\ idx[r] \in Nat
  BY <1>1, Types DEF Asks, IInv, TypeOK
<1>9. (pc'[r] \in {"user", "finop"} <=> pc[r] \in {"user", "finop"})
      /\ pc'[r] \in Locations \ Outside
      /\ (pc'[r] = "exit" => pc[r] = "finalize")
  BY <1>2 DEF Walks, Ahead, Idle, Locations, Outside
<1>11. ASSUME LeaderFrame(r, e), psets'[e].added = psets[e].added, Asks(r, e)', FinOf(r, e)'
       PROVE  LeaderStep(r, e)
  <2>1. LeaderMoves(r, e)
    BY <1>3, <1>11 DEF LeaderMoves
  <2> QED
    BY <1>4, <1>5, <1>6, <1>11, <2>1 DEF LeaderStep
<1>12. ASSUME Keeps(r, e) \/ Grows(r, e), psets' \in Seq(Pset),
              \A f \in 1 .. e - 1 : psets'[f] = psets[f],
              OnlyOf(r, setop, setop'), OnlyOf(r, out, out'),
              setop'[r] \in {"unset", "NULL", "REPLACE"}, out'[r] \in 0 .. Len(psets'),
              Len(psets') \in {e, e + 1}
       PROVE  LeaderFrame(r, e)
  <2>1. main'[r] \in main[r] .. Len(psets')
    BY <1>1, <1>3, <1>8, <1>12
  <2>2. OnlyOf(r, main, main') /\ OnlyOf(r, idx, idx')
    BY <1>1, Types DEF OnlyOf
  <2>3. log' \in Seq(Seq(Message))
    BY <1>1, Types
  <2> QED
    BY <1>1, <1>3, <1>8, <1>9, <1>12, <2>1, <2>2, <2>3 DEF LeaderFrame
<1>13. CASE /\ UNCHANGED <<psets, setop, out>> /\ OnlyOf(r, pc, pc')
            /\ (pending'[r] /\ setop[r] = "REPLACE") <=> Granted(r)
  <2>1. Granted(r)' <=> Granted(r)
    BY <1>13 DEF Granted
  <2>2. Asks(r, e)'
    <3>1. Granted(r) => psets[e + 1].key = "none"
      BY <1>1, <1>2, <1>9 DEF Asks, Walks, Ahead, Idle
    <3> QED
      BY <1>3, <1>7, <1>8, <1>13, <2>1, <3>1 DEF Asks
  <2>3. FinOf(r, e)'
    <3>1. Granted(r) => pc[r] # "exit" /\ pc'[r] # "exit"
      BY <1>9 DEF Walks, Ahead, Idle
    <3> QED
      BY <1>1, <1>8, <1>9, <1>13, <3>1 DEF FinOf
  <2>4. Keeps(r, e)
    BY <1>13 DEF Keeps, Kept, Newest
  <2>5. OnlyOf(r, setop, setop') /\ OnlyOf(r, out, out')
    BY <1>1, <1>13, Types DEF OnlyOf
  <2> QED
    BY <1>1, <1>8, <1>11, <1>12, <1>13, <2>2, <2>3, <2>4, <2>5
<1>14. CASE /\ Asked(r, e) /\ ~ Granted(r) /\ pending'[r] = TRUE /\ pc'[r] # "exit"
            /\ OnlyOf(r, setop, setop') /\ OnlyOf(r, out, out')
  <2>0. Len(psets) = e
    BY <1>8, <1>14
  <2>1. CASE setop'[r] = "NULL" /\ out'[r] = 0 /\ psets' = psets /\ OnlyOf(r, pc, pc')
    <3>1. Asks(r, e)'
      BY <1>1, <1>3, <1>7, <1>8, <2>0, <2>1 DEF Asks, Granted
    <3>2. FinOf(r, e)'
      BY <1>1, <1>8, <1>9, <2>0, <2>1 DEF FinOf
    <3>3. Keeps(r, e)
      BY <2>1 DEF Keeps, Kept, Newest
    <3> QED
      BY <1>1, <1>11, <1>12, <1>14, <2>0, <2>1, <3>1, <3>2, <3>3
  <2>2. CASE /\ setop'[r] = "REPLACE" /\ out'[r] = e + 1 /\ Grows(r, e) /\ psets' \in Seq(Pset)
             /\ \A f \in 1 .. e : psets'[f] = psets[f]
             /\ psets'[e + 1].key = "none" /\ psets'[e + 1].fin = 0
    <3>0. Len(psets') = e + 1 /\ psets'[e] = psets[e] /\ \A f \in 1 .. e - 1 : psets'[f] = psets[f]
      BY <1>1, <2>2 DEF Grows
    <3>1. Asks(r, e)'
      BY <1>1, <1>3, <1>7, <1>8, <1>14, <2>2, <3>0 DEF Asks, Granted
    <3>2. FinOf(r, e)'
      BY <1>1, <1>8, <1>9, <1>14, <2>2, <3>0 DEF FinOf
    <3> QED
      BY <1>1, <1>11, <1>12, <1>14, <2>2, <3>0, <3>1, <3>2
  <2> QED
    BY <1>14, <2>1, <2>2 DEF Asked
<1> QED
  BY <1>13, <1>14

\* A step that changes what the runtime keeps with one set.
LEMMA SetChanges ==
  ASSUME IInv, NEW x \in Epochs, NEW s \in Pset, s.members = psets[x].members,
         s.added = psets[x].added, s.removed = psets[x].removed,
         x = 1 => s.key = psets[1].key,
         psets' = [psets EXCEPT ![x] = s], UNCHANGED <<use, log>>
  PROVE  /\ Kept /\ psets' \in Seq(Pset) /\ Len(psets') = Len(psets)
         /\ \A f \in Epochs : psets'[f] = IF f = x THEN s ELSE psets[f]
<1>1. psets \in Seq(Pset) /\ 1 \in Epochs
  BY Types DEF Epochs, IInv, SetsInv
<1>2. psets' \in Seq(Pset) /\ Len(psets') = Len(psets) /\ DOMAIN psets = Epochs
  BY <1>1 DEF Epochs
<1>3. \A f \in Epochs : psets'[f] = IF f = x THEN s ELSE psets[f]
  BY <1>2
<1> QED
  BY <1>1, <1>2, <1>3 DEF Kept, Newest

\* A step of the leader that makes no set.
LEMMA LeaderStays ==
  ASSUME IInv, NEW e, e = Newest, e > 0, ~ Left(e), NEW r, r = Lead,
         UNCHANGED <<use, comm, rank, iter, pending, setop, out>>,
         OnlyOf(r, pc, pc'), OnlyOf(r, main, main'), OnlyOf(r, idx, idx'),
         OnlyOf(r, flagOf, flagOf'),
         pc'[r] \in Locations \ Outside, idx'[r] \in Nat, flagOf'[r] \in BOOLEAN,
         main'[r] = main[r] \/ (main[r] = e /\ main'[r] = e + 1 /\ Len(psets) = e + 1),
         log' \in Seq(Seq(Message)), Len(log') = Len(log),
         \A f \in 1 .. e - 1 : log'[f] = log[f] /\ psets'[f] = psets[f],
         Kept, psets' \in Seq(Pset),
         \/ psets'[Len(psets)].key = psets[Len(psets)].key
         \/ psets[Len(psets)].key = "none"
  PROVE  LeaderFrame(r, e)
<1>1. /\ main[r] \in 0 .. Len(psets) /\ out[r] \in 0 .. Len(psets)
      /\ setop[r] \in {"unset", "NULL", "REPLACE"} /\ pending[r] \in BOOLEAN
      /\ Len(psets') = Len(psets) /\ e \in Nat /\ Len(psets) \in Nat
  BY Leader, Types DEF IInv, TypeOK, Kept
<1>2. main'[r] \in main[r] .. Len(psets')
  BY <1>1
<1>3. OnlyOf(r, pending, pending') /\ OnlyOf(r, setop, setop') /\ OnlyOf(r, out, out')
  BY Leader, Types DEF OnlyOf
<1>4. Keeps(r, e)
  BY DEF Keeps
<1> QED
  BY <1>1, <1>2, <1>3, <1>4 DEF LeaderFrame

\* Every step of rank 0 but the announcement fits its summary.
LEMMA LeaderSteps ==
  ASSUME IInv, NEW e, e = Newest, e > 0, ~ Left(e), NEW r, r = Lead, Step(r), pc[r] # "names"
  PROVE  LeaderStep(r, e)
<1>1. /\ e \in Nat /\ e \in Epochs /\ r \in Procs /\ Len(psets) \in {e, e + 1}
      /\ psets \in Seq(Pset) /\ psets[e] \in Pset
      /\ Leads(r, e) /\ Asks(r, e) /\ Agrees(r, r, e) /\ FinOf(r, e)
      /\ rank[r] = 0 /\ comm[r] = e /\ e # 0
      /\ log[e] \in Seq(Message) /\ Len(log[e]) \in Nat /\ idx[r] = Len(log[e])
  BY Leader
<1>2. pc[r] \in Locations \ (Outside \cup {"exprecv", "disconnect"})
  BY Leader
<1>3. /\ pending[r] \in BOOLEAN /\ flagOf[r] \in BOOLEAN /\ use.initInfo \in BOOLEAN
      /\ use.nonBlocking \in BOOLEAN /\ use' = use
      /\ iter[r] \in Nat /\ log \in Seq(Seq(Message))
  BY <1>1, Types DEF Use, Step
<1>4. ~ Announcing(r) => main[r] = e
  BY <1>1 DEF Asks
<1> USE DEF runtimeVars, setopVars, commVars
<1>5. CASE Launch(r)
  <2>1. /\ pc[r] = "launch" /\ ~ Granted(r) /\ ~ Announcing(r) /\ main[r] = e /\ ~ pending[r]
        /\ pending'[r] = use.initInfo /\ OnlyOf(r, pending, pending')
        /\ UNCHANGED <<use, log, comm, rank, iter, idx, main, flagOf>>
    <3>1. /\ pc[r] = "launch" /\ pending' = [pending EXCEPT ![r] = use.initInfo]
          /\ UNCHANGED <<use, log, comm, rank, iter, idx, main, flagOf>>
      BY <1>3, <1>5 DEF Launch, SendIfRoot, SendSetop, NoSetop
    <3>2. ~ pending[r] /\ ~ Granted(r) /\ ~ Announcing(r) /\ main[r] = e
      BY <1>1, <1>4, <3>1 DEF Leads, Granted, Announcing
    <3> QED
      BY <1>1, <3>1, <3>2, Types DEF OnlyOf
  <2>2. CASE use.initInfo
    <3>1. SendSetop(r, "entry")
      BY <1>1, <1>5, <2>2 DEF Launch, SendIfRoot
    <3>2. /\ Asked(r, e) /\ pc'[r] = "entry"
          /\ OnlyOf(r, setop, setop') /\ OnlyOf(r, out, out')
      BY <2>1, <3>1, SendsAsk
    <3>3. Walks(r, e)
      BY <2>1, <3>2 DEF Walks
    <3>4. OnlyOf(r, flagOf, flagOf') /\ flagOf'[r] \in BOOLEAN
      BY <1>1, <1>3, <2>1, Types DEF OnlyOf
    <3> QED
      BY <1>3, <2>1, <2>2, <3>2, <3>3, <3>4, LeaderWalks
  <2>3. CASE ~ use.initInfo
    <3>1. pc' = [pc EXCEPT ![r] = "entry"] /\ UNCHANGED <<psets, setop, out>>
      BY <1>5, <2>3 DEF Launch, NoSetop
    <3>2. OnlyOf(r, pc, pc') /\ pc'[r] = "entry"
      BY <1>1, <3>1, Types DEF OnlyOf
    <3>3. Walks(r, e)
      BY <2>1, <3>2 DEF Walks
    <3>4. OnlyOf(r, flagOf, flagOf') /\ flagOf'[r] \in BOOLEAN
      BY <1>1, <1>3, <2>1, Types DEF OnlyOf
    <3> QED
      BY <1>3, <2>1, <2>3, <3>1, <3>2, <3>3, <3>4, LeaderWalks
  <2> QED
    BY <1>3, <2>2, <2>3
<1>6. CASE AdaptBlocking(r)
  <2>1. /\ pc[r] = "adapt" /\ ~ use.nonBlocking /\ ~ Announcing(r) /\ main[r] = e
        /\ pending'[r] = TRUE /\ OnlyOf(r, pending, pending')
        /\ UNCHANGED <<use, log, comm, rank, iter, idx, main, flagOf>>
    <3>1. /\ pc[r] = "adapt" /\ ~ use.nonBlocking /\ pending' = [pending EXCEPT ![r] = TRUE]
          /\ UNCHANGED <<use, log, comm, rank, iter, idx, main, flagOf>>
      BY <1>3, <1>6 DEF AdaptBlocking, SendIfRoot, SendSetop, NoSetop
    <3> QED
      BY <1>1, <1>4, <3>1, Types DEF OnlyOf, Announcing
  <2>2. CASE ~ pending[r]
    <3>1. SendSetop(r, "check")
      BY <1>1, <1>6, <2>2 DEF AdaptBlocking, SendIfRoot
    <3>2. ~ Granted(r)
      BY <2>2 DEF Granted
    <3>3. /\ Asked(r, e) /\ pc'[r] = "check"
          /\ OnlyOf(r, setop, setop') /\ OnlyOf(r, out, out')
      BY <2>1, <3>1, <3>2, SendsAsk
    <3>4. Walks(r, e)
      BY <2>1, <3>3 DEF Walks, Ahead
    <3>5. OnlyOf(r, flagOf, flagOf') /\ flagOf'[r] \in BOOLEAN
      BY <1>1, <1>3, <2>1, Types DEF OnlyOf
    <3> QED
      BY <1>3, <2>1, <3>2, <3>3, <3>4, <3>5, LeaderWalks
  <2>3. CASE pending[r]
    <3>1. pc' = [pc EXCEPT ![r] = "check"] /\ UNCHANGED <<psets, setop, out>>
      BY <1>6, <2>3 DEF AdaptBlocking, NoSetop
    <3>2. OnlyOf(r, pc, pc') /\ pc'[r] = "check"
      BY <1>1, <3>1, Types DEF OnlyOf
    <3>3. Walks(r, e)
      BY <2>1, <3>2 DEF Walks, Ahead
    <3>4. OnlyOf(r, flagOf, flagOf') /\ flagOf'[r] \in BOOLEAN
      BY <1>1, <1>3, <2>1, Types DEF OnlyOf
    <3>5. (pending'[r] /\ setop[r] = "REPLACE") <=> Granted(r)
      BY <2>1, <2>3 DEF Granted
    <3> QED
      BY <1>3, <2>1, <3>1, <3>2, <3>3, <3>4, <3>5, LeaderWalks
  <2> QED
    BY <1>3, <2>2, <2>3
<1>7. CASE AdaptNonBlocking(r)
  <2>1. /\ pc[r] = "adapt" /\ use.nonBlocking /\ ~ Announcing(r)
        /\ UNCHANGED <<use, psets, log, comm, rank, iter, idx, main, flagOf, pending, setop, out>>
        /\ pc' = [pc EXCEPT ![r] = IF pending[r] THEN "check" ELSE "handled"]
    BY <1>3, <1>7 DEF AdaptNonBlocking, NoSetop, Announcing
  <2>2. OnlyOf(r, pc, pc') /\ pc'[r] = IF pending[r] THEN "check" ELSE "handled"
    BY <1>1, <2>1, Types DEF OnlyOf
  <2>3. Walks(r, e)
    BY <1>3, <2>1, <2>2 DEF Walks, Ahead, Idle
  <2>4. OnlyOf(r, flagOf, flagOf') /\ flagOf'[r] \in BOOLEAN
        /\ OnlyOf(r, pending, pending') /\ pending'[r] \in BOOLEAN
    BY <1>1, <1>3, <2>1, Types DEF OnlyOf
  <2>5. (pending'[r] /\ setop[r] = "REPLACE") <=> Granted(r)
    BY <2>1 DEF Granted
  <2>6. pc'[r] # "flag" /\ pc[r] \notin {"finop", "ackwait", "finalize"}
    BY <2>1, <2>2
  <2> QED
    BY <2>1, <2>2, <2>3, <2>4, <2>5, <2>6, LeaderWalks
<1>8. CASE AdaptNext(r)
  <2>1. /\ pc[r] = "handled" /\ ~ Announcing(r) /\ main[r] = e
        /\ pending'[r] = TRUE /\ OnlyOf(r, pending, pending')
        /\ UNCHANGED <<use, log, comm, rank, iter, idx, main, flagOf>>
    <3>1. /\ pc[r] = "handled" /\ pending' = [pending EXCEPT ![r] = TRUE]
          /\ UNCHANGED <<use, log, comm, rank, iter, idx, main, flagOf>>
      BY <1>3, <1>8 DEF AdaptNext, SendIfRoot, SendSetop, NoSetop
    <3> QED
      BY <1>1, <1>4, <3>1, Types DEF OnlyOf, Announcing
  <2>2. CASE ~ pending[r]
    <3>1. SendSetop(r, "bottom")
      BY <1>1, <1>8, <2>2 DEF AdaptNext, SendIfRoot
    <3>2. ~ Granted(r)
      BY <2>2 DEF Granted
    <3>3. /\ Asked(r, e) /\ pc'[r] = "bottom"
          /\ OnlyOf(r, setop, setop') /\ OnlyOf(r, out, out')
      BY <2>1, <3>1, <3>2, SendsAsk
    <3>4. Walks(r, e)
      BY <2>1, <3>3 DEF Walks
    <3>5. OnlyOf(r, flagOf, flagOf') /\ flagOf'[r] \in BOOLEAN
      BY <1>1, <1>3, <2>1, Types DEF OnlyOf
    <3> QED
      BY <1>3, <2>1, <3>2, <3>3, <3>4, <3>5, LeaderWalks
  <2>3. CASE pending[r]
    <3>1. pc' = [pc EXCEPT ![r] = "bottom"] /\ UNCHANGED <<psets, setop, out>>
      BY <1>8, <2>3 DEF AdaptNext, NoSetop
    <3>2. OnlyOf(r, pc, pc') /\ pc'[r] = "bottom"
      BY <1>1, <3>1, Types DEF OnlyOf
    <3>3. Walks(r, e)
      BY <2>1, <3>2 DEF Walks
    <3>4. OnlyOf(r, flagOf, flagOf') /\ flagOf'[r] \in BOOLEAN
      BY <1>1, <1>3, <2>1, Types DEF OnlyOf
    <3>5. (pending'[r] /\ setop[r] = "REPLACE") <=> Granted(r)
      BY <2>1, <2>3 DEF Granted
    <3> QED
      BY <1>3, <2>1, <3>1, <3>2, <3>3, <3>4, <3>5, LeaderWalks
  <2> QED
    BY <1>3, <2>2, <2>3
\* Steps that tell the other members something.
<1>9. ASSUME /\ UNCHANGED <<use, psets, comm, rank, main, pending, setop, out, flagOf, iter>>
             /\ pc[r] \in {"flag", "user"}
             /\ OnlyOf(r, pc, pc') /\ idx' = [idx EXCEPT ![r] = idx[r] + 1],
             NEW m \in Message, m.kind \in {"flag", "user"},
             log' = [log EXCEPT ![e] = Append(log[e], m)],
             Tells(r, e),
             \/ pc'[r] = "finop"
             \/ pc'[r] = "names" /\ m = FlagMessage(TRUE)
             \/ pc'[r] = "bottom",
             pc[r] = "flag" => (pc'[r] = "names" <=> flagOf[r])
      PROVE  LeaderStep(r, e)
  <2>1. /\ log' \in Seq(Seq(Message)) /\ Len(log') = Len(log) /\ log'[e] = Append(log[e], m)
        /\ \A f \in 1 .. e - 1 : log'[f] = log[f]
    <3>1. Append(log[e], m) \in Seq(Message) /\ e \in 1 .. Len(log)
      BY <1>1, <1>9 DEF Newest
    <3> DEFINE n == Append(log[e], m)
    <3>2. log' = [log EXCEPT ![e] = n]
      BY <1>9
    <3> HIDE DEF n
    <3>3. n \in Seq(Message)
      BY <3>1 DEF n
    <3>4. log' \in Seq(Seq(Message)) /\ Len(log') = Len(log) /\ log'[e] = n
          /\ \A f \in 1 .. e - 1 : log'[f] = log[f]
      BY <1>1, <1>3, <3>1, <3>2, <3>3
    <3> QED
      BY <3>4 DEF n
  <2>2. Len(log'[e]) = Len(log[e]) + 1 /\ log'[e][Len(log'[e])] = m
    BY <1>1, <1>9, <2>1
  <2>3. ~ Left(e)'
    BY <1>9, <2>2 DEF Left
  <2>4. idx'[r] = Len(log'[e]) /\ idx'[r] \in Nat /\ OnlyOf(r, idx, idx')
    BY <1>1, <1>9, <2>2, Types DEF OnlyOf
  <2>5. pc[r] = "flag" => pending[r]
    BY <1>1 DEF Leads
  <2>6. (pc[r] = "user" => ~ pending[r] /\ pc'[r] = "finop")
        /\ (pc[r] = "flag" => pc'[r] \in {"names", "bottom"})
    BY <1>1, <1>9 DEF Tells, Leads
  <2>7. /\ rank'[r] = rank[r] /\ comm'[r] = comm[r] /\ iter'[r] = iter[r] /\ main'[r] = main[r]
        /\ pending'[r] = pending[r] /\ setop'[r] = setop[r] /\ out'[r] = out[r]
        /\ flagOf'[r] = flagOf[r]
    BY <1>9
  <2>8. Leads(r, e)'
    <3>1. pc'[r] \in {"finop", "names", "bottom"} /\ (pc'[r] = "finop" => pc[r] = "user")
          /\ iter[r] < use.iterations /\ use' = use
      BY <1>1, <1>9, <2>6 DEF Leads, Ending
    <3>2. pc'[r] = "finop" => e > 1 /\ ~ pending[r]
      BY <1>1, <2>6, <3>1 DEF Leads
    <3>3. pc'[r] = "names" =>
            Len(log'[e]) > 0 /\ log'[e][Len(log'[e])] = FlagMessage(TRUE) /\ pending[r]
      <4>1. Len(log'[e]) > 0
        BY <1>1, <2>2
      <4>2. pc'[r] = "names" => pc[r] = "flag" /\ m = FlagMessage(TRUE)
        BY <1>9, <2>6
      <4> QED
        BY <2>2, <2>5, <4>1, <4>2
    <3> QED
      BY <1>1, <2>4, <2>7, <3>1, <3>2, <3>3 DEF Leads, Latest
  <2>9. Asks(r, e)'
    <3>1. Announcing(r)' <=> Announcing(r)
      BY <1>9, <2>6, <2>7 DEF Announcing
    <3>2. Granted(r)' <=> Granted(r)
      BY <2>7 DEF Granted
    <3> QED
      BY <1>1, <1>9, <2>7, <3>1, <3>2 DEF Asks
  <2>10. FinOf(r, e)'
    <3>1. psets' = psets /\ pc'[r] # "exit" /\ pc[r] # "exit"
          /\ (pc'[r] \in {"user", "finop"} <=> pc[r] \in {"user", "finop"})
      BY <1>9, <2>6
    <3> QED
      BY <1>1, <3>1 DEF FinOf
  <2>11. Agrees(r, r, e)'
    BY <2>5, <2>6, <2>7, <1>9 DEF Agrees
  <2>12. LeaderFrame(r, e)
    <3>1. Kept /\ psets' \in Seq(Pset) /\ psets'[Len(psets)].key = psets[Len(psets)].key
          /\ \A f \in 1 .. e - 1 : psets'[f] = psets[f]
      BY <1>1, <1>9, <2>1 DEF Kept, Newest
    <3>2. OnlyOf(r, main, main') /\ OnlyOf(r, flagOf, flagOf')
      BY <1>1, <1>9, Types DEF OnlyOf
    <3>3. pc'[r] \in Locations \ Outside
      BY <1>9 DEF Locations, Outside
    <3> QED
      BY <1>3, <1>9, <2>1, <2>4, <2>7, <3>1, <3>2, <3>3, LeaderStays
  <2>13. LeaderMoves(r, e)
    BY <1>9, <2>7 DEF LeaderMoves
  <2> QED
    BY <2>3, <2>8, <2>9, <2>10, <2>11, <2>12, <2>13 DEF LeaderStep
<1>10. CASE CastFlag(r)
  <2>1. /\ pc[r] = "flag" /\ idx' = [idx EXCEPT ![r] = idx[r] + 1]
        /\ log' = [log EXCEPT ![e] = Append(log[e], FlagMessage(flagOf[r]))]
        /\ pc' = [pc EXCEPT ![r] = IF flagOf[r] THEN "names" ELSE "bottom"]
        /\ UNCHANGED <<use, psets, comm, rank, main, pending, setop, out, flagOf, iter>>
    BY <1>1, <1>3, <1>10 DEF CastFlag, CastSend, CastReady, AfterFlag, FlagMessage
  <2>2. FlagMessage(flagOf[r]) \in Message /\ FlagMessage(flagOf[r]).kind = "flag"
    BY <1>3 DEF FlagMessage, Message
  <2>3. OnlyOf(r, pc, pc') /\ pc'[r] = IF flagOf[r] THEN "names" ELSE "bottom"
    BY <1>1, <2>1, Types DEF OnlyOf
  <2>4. log'[e] = Append(log[e], FlagMessage(flagOf[r]))
    BY <1>1, <1>3, <2>1 DEF Newest
  <2>5. Tells(r, e)
    BY <1>3, <2>1, <2>3, <2>4 DEF Tells
  <2>6. flagOf[r] = TRUE \/ flagOf[r] = FALSE
    BY <1>3
  <2>7. CASE flagOf[r] = TRUE
    BY <1>9, <2>1, <2>2, <2>3, <2>5, <2>7
  <2>8. CASE flagOf[r] = FALSE
    <3> DEFINE m == FlagMessage(flagOf[r])
    <3>1. m \in Message /\ m.kind = "flag" /\ log' = [log EXCEPT ![e] = Append(log[e], m)]
          /\ pc'[r] = "bottom"
      BY <2>1, <2>2, <2>3, <2>8
    <3> HIDE DEF m
    <3> QED
      BY <1>9, <2>1, <2>3, <2>5, <2>8, <3>1
  <2> QED
    BY <2>6, <2>7, <2>8
<1>11. CASE ExpandSend(r)
  <2>0. pc[r] = "user" /\ main[r] = e
    BY <1>4, <1>11 DEF ExpandSend, Announcing
  <2>1. CASE psets[e].added # {}
    <3> DEFINE m == [kind |-> "user", val |-> iter[r]]
    <3>1. /\ idx' = [idx EXCEPT ![r] = idx[r] + 1]
          /\ log' = [log EXCEPT ![e] = Append(log[e], m)]
          /\ pc' = [pc EXCEPT ![r] = "finop"]
          /\ UNCHANGED <<use, psets, comm, rank, main, pending, setop, out, flagOf, iter>>
      BY <1>1, <1>3, <1>11, <2>0, <2>1 DEF ExpandSend, CastSend, CastReady
    <3>2. m \in Message /\ m.kind = "user"
      BY <1>3 DEF Message
    <3>3. OnlyOf(r, pc, pc') /\ pc'[r] = "finop"
      BY <1>1, <3>1, Types DEF OnlyOf
    <3>4. log'[e] = Append(log[e], m)
      BY <1>1, <1>3, <3>1 DEF Newest
    <3>5. Tells(r, e)
      BY <2>0, <2>1, <3>1, <3>3, <3>4 DEF Tells
    <3> HIDE DEF m
    <3> QED
      BY <1>9, <2>0, <3>1, <3>2, <3>3, <3>5
  <2>2. CASE psets[e].added = {}
    <3>1. /\ pc' = [pc EXCEPT ![r] = "finop"]
          /\ UNCHANGED <<use, psets, log, comm, rank, iter, idx, main, flagOf, pending, setop,
                         out>>
      BY <1>3, <1>11, <2>0, <2>2 DEF ExpandSend
    <3>2. OnlyOf(r, pc, pc') /\ pc'[r] = "finop" /\ ~ Announcing(r)
      BY <1>1, <2>0, <3>1, Types DEF OnlyOf, Announcing
    <3>3. Walks(r, e)
      BY <2>0, <2>2, <3>1, <3>2 DEF Walks
    <3>4. OnlyOf(r, flagOf, flagOf') /\ flagOf'[r] \in BOOLEAN
          /\ OnlyOf(r, pending, pending') /\ pending'[r] \in BOOLEAN
      BY <1>1, <1>3, <3>1, Types DEF OnlyOf
    <3>5. (pending'[r] /\ setop[r] = "REPLACE") <=> Granted(r)
      BY <3>1 DEF Granted
    <3> QED
      BY <2>0, <3>1, <3>2, <3>3, <3>4, <3>5, LeaderWalks
  <2> QED
    BY <2>1, <2>2
\* Steps that change what the runtime keeps with set e or e + 1.
<1>12. ASSUME /\ UNCHANGED <<use, log, comm, rank, idx, pending, setop, out, iter>>
              /\ OnlyOf(r, pc, pc') /\ OnlyOf(r, main, main') /\ OnlyOf(r, flagOf, flagOf')
              /\ flagOf'[r] \in BOOLEAN,
              NEW x \in Epochs, x \in {e, e + 1}, NEW s \in Pset, s.members = psets[x].members,
              s.added = psets[x].added, s.removed = psets[x].removed,
              s.key = psets[x].key \/ (x = e + 1 /\ psets[x].key = "none"),
              psets' = [psets EXCEPT ![x] = s],
              main'[r] = main[r] \/ (main[r] = e /\ main'[r] = e + 1 /\ Len(psets) = e + 1),
              Walks(r, e), pc[r] \in {"check", "finop", "finalize", "ackwait"},
              pc'[r] = "ackwait" => Granted(r),
              IF pc'[r] = "flag" /\ flagOf'[r]
              THEN main'[r] = e + 1 /\ Granted(r) /\ x = e + 1 /\ s.key = "main"
              ELSE /\ main'[r] = e
                   /\ Granted(r) =>
                        /\ x = e + 1
                        /\ \/ s.key = "none"
                           \/ s.key = "canceled" /\ pc'[r] \in {"ackwait", "exit"},
              s.fin = IF x = e THEN 1 ELSE IF pc'[r] = "exit" THEN 1 ELSE 0,
              x = e <=> pc[r] = "finop"
       PROVE  LeaderStep(r, e)
  <2>1. /\ Kept /\ psets' \in Seq(Pset) /\ Len(psets') = Len(psets)
        /\ \A f \in Epochs : psets'[f] = IF f = x THEN s ELSE psets[f]
    <3>1. x = 1 => s.key = psets[1].key
      BY <1>1, <1>12
    <3> QED
      BY <1>12, <3>1, SetChanges
  <2>2. /\ pc'[r] \in {"flag", "handled", "bottom", "ackwait", "exit"}
        /\ pc'[r] = "flag" <=> pc[r] = "check"
        /\ pc'[r] \in {"ackwait", "exit"} <=> pc[r] \in {"finalize", "ackwait"}
    BY <1>12 DEF Walks, Ahead, Idle
  <2>3. /\ rank'[r] = rank[r] /\ comm'[r] = comm[r] /\ iter'[r] = iter[r] /\ idx'[r] = idx[r]
        /\ pending'[r] = pending[r] /\ setop'[r] = setop[r] /\ out'[r] = out[r]
        /\ log' = log /\ use' = use
    BY <1>12
  <2>4. ~ Left(e)'
    BY <2>3 DEF Left
  <2>5. Leads(r, e)'
    BY <1>1, <1>12, <2>2, <2>3 DEF Leads, Granted, Ending
  <2>6. Granted(r)' <=> Granted(r)
    BY <2>3 DEF Granted
  <2>7. (Granted(r) => Len(psets) = e + 1 /\ out[r] = e + 1) /\ (Len(psets) = e + 1 => Granted(r))
    BY <1>1 DEF Asks
  <2>8. psets'[x] = s
    BY <2>1
  <2>9. Asks(r, e)'
    <3>1. Announcing(r)' <=> pc'[r] = "flag" /\ flagOf'[r]
      BY <2>2 DEF Announcing
    <3> QED
      BY <1>12, <2>1, <2>3, <2>6, <2>7, <2>8, <3>1 DEF Asks
  <2>10. FinOf(r, e)'
    <3>1. CASE pc[r] = "finop"
      <4>1. ~ Granted(r) /\ e > 1 /\ x = e
        BY <1>1, <1>12, <3>1 DEF Leads, Granted
      <4>2. Len(psets') # e + 1
        BY <2>1, <2>7, <4>1
      <4>3. psets'[e].fin = 1
        BY <1>12, <2>8, <4>1
      <4> QED
        BY <1>1, <2>2, <3>1, <4>1, <4>2, <4>3 DEF FinOf
    <3>2. CASE pc[r] # "finop"
      <4>1. x = e + 1 /\ s.fin = IF pc'[r] = "exit" THEN 1 ELSE 0
        BY <1>1, <1>12, <3>2
      <4>2. psets'[e] = psets[e]
        BY <1>1, <2>1, <4>1
      <4>3. pc[r] \notin {"user", "finop"} /\ pc'[r] \notin {"user", "finop"}
        BY <1>12, <2>2, <3>2
      <4> QED
        BY <1>1, <2>8, <4>1, <4>2, <4>3 DEF FinOf
    <3> QED
      BY <3>1, <3>2
  <2>11. Agrees(r, r, e)'
    BY <1>1, <1>12, <2>2, <2>3 DEF Agrees, Leads
  <2>12. LeaderFrame(r, e)
    <3>1. psets'[Len(psets)].key = psets[Len(psets)].key \/ psets[Len(psets)].key = "none"
      <4>1. Len(psets) \in Epochs
        BY <1>1 DEF Epochs
      <4>2. CASE Len(psets) = x
        <5>1. psets'[Len(psets)].key = s.key
          BY <2>8, <4>2
        <5> QED
          BY <1>12, <4>2, <5>1
      <4>3. CASE Len(psets) # x
        BY <2>1, <4>1, <4>3
      <4> QED
        BY <4>2, <4>3
    <3>2. \A f \in 1 .. e - 1 : psets'[f] = psets[f] /\ log'[f] = log[f]
      <4>1. ASSUME NEW f \in 1 .. e - 1 PROVE f \in Epochs /\ f # x
        BY <1>1, <1>12 DEF Epochs
      <4> QED
        BY <2>1, <2>3, <4>1
    <3>3. pc'[r] \in Locations \ Outside
      BY <2>2 DEF Locations, Outside
    <3>4. OnlyOf(r, idx, idx') /\ idx'[r] \in Nat
      BY <1>1, <2>3, <1>12, Types DEF OnlyOf
    <3> QED
      BY <1>3, <1>12, <2>1, <2>3, <3>1, <3>2, <3>3, <3>4, LeaderStays
  <2>13. LeaderMoves(r, e)
    <3>1. psets'[e].added = psets[e].added
      BY <1>1, <2>1 DEF Kept
    <3> QED
      BY <1>12, <2>3, <3>1 DEF LeaderMoves
  <2> QED
    BY <2>4, <2>5, <2>9, <2>10, <2>11, <2>12, <2>13 DEF LeaderStep
<1>13. Len(psets) = e + 1 => e + 1 \in Epochs /\ psets[e + 1] \in Pset
  BY <1>1 DEF Epochs
<1>14. /\ Granted(r) => Len(psets) = e + 1 /\ out[r] = e + 1
       /\ Len(psets) = e + 1 => Granted(r)
  BY <1>1 DEF Asks
<1>15. CASE CheckSetop(r)
  <2>1. pc[r] = "check" /\ pending[r]
    BY <1>1, <1>15 DEF CheckSetop, Leads
  <2>2. ~ Announcing(r) /\ main[r] = e
    BY <1>4, <2>1 DEF Announcing
  <2>3. CASE setop[r] = "REPLACE"
    <3>1. Granted(r) /\ out[r] = e + 1 /\ Len(psets) = e + 1 /\ psets[e + 1].key = "none"
          /\ psets[e + 1].fin = 0
      BY <1>1, <2>1, <2>2, <2>3 DEF Granted, Asks, FinOf
    <3> DEFINE s == [psets[e + 1] EXCEPT !.key = "main"]
    <3>2. /\ s \in Pset /\ s.members = psets[e + 1].members /\ s.added = psets[e + 1].added
          /\ s.removed = psets[e + 1].removed /\ s.key = "main" /\ s.fin = 0
      BY <1>13, <3>1 DEF Pset
    <3>3. /\ UNCHANGED <<use, log, comm, rank, idx, pending, setop, out, iter>>
          /\ pc' = [pc EXCEPT ![r] = "flag"] /\ main' = [main EXCEPT ![r] = e + 1]
          /\ flagOf' = [flagOf EXCEPT ![r] = TRUE]
          /\ psets' = [psets EXCEPT ![e + 1] = s]
      <4>1. setop[r] = "REPLACE" <=> TRUE
        BY <2>3
      <4> QED
        BY <1>3, <1>15, <2>3, <3>1, <4>1 DEF CheckSetop
    <3>4. /\ OnlyOf(r, pc, pc') /\ OnlyOf(r, main, main') /\ OnlyOf(r, flagOf, flagOf')
          /\ pc'[r] = "flag" /\ main'[r] = e + 1 /\ flagOf'[r] = TRUE
      BY <1>1, <3>3, Types DEF OnlyOf
    <3>5. Walks(r, e)
      BY <2>1, <3>3, <3>4 DEF Walks
    <3>6. e + 1 \in Epochs /\ e + 1 # e
      BY <1>1, <1>13, <3>1
    <3> HIDE DEF s
    <3> QED
      BY <1>12, <2>1, <2>2, <3>1, <3>2, <3>3, <3>4, <3>5, <3>6
  <2>4. CASE setop[r] # "REPLACE"
    <3>1. SendSetop(r, "flag") /\ UNCHANGED <<use, log, comm, rank, iter, idx, main, pending>>
      BY <1>3, <1>15, <2>4 DEF CheckSetop, SendSetop
    <3>2. flagOf' = [flagOf EXCEPT ![r] = FALSE]
      <4>1. (setop[r] = "REPLACE") = FALSE
        BY <2>4
      <4> QED
        BY <1>15, <4>1 DEF CheckSetop
    <3>3. ~ Granted(r)
      BY <2>4 DEF Granted
    <3>4. /\ Asked(r, e) /\ pc'[r] = "flag"
          /\ OnlyOf(r, setop, setop') /\ OnlyOf(r, out, out')
      BY <2>2, <3>1, <3>3, SendsAsk
    <3>5. OnlyOf(r, flagOf, flagOf') /\ flagOf'[r] = FALSE
          /\ OnlyOf(r, pending, pending') /\ pending'[r] = TRUE
      BY <1>1, <1>3, <2>1, <3>1, <3>2, Types DEF OnlyOf
    <3>6. Walks(r, e)
      BY <2>1, <3>1, <3>4 DEF Walks
    <3> QED
      BY <1>3, <2>1, <2>2, <3>1, <3>3, <3>4, <3>5, <3>6, LeaderWalks
  <2> QED
    BY <2>3, <2>4
<1>16. CASE FinalizeSetop(r)
  <2>1. pc[r] = "finop" /\ ~ Granted(r) /\ e > 1 /\ main[r] = e /\ psets[e].fin = 0
    <3>1. pc[r] = "finop"
      BY <1>16 DEF FinalizeSetop
    <3> QED
      BY <1>1, <1>4, <3>1 DEF Leads, Granted, Announcing, FinOf
  <2> DEFINE s == [psets[e] EXCEPT !.fin = @ + 1]
  <2>2. /\ s \in Pset /\ s.members = psets[e].members /\ s.added = psets[e].added
        /\ s.removed = psets[e].removed /\ s.key = psets[e].key /\ s.fin = 1
    <3>1. psets[e] \in Pset /\ psets[e].fin = 0
      BY <1>1, <2>1
    <3> QED
      BY <3>1 DEF Pset
  <2>3. /\ UNCHANGED <<use, log, comm, rank, idx, main, flagOf, pending, setop, out, iter>>
        /\ pc' = [pc EXCEPT ![r] = IF use.nonBlocking THEN "handled" ELSE "bottom"]
        /\ psets' = [psets EXCEPT ![e] = s]
    BY <1>1, <1>3, <1>16, <2>1 DEF FinalizeSetop
  <2>4. /\ OnlyOf(r, pc, pc') /\ OnlyOf(r, main, main') /\ OnlyOf(r, flagOf, flagOf')
        /\ pc'[r] = IF use.nonBlocking THEN "handled" ELSE "bottom"
        /\ main'[r] = e /\ flagOf'[r] \in BOOLEAN
    BY <1>1, <1>3, <2>1, <2>3, Types DEF OnlyOf
  <2>5. Walks(r, e) /\ pc'[r] \notin {"flag", "ackwait", "exit"}
    BY <2>1, <2>3, <2>4 DEF Walks
  <2> HIDE DEF s
  <2> QED
    BY <1>1, <1>12, <2>1, <2>2, <2>3, <2>4, <2>5
<1>17. CASE Finalize(r)
  <2>1. pc[r] = "finalize" /\ main[r] = e /\ ~ Announcing(r)
        /\ UNCHANGED <<use, log, comm, rank, idx, main, flagOf, pending, setop, out, iter>>
    <3>1. pc[r] = "finalize"
          /\ UNCHANGED <<use, log, comm, rank, idx, main, flagOf, pending, setop, out, iter>>
      BY <1>3, <1>17 DEF Finalize
    <3> QED
      BY <1>4, <3>1 DEF Announcing
  <2>2. OnlyOf(r, main, main') /\ OnlyOf(r, flagOf, flagOf') /\ flagOf'[r] \in BOOLEAN
        /\ OnlyOf(r, pending, pending') /\ pending'[r] \in BOOLEAN /\ main'[r] = e
    BY <1>1, <1>3, <2>1, Types DEF OnlyOf
  <2>3. CASE ~ Granted(r)
    <3>1. pc' = [pc EXCEPT ![r] = "exit"] /\ UNCHANGED psets
      BY <1>17, <2>3 DEF Finalize, Granted
    <3>2. OnlyOf(r, pc, pc') /\ pc'[r] = "exit"
      BY <1>1, <3>1, Types DEF OnlyOf
    <3>3. Walks(r, e)
      BY <2>1, <3>2 DEF Walks
    <3>4. (pending'[r] /\ setop[r] = "REPLACE") <=> Granted(r)
      BY <2>1 DEF Granted
    <3> QED
      BY <2>1, <2>2, <2>3, <3>1, <3>2, <3>3, <3>4, LeaderWalks
  <2>4. ASSUME Granted(r)
        PROVE  LeaderStep(r, e)
    <3>1. /\ out[r] = e + 1 /\ Len(psets) = e + 1 /\ psets[e + 1].key = "none"
          /\ psets[e + 1].fin = 0 /\ pending[r] /\ setop[r] = "REPLACE"
          /\ e + 1 \in Epochs /\ psets[e + 1] \in Pset /\ e + 1 # e
      BY <1>1, <1>13, <1>14, <2>1, <2>4 DEF Asks, FinOf, Granted
    <3>2. CASE psets[e + 1].added # {}
      <4> DEFINE s == [psets[e + 1] EXCEPT !.key = "canceled"]
      <4>1. /\ s \in Pset /\ s.members = psets[e + 1].members /\ s.added = psets[e + 1].added
            /\ s.removed = psets[e + 1].removed /\ s.key = "canceled" /\ s.fin = 0
        BY <3>1 DEF Pset
      <4>2. psets' = [psets EXCEPT ![e + 1] = s] /\ pc' = [pc EXCEPT ![r] = "ackwait"]
        BY <1>1, <1>17, <3>1, <3>2 DEF Finalize
      <4>3. OnlyOf(r, pc, pc') /\ pc'[r] = "ackwait"
        BY <1>1, <4>2, Types DEF OnlyOf
      <4>4. Walks(r, e)
        BY <2>1, <4>3 DEF Walks
      <4> HIDE DEF s
      <4> QED
        BY <1>12, <2>1, <2>2, <2>4, <3>1, <4>1, <4>2, <4>3, <4>4
    <3>3. CASE psets[e + 1].added = {}
      <4> DEFINE s == [psets[e + 1] EXCEPT !.fin = @ + 1]
      <4>1. /\ s \in Pset /\ s.members = psets[e + 1].members /\ s.added = psets[e + 1].added
            /\ s.removed = psets[e + 1].removed /\ s.key = "none" /\ s.fin = 1
        BY <3>1 DEF Pset
      <4>2. psets' = [psets EXCEPT ![e + 1] = s] /\ pc' = [pc EXCEPT ![r] = "exit"]
        BY <1>1, <1>17, <3>1, <3>3 DEF Finalize
      <4>3. OnlyOf(r, pc, pc') /\ pc'[r] = "exit"
        BY <1>1, <4>2, Types DEF OnlyOf
      <4>4. Walks(r, e)
        BY <2>1, <4>3 DEF Walks
      <4> HIDE DEF s
      <4> QED
        BY <1>12, <2>1, <2>2, <2>4, <3>1, <4>1, <4>2, <4>3, <4>4
    <3> QED
      BY <3>2, <3>3
  <2> QED
    BY <2>3, <2>4
<1>18. CASE AckWait(r)
  <2>1. /\ pc[r] = "ackwait"
        /\ UNCHANGED <<use, log, comm, rank, idx, main, flagOf, pending, setop, out, iter>>
    BY <1>3, <1>18 DEF AckWait
  <2>2. Granted(r) /\ main[r] = e
    BY <1>1, <1>4, <2>1 DEF Leads, Announcing
  <2>3. OnlyOf(r, main, main') /\ OnlyOf(r, flagOf, flagOf') /\ flagOf'[r] \in BOOLEAN
        /\ pending'[r] = pending[r] /\ main'[r] = e
    BY <1>1, <1>3, <2>1, <2>2, Types DEF OnlyOf
  <2>4. /\ out[r] = e + 1 /\ Len(psets) = e + 1 /\ psets[e + 1].key \in {"none", "canceled"}
        /\ psets[e + 1].fin = 0
        /\ e + 1 \in Epochs /\ psets[e + 1] \in Pset /\ e + 1 # e
    BY <1>1, <1>13, <1>14, <2>1, <2>2 DEF Asks, FinOf, Announcing
  <2> DEFINE s == [psets[e + 1] EXCEPT !.fin = @ + 1]
  <2>5. /\ s \in Pset /\ s.members = psets[e + 1].members /\ s.added = psets[e + 1].added
        /\ s.removed = psets[e + 1].removed /\ s.key = psets[e + 1].key /\ s.fin = 1
    BY <2>4 DEF Pset
  <2>6. psets' = [psets EXCEPT ![e + 1] = s] /\ pc' = [pc EXCEPT ![r] = "exit"]
    BY <1>1, <1>18, <2>4 DEF AckWait
  <2>7. OnlyOf(r, pc, pc') /\ pc'[r] = "exit"
    BY <1>1, <2>6, Types DEF OnlyOf
  <2>8. Walks(r, e)
    BY <2>1, <2>3, <2>7 DEF Walks
  <2> HIDE DEF s
  <2> QED
    BY <1>12, <2>1, <2>2, <2>3, <2>4, <2>5, <2>6, <2>7, <2>8
<1>19. pc[r] \notin {"spawned", "exprecv", "disconnect"} /\ ~ SkipCheck(r)
  BY <1>1, <1>2 DEF Outside, SkipCheck
<1> QED
  BY <1>5, <1>6, <1>7, <1>8, <1>10, <1>11, <1>15, <1>16, <1>17, <1>18, <1>19
  DEF Step, Lookup, ExpandRecv, CastNames, Disconnect

-----------------------------------------------------------------------------
(* The leader announces the new set. *)

\* What was last of a log comes before what is appended.
LEMMA LastOfAppend ==
  ASSUME NEW S, NEW l \in Seq(S), NEW x \in S
  PROVE  /\ Len(Append(l, x)) = Len(l) + 1 /\ Append(l, x)[Len(l) + 1] = x
         /\ Len(l) > 0 => Append(l, x)[Len(l)] = l[Len(l)]
<1>1. Len(l) \in Nat /\ Len(Append(l, x)) = Len(l) + 1
  OBVIOUS
<1>2. Len(l) + 1 \in 1 .. Len(l) + 1 /\ (Len(l) > 0 => Len(l) \in 1 .. Len(l))
  BY <1>1
<1> QED
  BY <1>1, <1>2

\* Rank 0 announces the next set: its communicator has no leader any more.
LEMMA AnnounceKeeps ==
  ASSUME IInv, NEW e, e = Newest, e > 0, ~ Left(e), NEW r, r = Lead, pc[r] = "names",
         CastNames(r), use' = use
  PROVE  IInv'
<1>1. /\ e \in Nat /\ e \in Epochs /\ r \in Procs /\ psets \in Seq(Pset)
      /\ Leads(r, e) /\ Asks(r, e) /\ FinOf(r, e)
      /\ rank[r] = 0 /\ comm[r] = e /\ e # 0
      /\ log[e] \in Seq(Message) /\ Len(log[e]) \in Nat /\ idx[r] = Len(log[e])
  BY Leader
<1>2. /\ main[r] = e + 1 /\ Len(psets) = e + 1 /\ psets[e + 1].key = "main"
      /\ psets[e + 1].fin = 0 /\ (e > 1 => psets[e].fin = 1)
      /\ Len(log[e]) > 0 /\ log[e][Len(log[e])] = FlagMessage(TRUE) /\ iter[r] < use.iterations
      /\ e + 1 \in Epochs
  <2>1. main[r] = e + 1 /\ Len(psets) = e + 1 /\ psets[e + 1].key = "main"
    BY <1>1 DEF Asks, Announcing
  <2>2. psets[e + 1].fin = 0 /\ (e > 1 => psets[e].fin = 1)
    BY <1>1, <2>1 DEF FinOf
  <2>3. Len(log[e]) > 0 /\ log[e][Len(log[e])] = FlagMessage(TRUE) /\ iter[r] < use.iterations
    BY <1>1 DEF Leads, Latest, Ending
  <2>4. e + 1 \in Epochs
    BY <1>1, <2>1 DEF Epochs
  <2> QED
    BY <2>1, <2>2, <2>3, <2>4
<1> DEFINE n == Len(log[e])
           m == [kind |-> "names", val |-> e + 1]
<1>3. /\ UNCHANGED <<use, psets, comm, main, setop, out, flagOf, iter>>
      /\ log' = [log EXCEPT ![e] = Append(log[e], m)]
      /\ idx' = [idx EXCEPT ![r] = idx[r] + 1]
      /\ pending' = [pending EXCEPT ![r] = FALSE]
      /\ AfterNames(r, e + 1)
  BY <1>1, <1>2 DEF CastNames, CastSend, CastReady, AfterNames, setopVars
<1>4. /\ log' \in Seq(Seq(Message)) /\ Len(log') = Len(log) /\ log'[e] = Append(log[e], m)
      /\ \A f \in 1 .. e : f # e => log'[f] = log[f]
  <2>1. e + 1 \in Nat /\ m \in Message
    BY <1>1 DEF Message
  <2> DEFINE l == Append(log[e], m)
  <2>2. l \in Seq(Message) /\ e \in 1 .. Len(log) /\ log \in Seq(Seq(Message))
    BY <1>1, <2>1, Types DEF Newest
  <2>3. log' = [log EXCEPT ![e] = l]
    BY <1>3
  <2> HIDE DEF l
  <2>4. log' \in Seq(Seq(Message)) /\ Len(log') = Len(log) /\ log'[e] = l
        /\ \A f \in 1 .. e : f # e => log'[f] = log[f]
    BY <1>1, <2>2, <2>3
  <2> QED
    BY <2>4 DEF l
<1>5. /\ Len(log'[e]) = n + 1 /\ log'[e][n + 1] = m /\ log'[e][n] = FlagMessage(TRUE)
  <2>1. m \in Message
    BY <1>1 DEF Message
  <2> DEFINE l == log[e]
             k == log'[e]
  <2>2. l \in Seq(Message) /\ n = Len(l) /\ n > 0 /\ k = Append(l, m) /\ l[n] = FlagMessage(TRUE)
    BY <1>1, <1>2, <1>4
  <2> HIDE DEF m, l, k
  <2>3. Len(k) = Len(l) + 1 /\ k[Len(l) + 1] = m /\ (Len(l) > 0 => k[Len(l)] = l[Len(l)])
    BY <2>1, <2>2, LastOfAppend
  <2> QED
    BY <2>2, <2>3 DEF k
<1>6. Left(e)' /\ Newest' = e
  BY <1>4, <1>5 DEF Left, Newest
<1>7. /\ SetsInv' /\ Epochs' = Epochs /\ Lead' = r /\ Kept
      /\ \A f \in Epochs : Members(f)' = Members(f)
  <2>1. Kept
    BY <1>3, <1>6 DEF Kept
  <2> QED
    BY <1>1, <2>1, KeptSets
\* What r does next: it stays in the new set, or is removed.
<1>8. /\ OnlyOf(r, pc, pc') /\ OnlyOf(r, rank, rank') /\ OnlyOf(r, idx, idx')
      /\ OnlyOf(r, pending, pending')
      /\ pending'[r] = FALSE /\ idx'[r] = n + 1 /\ rank'[r] \in Int
      /\ \/ pc'[r] = "disconnect" /\ r \in Members(e + 1)
         \/ pc'[r] = "finalize" /\ rank'[r] = -1 /\ r \notin Members(e + 1)
  <2>1. r \in Members(e)
    BY <1>1, Ranks DEF IInv, Lead
  <2>2. psets[e + 1].removed = {} => r \in Members(e + 1)
    <3>1. e + 1 > 1 /\ (e + 1) - 1 = e /\ IsMainSet(e + 1)
      BY <1>1, <1>2 DEF IInv, SetsInv
    <3> QED
      BY <2>1, <3>1 DEF IsMainSet
  <2>3. pending'[r] = FALSE /\ idx'[r] = n + 1 /\ OnlyOf(r, idx, idx')
        /\ OnlyOf(r, pending, pending')
    BY <1>1, <1>3, Types DEF OnlyOf
  <2>4. CASE r \in Members(e + 1)
    <3>1. pc' = [pc EXCEPT ![r] = "disconnect"] /\ rank' = rank
      BY <1>3, <2>4 DEF AfterNames
    <3> QED
      BY <1>1, <2>3, <2>4, <3>1, Types DEF OnlyOf
  <2>5. CASE r \notin Members(e + 1)
    <3>1. pc' = [pc EXCEPT ![r] = "finalize"] /\ rank' = [rank EXCEPT ![r] = -1]
      BY <1>3, <2>2, <2>5 DEF AfterNames
    <3>2. pc'[r] = "finalize" /\ OnlyOf(r, pc, pc')
      BY <1>1, <3>1, Types DEF OnlyOf
    <3>3. rank'[r] = -1 /\ OnlyOf(r, rank, rank') /\ -1 \in Int
      BY <1>1, <3>1, Types DEF OnlyOf
    <3> QED
      BY <2>3, <2>5, <3>2, <3>3
  <2> QED
    BY <2>4, <2>5
<1>9. ASSUME NEW q \in Procs, q # r PROVE SameAt(q)
  BY <1>1, <1>3, <1>8, <1>9, Types DEF OnlyOf, SameAt
<1>10. TypeOK'
  <2>1. pc' \in [Procs -> Locations] /\ rank' \in [Procs -> Int] /\ idx' \in [Procs -> Nat]
        /\ pending' \in [Procs -> BOOLEAN]
    <3>1. pending'[r] \in BOOLEAN
      BY <1>8
    <3>2. idx'[r] \in Nat
      <4>1. n + 1 \in Nat
        BY <1>1
      <4> QED
        BY <1>8, <4>1
    <3>3. pc'[r] \in Locations
      BY <1>8 DEF Locations
    <3> QED
      BY <1>1, <1>8, <3>1, <3>2, <3>3, OnlyType, Types
  <2> QED
    BY <1>3, <1>4, <2>1 DEF IInv, TypeOK
<1>11. PlaceOf(r) /\ pc'[r] \notin Outside /\ pc'[r] # "create"
  BY <1>1, <1>8 DEF IInv, PlaceInv, Outside
<1>12. PlaceInv'
  <2>1. ASSUME NEW q \in Procs, q # r PROVE PlaceOf(q)'
    <3>1. SameAt(q) /\ PlaceOf(q)
      BY <1>9, <2>1 DEF IInv, PlaceInv
    <3>2. psets'[Len(psets)].key = psets[Len(psets)].key
      BY <1>3
    <3> QED
      BY <1>6, <1>7, <3>1, <3>2, SamePlace
  <2>2. PlaceOf(r)'
    BY <1>1, <1>3, <1>6, <1>7, <1>11 DEF PlaceOf, Outside, Dismissed, Members
  <2> QED
    BY <2>1, <2>2 DEF PlaceInv
<1>13. MemberInv'
  <2>1. ASSUME NEW q \in Procs, q # r PROVE MemberOf(q)'
    BY <1>7, <1>9, <2>1, SameMember DEF IInv, MemberInv
  <2>2. MemberOf(r)'
    <3>1. MemberOf(r)
      BY <1>1 DEF IInv, MemberInv
    <3> QED
      BY <1>1, <1>3, <1>6, <3>1 DEF MemberOf, Members
  <2> QED
    BY <2>1, <2>2 DEF MemberInv
\* The others are still to hear of it.
<1>14. ASSUME NEW q \in Members(e), q # r
       PROVE  /\ q \in Procs /\ comm[q] = e /\ SameAt(q) /\ iter[q] = iter[r]
              /\ rank[q] # 0 /\ main[q] = e
              /\ \/ Ahead(q) /\ idx[q] = n - 1
                 \/ pc[q] = "names" /\ idx[q] = n
  <2>1. q \in Procs /\ Follows(q, r, e)
    BY <1>1, <1>14, Ranks DEF IInv, TeamInv
  <2>2. comm[q] = e
    BY <1>1, <1>14, <2>1 DEF IInv, MemberInv, MemberOf, PlaceInv, PlaceOf
  <2>3. Ahead(q) \/ pc[q] = "names"
    BY <1>1, <2>1 DEF Follows, Near, Loop, Ending, Idle, Ahead
  <2>4. iter[q] = iter[r] /\ rank[q] # 0 /\ main[q] = e
    BY <2>1, <2>3 DEF Follows, InStep, Ending, Ahead
  <2>5. (Ahead(q) => idx[q] = n - 1) /\ (pc[q] = "names" => idx[q] = n)
    BY <2>1, <2>3 DEF Follows, Heard, Ahead, Ending
  <2> QED
    BY <1>9, <1>14, <2>1, <2>2, <2>3, <2>4, <2>5
<1>15. LeftInv'
  <2>1. ASSUME NEW q \in Procs, comm'[q] = e PROVE Leaves(q, e)'
    <3>1. q \in Members(e)
      BY <1>1, <1>3, <2>1 DEF IInv, PlaceInv, PlaceOf
    <3>2. CASE q = r
      <4>1. main'[r] = e + 1 /\ ~ pending'[r] /\ idx'[r] = Len(log'[e])
            /\ Members(e + 1)' = Members(e + 1) /\ Newest' = e
        BY <1>2, <1>3, <1>5, <1>6, <1>7, <1>8
      <4> QED
        BY <1>8, <3>2, <4>1 DEF Leaves
    <3>3. CASE q # r
      <4>1. /\ SameAt(q) /\ rank[q] # 0 /\ main[q] = e
            /\ \/ Ahead(q) /\ idx[q] = n - 1
               \/ pc[q] = "names" /\ idx[q] = n
        BY <1>14, <3>1, <3>3
      <4>2. /\ Ahead(q)' <=> Ahead(q)
            /\ rank'[q] # 0 /\ main'[q] = e /\ idx'[q] = idx[q] /\ pc'[q] = pc[q]
        BY <1>3, <4>1 DEF SameAt, Ahead
      <4>3. Len(log'[e]) - 2 = n - 1 /\ Len(log'[e]) - 1 = n
        BY <1>1, <1>5
      <4> QED
        BY <4>1, <4>2, <4>3 DEF Leaves
    <3> QED
      BY <3>2, <3>3
  <2>2. ASSUME NEW f \in 1 .. e - 1 PROVE Left(f)' /\ log'[f] = log[f] /\ Left(f)
    <3>1. f \in 1 .. e /\ f # e /\ Left(f)
      BY <1>1 DEF IInv, LeftInv
    <3> QED
      BY <1>4, <3>1 DEF Left
  <2>3. ASSUME NEW f \in 1 .. e - 1, NEW q \in Procs, comm'[q] = f PROVE Leaves(q, f)'
    <3>1. q # r /\ comm[q] = f /\ f \in 1 .. e
      BY <1>1, <1>3, <2>3
    <3>2. Leaves(q, f) /\ SameAt(q)
      BY <1>9, <2>2, <3>1 DEF IInv, LeftInv
    <3>3. Members(f + 1)' = Members(f + 1)
      <4>1. f + 1 \in Epochs
        BY <1>1, <1>2 DEF Epochs
      <4> QED
        BY <1>7, <4>1
    <3> QED
      BY <1>3, <1>6, <2>2, <3>2, <3>3, SameLeaver
  <2>4. /\ Len(log'[e]) > 1
        /\ log'[e][Len(log'[e]) - 1] = [kind |-> "flag", val |-> TRUE]
        /\ log'[e][Len(log'[e])] = [kind |-> "names", val |-> e + 1]
    <3>1. Len(log'[e]) - 1 = n /\ Len(log'[e]) > 1
      BY <1>1, <1>2, <1>5
    <3> QED
      BY <1>5, <3>1 DEF FlagMessage
  <2>5. \A p, q \in Members(e) : iter'[p] = iter'[q] /\ iter'[p] < use'.iterations
    BY <1>2, <1>3, <1>14
  <2>6. \A f \in 1 .. e : f = e \/ f \in 1 .. e - 1
    BY <1>1
  <2>7. Members(e)' = Members(e)
    BY <1>1, <1>7
  <2>8. ASSUME NEW f \in 1 .. e
        PROVE  LET l == Len(log'[f]) IN
               /\ l > 1
               /\ log'[f][l - 1] = [kind |-> "flag", val |-> TRUE]
               /\ log'[f][l] = [kind |-> "names", val |-> f + 1]
               /\ \A q \in Procs : comm'[q] = f => Leaves(q, f)'
    <3>1. CASE f = e
      BY <2>1, <2>4, <3>1
    <3>2. CASE f # e
      <4>1. f \in 1 .. e - 1
        BY <2>6, <3>2
      <4> QED
        BY <2>2, <2>3, <4>1 DEF IInv, LeftInv
    <3> QED
      BY <3>1, <3>2
  <2> QED
    BY <1>2, <1>3, <1>6, <2>2, <2>5, <2>7, <2>8 DEF LeftInv, Members
<1>16. FinInv'
  <2>1. psets[1].fin = 0 /\ \A f \in 2 .. e - 1 : psets[f].fin = 1
    BY DEF IInv, FinInv
  <2> QED
    BY <1>2, <1>3, <1>6, <2>1 DEF FinInv, Left
<1>17. LeadInv' /\ TeamInv'
  BY <1>6 DEF LeadInv, TeamInv, Left
<1> QED
  BY <1>4, <1>7, <1>10, <1>12, <1>13, <1>15, <1>16, <1>17 DEF IInv

=============================================================================
