--------------------------- MODULE DynPsets_proofs ---------------------------
(***************************************************************************)
(* Theorems about DynPsets, checked by TLAPS for every Procs, Uses and     *)
(* MaxPsets.                                                               *)
(*                                                                         *)
(* The newest communicator, that of set Len(log), is led by its rank 0.    *)
(* Everything another member may be doing is bounded by what the leader    *)
(* has done: TeamInv relates each member to the leader alone, never two    *)
(* members to each other.  When the leader announces a new set, the        *)
(* communicator is left behind, and LeftInv says what its members, however *)
(* late, can still do there.                                               *)
(***************************************************************************)
EXTENDS DynPsets, FiniteSetTheorems, TLAPS

Pset == [members : Seq(Procs), added : SUBSET Procs, removed : SUBSET Procs,
         key : {"none", "main", "canceled"}, ack : BOOLEAN, fin : Nat]
Message == [kind : {"flag"}, val : BOOLEAN] \cup [kind : {"names", "user"}, val : Nat]

Newest == Len(log)
Lead == Root(Newest)

\* A main set lists each of its processes once; the operation that made it adds
\* processes in no earlier set, behind those that stay.
IsMainSet(e) ==
  /\ psets[e].members # <<>>
  /\ IsInjective(psets[e].members)
  /\ psets[e].added \subseteq Members(e)
  /\ \A d \in 1 .. e - 1 : psets[e].added \cap Members(d) = {}
  /\ e > 1 => /\ Root(e) \notin psets[e].added
              /\ Members(e) = (Members(e - 1) \ psets[e].removed) \cup psets[e].added

SetsInv ==
  /\ Len(psets) \in {Len(log), Len(log) + 1} /\ Len(psets) > 0
  /\ psets[1].members = [i \in Orig |-> i] /\ psets[1].key = "none"
  /\ \A e \in Epochs : IsMainSet(e)

\* The processes in no communicator: not yet, between two, or canceled.
Outside == {"off", "spawned", "init", "create", "crash"}

\* Rank 0 has announced the set after e: the communicator of e is left.
Left(e) == Len(log[e]) > 0 /\ log[e][Len(log[e])].kind = "names"

Dismissed(p) == pc[p] = "crash"

\* A process outside of a communicator waits for the newest set or was never
\* used; one inside knows the set of it.
PlaceOf(p) ==
  LET new == psets[Len(psets)]
  IN /\ pc[p] \in Outside => comm[p] = 0
     /\ comm[p] = 0 => pc[p] \in Outside
     /\ pc[p] = "off" => main[p] = 0 /\ \A e \in Epochs : p \notin Members(e)
     /\ pc[p] \in {"spawned", "init", "create"} \/ Dismissed(p)
          => Len(psets) = Newest + 1 /\ p \in Members(Len(psets))
     /\ pc[p] = "spawned" => main[p] = 0 /\ p \in new.added
     /\ pc[p] = "init" =>
          /\ main[p] = Len(psets)
          /\ Newest > 0 => p \in new.added /\ new.key = "main"
     /\ pc[p] = "create" => /\ main[p] = Len(psets) /\ ~ pending[p]
                            /\ Newest > 0 /\ p \in Members(Newest) /\ Left(Newest)
     /\ Dismissed(p) =>
          main[p] = 0 /\ Newest > 0 /\ new.key = "canceled" /\ p \in new.added
     /\ comm[p] # 0 => /\ comm[p] \in 1 .. Newest /\ p \in Members(comm[p])
                       /\ main[p] >= comm[p]
                       /\ comm[p] < Newest => p \notin Members(comm[p] + 1)
     /\ Len(psets) = Newest + 1 /\ p \in new.added
          => pc[p] \in {"spawned", "init"} \/ Dismissed(p)

PlaceInv == \A p \in Procs : PlaceOf(p)

\* Every member of a set whose communicator was made knows that set.  The
\* members of the newest are in it, or have left it behind.
MemberOf(p) ==
  /\ \A e \in 1 .. Newest : p \in Members(e) => main[p] >= e
  /\ Newest > 0 /\ p \in Members(Newest) => comm[p] = Newest \/ pc[p] = "create"
  /\ Newest = 0 /\ p \in Orig => pc[p] = "init" /\ ~ pending[p] /\ iter[p] = 0

MemberInv == \A p \in Procs : MemberOf(p)

\* p is still to take part in the broadcast of flag in this iteration.
Ahead(p) == \/ pc[p] \in {"check", "flag"}
            \/ pc[p] = "adapt" /\ (use.nonBlocking => pending[p])

\* A member p of communicator e that is still in it after the announcement has
\* that to receive, or has seen it: then it either belongs to the next set, or
\* it has been removed and ends.
Leaves(p, e) ==
  LET n == Len(log[e])
  IN \/ Ahead(p) /\ rank[p] # 0 /\ idx[p] = n - 2 /\ main[p] = e
     \/ pc[p] = "names" /\ rank[p] # 0 /\ idx[p] = n - 1 /\ main[p] = e
     \/ /\ pc[p] = "disconnect" /\ e = Newest /\ idx[p] = n
        /\ main[p] = e + 1 /\ p \in Members(e + 1) /\ ~ pending[p]
     \/ pc[p] \in {"finalize", "exit"} /\ rank[p] = -1 /\ p \notin Members(e + 1)

\* A communicator is left with the announcement as its last message.  All have
\* been in the same iteration then.
LeftInv ==
  /\ \A e \in 1 .. Newest - 1 : Left(e)
  /\ \A e \in 1 .. Newest : Left(e) =>
       LET n == Len(log[e]) IN
       /\ n > 1
       /\ log[e][n - 1] = [kind |-> "flag", val |-> TRUE]
       /\ log[e][n] = [kind |-> "names", val |-> e + 1]
       /\ \A p \in Procs : comm[p] = e => Leaves(p, e)
  /\ Newest > 0 /\ Left(Newest) =>
       /\ Len(psets) = Newest + 1 /\ psets[Newest + 1].key = "main"
       /\ \A p, q \in Members(Newest) : iter[p] = iter[q] /\ iter[p] < use.iterations

\* The leader has announced the next set to the process it waits for, or knows it.
Announcing(p) == pc[p] = "names" \/ (pc[p] = "flag" /\ flagOf[p])
Granted(p) == pending[p] /\ setop[p] = "REPLACE"
Ending == {"finalize", "ackwait", "exit"}
Loop == {"finop", "handled", "bottom"}

FlagMessage(f) == [kind |-> "flag", val |-> f]
Latest(e) == log[e][Len(log[e])]

\* What r does as the leader of communicator e.
Leads(r, e) ==
  /\ rank[r] = 0 /\ idx[r] = Len(log[e]) /\ comm[r] = e
  /\ pc[r] \notin {"exprecv", "disconnect"}
  /\ pc[r] \in {"launch", "user", "finop"} => ~ pending[r]
  /\ pc[r] \in {"check", "flag", "names"} => pending[r]
  /\ pc[r] = "ackwait" => Granted(r)
  /\ pc[r] = "names" => Len(log[e]) > 0 /\ Latest(e) = FlagMessage(TRUE)
  /\ pc[r] \in {"launch", "entry"} => e = 1
  /\ pc[r] \in {"user", "finop"} => e > 1
  /\ pc[r] = "user" => Len(log[e]) = 0
  /\ pc[r] \notin Ending \cup {"launch", "entry"} => iter[r] < use.iterations

\* What r knows of the operation on set e that is outstanding, if there is one.
Asks(r, e) ==
  /\ Len(psets) = e + 1 <=> Granted(r)
  /\ Granted(r) => out[r] = e + 1
  /\ IF Announcing(r)
     THEN main[r] = e + 1 /\ Granted(r) /\ psets[e + 1].key = "main"
     ELSE /\ main[r] = e
          /\ Granted(r) => \/ psets[e + 1].key = "none"
                           \/ psets[e + 1].key = "canceled" /\ pc[r] \in {"ackwait", "exit"}

\* The leader of the newest communicator has asked for the operation that is
\* outstanding; it alone tells the spawned processes and finalizes.
LeadInv ==
  Newest > 0 /\ ~ Left(Newest) => Leads(Lead, Newest) /\ Asks(Lead, Newest)

\* The operations are finalized once: by the leader when it has told the members
\* of the new communicator, or when it ends.
FinInv ==
  /\ psets[1].fin = 0
  /\ \A e \in 2 .. Newest - 1 : psets[e].fin = 1
  /\ Newest > 1 =>
       psets[Newest].fin = IF ~ Left(Newest) /\ pc[Lead] \in {"user", "finop"} THEN 0 ELSE 1
  /\ Newest > 0 /\ Len(psets) = Newest + 1 =>
       psets[Newest + 1].fin = IF ~ Left(Newest) /\ pc[Lead] = "exit" THEN 1 ELSE 0

\* What setop_pending is when p comes to the next barrier.
Due(p) == IF pc[p] \in Barriers THEN pending[p]
          ELSE IF pc[p] = "launch" THEN use.initInfo ELSE TRUE

\* p has nothing to check in this iteration: nothing is pending.
Idle(p) == pc[p] = "adapt" /\ ~ Ahead(p)

\* Where the leader r of communicator e is while p is where it is.
Near(p, r, e) ==
  /\ pc[p] \in {"launch", "entry", "exprecv", "user", "finop", "handled", "bottom", "top",
                 "adapt", "check", "flag", "names", "finalize", "exit"}
  /\ pc[p] = "launch" \/ (pc[p] = "entry" /\ e = 1) => pc[r] \in {"launch", "entry"}
  /\ pc[p] = "entry" /\ e > 1 => pc[r] \in Loop
  /\ pc[p] \in {"exprecv", "user"} => pc[r] \in Loop \cup {"user"}
  /\ pc[p] \in Loop =>
       \/ pc[r] \in Loop \/ (pc[r] = "user" /\ psets[e].added = {})
       \/ pc[p] # "finop" /\ Idle(r)
  /\ pc[p] = "top" => pc[r] = "top"
  /\ Idle(p) => Idle(r) \/ pc[r] \in {"handled", "bottom"}
  /\ Ahead(p) => Ahead(r) \/ pc[r] \in {"names", "bottom"}
  /\ pc[p] = "names" => pc[r] = "names"
  /\ pc[p] \in {"finalize", "exit"} => pc[r] \in Ending

\* What p has received of the messages of r on communicator e.
Heard(p, r, e) ==
  IF pc[p] \in {"exprecv", "user"} /\ psets[e].added # {}
  THEN /\ idx[p] = 0
       /\ pc[r] # "user" =>
            Len(log[e]) = 1 /\ log[e][1] = [kind |-> "user", val |-> iter[r]]
  ELSE IF Ahead(p) /\ ~ Ahead(r)
  THEN idx[p] = Len(log[e]) - 1 /\ Latest(e) = FlagMessage(pc[r] = "names")
  ELSE pc[p] \notin Ending => idx[p] = Len(log[e])

\* The iteration p is in, in that of r or in the next one.
InStep(p, r, e) ==
  pc[p] \notin Ending \cup {"exprecv"} =>
    iter[p] = IF pc[p] = "entry" /\ e > 1 THEN iter[r] + 1 ELSE iter[r]

Follows(p, r, e) ==
  /\ rank[p] \notin {0, -1} /\ main[p] = e
  /\ Near(p, r, e) /\ Heard(p, r, e) /\ InStep(p, r, e)

\* Of the leader, too.
Agrees(p, r, e) ==
  /\ use.nonBlocking => Due(p) = Due(r)
  /\ pc[p] = "exprecv" => p \in psets[e].added /\ e > 1
  /\ pc[p] \in {"check", "flag"} => pending[p]

\* The members of the newest communicator follow its leader.
TeamInv ==
  Newest > 0 /\ ~ Left(Newest) =>
    \A p \in Members(Newest) :
      /\ p # Lead => Follows(p, Lead, Newest)
      /\ Agrees(p, Lead, Newest)

IInv == /\ TypeOK /\ log \in Seq(Seq(Message)) /\ SetsInv /\ PlaceInv /\ MemberInv /\ LeftInv /\ LeadInv /\ FinInv
        /\ TeamInv

-----------------------------------------------------------------------------

\* An ordered listing of a finite set lists each of its members once.
LEMMA OrderedList ==
  ASSUME NEW S, IsFiniteSet(S), NEW key, \A x \in S : key[x] \in Int,
         NEW s \in Ordered(S, key)
  PROVE  s \in Seq(S) /\ IsInjective(s) /\ ToSet(s) = S
<1> DEFINE n == Cardinality(S)
<1>1. n \in Nat
  BY FS_CardinalityType
<1>2. s \in [1 .. n -> S] /\ IsInjective(s)
  BY DEF Ordered, SetToSeqs, IsInjective
<1>3. IsFiniteSet(1 .. n) /\ Cardinality(1 .. n) = n
  <2>1. 1 \in Int /\ n \in Int
    BY <1>1
  <2> QED
    BY <2>1, <1>1, FS_Interval
<1>4. s \in Injection(1 .. n, S)
  BY <1>2 DEF Injection
<1>5. s \in Surjection(1 .. n, S)
  BY <1>3, <1>4, FS_Injection
<1>6. ToSet(s) = S
  BY <1>2, <1>5 DEF ToSet, Surjection
<1> QED
  BY <1>1, <1>2, <1>6

\* What the members of a set have to do with its sequence.
LEMMA Ranks ==
  ASSUME NEW e \in Epochs, SetsInv, psets \in Seq(Pset)
  PROVE  /\ Root(e) \in Members(e) /\ Members(e) \subseteq Procs
         /\ \A p \in Members(e) : RankIn(p, e) \in Nat /\ (RankIn(p, e) = 0 <=> p = Root(e))
<1> DEFINE ms == psets[e].members
<1>1. ms \in Seq(Procs) /\ ms # <<>> /\ IsInjective(ms)
  <2>1. psets[e] \in Pset
    BY DEF Epochs
  <2>2. ms \in Seq(Procs)
    BY <2>1 DEF Pset
  <2> QED
    BY <2>2 DEF SetsInv, IsMainSet
<1>2. Root(e) = ms[1] /\ 1 \in DOMAIN ms /\ Members(e) = {ms[i] : i \in DOMAIN ms}
  BY <1>1 DEF Root, Members, ToSet
<1>3. ASSUME NEW p \in Members(e)
      PROVE  RankIn(p, e) \in Nat /\ (RankIn(p, e) = 0 <=> p = Root(e))
  <2>1. \E i \in 0 .. Len(ms) - 1 : ms[i + 1] = p
    <3>1. PICK j \in DOMAIN ms : ms[j] = p
      BY <1>2
    <3>2. j - 1 \in 0 .. Len(ms) - 1 /\ ms[(j - 1) + 1] = p
      BY <1>1, <3>1
    <3> QED
      BY <3>2
  <2>2. RankIn(p, e) \in 0 .. Len(ms) - 1 /\ ms[RankIn(p, e) + 1] = p
    BY <2>1 DEF RankIn
  <2>3. \A i, j \in DOMAIN ms : ms[i] = ms[j] => i = j
    BY <1>1 DEF IsInjective
  <2>4. RankIn(p, e) + 1 \in DOMAIN ms /\ RankIn(p, e) \in Nat
    BY <1>1, <2>2
  <2> HIDE DEF ms
  <2> QED
    BY <1>2, <2>2, <2>3, <2>4
<1> QED
  BY <1>1, <1>2, <1>3

\* The type invariant, as the steps of the proofs need it.
LEMMA Types ==
  ASSUME IInv
  PROVE  /\ use \in Use
         /\ psets \in Seq(Pset) /\ log \in Seq(Seq(Message))
         /\ Len(psets) \in Nat /\ Newest \in Nat /\ Newest <= Len(psets)
         /\ pc \in [Procs -> Locations] /\ comm \in [Procs -> Nat]
         /\ main \in [Procs -> Nat] /\ rank \in [Procs -> Int]
         /\ pending \in [Procs -> BOOLEAN]
         /\ setop \in [Procs -> {"unset", "NULL", "REPLACE"}]
         /\ out \in [Procs -> Nat] /\ idx \in [Procs -> Nat]
         /\ flagOf \in [Procs -> BOOLEAN] /\ iter \in [Procs -> Nat]
<1>1. psets \in Seq(Pset) /\ log \in Seq(Seq(Message)) /\ use \in Use
  BY UsesAssumption DEF IInv, TypeOK, Pset
<1>2. Len(psets) \in Nat /\ Newest \in Nat /\ Newest <= Len(psets)
  BY <1>1 DEF IInv, SetsInv, Newest
<1>3. \A n \in Nat : 0 .. n \subseteq Nat
  OBVIOUS
<1>4. use.iterations \in Nat
  BY <1>1 DEF Use
<1>5. comm \in [Procs -> 0 .. Len(psets)] /\ main \in [Procs -> 0 .. Len(psets)]
      /\ out \in [Procs -> 0 .. Len(psets)] /\ iter \in [Procs -> 0 .. use.iterations]
  BY DEF IInv, TypeOK
<1>6. comm \in [Procs -> Nat] /\ main \in [Procs -> Nat] /\ out \in [Procs -> Nat]
      /\ iter \in [Procs -> Nat]
  BY <1>2, <1>3, <1>4, <1>5
<1> QED
  BY <1>1, <1>2, <1>6 DEF IInv, TypeOK

\* Of what happens to processes one by one, only that of p changes.
OnlyOf(p, f, g) == g = [f EXCEPT ![p] = g[p]]

\* Changing one value of a function keeps its type.
LEMMA OnlyType ==
  ASSUME NEW S, NEW f \in [Procs -> S], NEW p \in Procs, NEW g, OnlyOf(p, f, g), g[p] \in S
  PROVE  g \in [Procs -> S]
BY DEF OnlyOf

\* A member of the newest set with what the invariant says of it.
LEMMA Who ==
  ASSUME IInv, NEW p \in Procs, comm[p] # 0
  PROVE  LET e == comm[p] IN
         /\ e \in 1 .. Newest /\ e \in Epochs /\ p \in Members(e)
         /\ e < Newest => p \notin Members(e + 1)
         /\ \/ Left(e) /\ Leaves(p, e)
            \/ /\ ~ Left(e) /\ e = Newest
               /\ Leads(Lead, e) /\ Asks(Lead, e) /\ Agrees(p, Lead, e)
               /\ p # Lead => Follows(p, Lead, e)
<1> DEFINE e == comm[p]
<1>1. /\ e \in 1 .. Newest /\ p \in Members(e) /\ Newest \in Nat
      /\ e < Newest => p \notin Members(e + 1)
  BY DEF IInv, PlaceInv, PlaceOf, Newest
<1>2. e \in Epochs
  BY <1>1 DEF IInv, SetsInv, Epochs, Newest
<1>3. CASE Left(e)
  BY <1>1, <1>2, <1>3 DEF IInv, LeftInv
<1>4. CASE ~ Left(e)
  <2>1. e = Newest /\ Newest > 0
    BY <1>1, <1>4 DEF IInv, LeftInv
  <2> QED
    BY <1>1, <1>2, <1>4, <2>1 DEF IInv, LeadInv, TeamInv
<1> QED
  BY <1>1, <1>2, <1>3, <1>4

-----------------------------------------------------------------------------
(* What stays true of processes and sets that a step does not touch. *)

SameAt(q) ==
  /\ pc'[q] = pc[q] /\ comm'[q] = comm[q] /\ main'[q] = main[q] /\ rank'[q] = rank[q]
  /\ pending'[q] = pending[q] /\ setop'[q] = setop[q] /\ out'[q] = out[q]
  /\ idx'[q] = idx[q] /\ flagOf'[q] = flagOf[q] /\ iter'[q] = iter[q]

\* Without a new set or message, the communicators are what they were.
LEMMA SameWorld ==
  ASSUME UNCHANGED <<use, psets, log>>
  PROVE  /\ SetsInv => SetsInv'
         /\ Newest' = Newest /\ Lead' = Lead /\ Epochs' = Epochs
         /\ \A e : Members(e)' = Members(e) /\ Root(e)' = Root(e) /\ Left(e)' = Left(e)
<1>1. \A e : Members(e)' = Members(e) /\ Root(e)' = Root(e) /\ Left(e)' = Left(e)
  BY DEF Members, Root, Left
<1>2. Newest' = Newest /\ Epochs' = Epochs
  BY DEF Newest, Epochs
<1>3. Lead' = Lead
  BY DEF Lead, Newest, Root
<1>4. \A e : IsMainSet(e) => IsMainSet(e)'
  BY <1>1 DEF IsMainSet
<1>5. SetsInv => SetsInv'
  BY <1>2, <1>4 DEF SetsInv, Orig
<1> QED
  BY <1>1, <1>2, <1>3, <1>5

\* The sets keep their processes, and the communicators theirs.
Kept ==
  /\ use' = use /\ Len(psets') = Len(psets) /\ Newest' = Newest
  /\ \A e \in Epochs : /\ psets'[e].members = psets[e].members
                       /\ psets'[e].added = psets[e].added
                       /\ psets'[e].removed = psets[e].removed
  /\ psets'[1].key = psets[1].key

\* The sets are what they were while they are kept.
LEMMA KeptSets ==
  ASSUME IInv, Kept
  PROVE  /\ SetsInv' /\ Epochs' = Epochs
         /\ \A e \in Epochs : Members(e)' = Members(e) /\ Root(e)' = Root(e)
         /\ Newest > 0 => Lead' = Lead
<1>1. Epochs' = Epochs
  BY DEF Kept, Epochs
<1>2. \A e \in Epochs : Members(e)' = Members(e) /\ Root(e)' = Root(e)
  BY DEF Kept, Members, Root
<1>3. ASSUME NEW e \in Epochs PROVE IsMainSet(e)'
  <2>1. e \in Nat /\ e > 0 /\ \A d \in 1 .. e - 1 : d \in Epochs
    BY Types DEF Epochs
  <2>2. e > 1 => e - 1 \in Epochs
    BY <2>1, Types DEF Epochs
  <2>3. IsMainSet(e)
    BY DEF IInv, SetsInv
  <2> QED
    BY <1>2, <2>1, <2>2, <2>3 DEF IsMainSet, Kept
<1>4. SetsInv'
  <2>1. 1 \in Epochs
    BY Types DEF Epochs, IInv, SetsInv
  <2>2. Len(log') = Len(log)
    BY DEF Kept, Newest
  <2>3. psets'[1].members = psets[1].members /\ Orig' = Orig
    BY <2>1 DEF Kept, Orig
  <2> QED
    BY <1>1, <1>3, <2>2, <2>3 DEF SetsInv, Kept, IInv
<1>5. Newest > 0 => Lead' = Lead
  BY <1>2, Types DEF Lead, Epochs, Kept, Root
<1> QED
  BY <1>1, <1>2, <1>4, <1>5

\* Who is in no communicator and stands still is where it may be.
LEMMA SamePlace ==
  ASSUME IInv, NEW q, SameAt(q), Kept, Left(Newest) => Left(Newest)',
         \/ psets'[Len(psets)].key = psets[Len(psets)].key
         \/ psets[Len(psets)].key = "none",
         PlaceOf(q)
  PROVE  PlaceOf(q)'
<1>1. Epochs' = Epochs /\ \A e \in Epochs : Members(e)' = Members(e)
  BY KeptSets
<1>2. /\ Newest \in Nat /\ Len(psets) \in Nat /\ Newest <= Len(psets) /\ Len(psets) > 0
      /\ Newest' = Newest /\ Len(psets') = Len(psets)
  BY Types DEF Kept, IInv, SetsInv
<1>3. /\ Len(psets) \in Epochs
      /\ Newest > 0 => Newest \in Epochs
      /\ comm[q] \in 1 .. Newest => comm[q] \in Epochs
      /\ comm[q] \in 1 .. Newest /\ comm[q] < Newest => comm[q] + 1 \in Epochs
  BY <1>2 DEF Epochs
<1>4. /\ psets'[Len(psets)].added = psets[Len(psets)].added
      /\ Members(Len(psets))' = Members(Len(psets))
      /\ Newest > 0 => Members(Newest)' = Members(Newest)
  <2>1. Members(Len(psets))' = ToSet(psets'[Len(psets)].members)
    BY <1>2 DEF Members
  <2>2. Members(Newest)' = ToSet(psets'[Newest].members)
    BY <1>2 DEF Members
  <2> QED
    BY <1>3, <2>1, <2>2 DEF Kept, Members
<1>5. comm[q] \in 1 .. Newest =>
        /\ ToSet(psets'[comm[q]].members) = Members(comm[q])
        /\ comm[q] < Newest => ToSet(psets'[comm[q] + 1].members) = Members(comm[q] + 1)
  BY <1>3 DEF Kept, Members
<1> QED
  BY <1>1, <1>2, <1>4, <1>5 DEF PlaceOf, SameAt, Dismissed, Members

\* A member that stands still knows its set.
LEMMA SameMember ==
  ASSUME IInv, NEW q, SameAt(q), Kept, MemberOf(q)
  PROVE  MemberOf(q)'
<1>1. Newest \in Nat /\ Newest' = Newest /\ \A e \in 1 .. Newest : e \in Epochs
  BY Types DEF Epochs, Kept
<1>2. \A e \in 1 .. Newest : Members(e)' = Members(e)
  BY <1>1, KeptSets
<1>3. Newest > 0 => Members(Newest)' = Members(Newest)
  <2>1. Members(Newest)' = ToSet(psets'[Newest].members)
    BY <1>1 DEF Members
  <2>2. Newest > 0 => Newest \in Epochs
    BY <1>1
  <2> QED
    BY <2>1, <2>2 DEF Members, Kept
<1> QED
  BY <1>1, <1>2, <1>3 DEF MemberOf, SameAt, Orig, Kept

\* The counts of finalized operations are right as long as none is changed.
LEMMA SameFin ==
  ASSUME IInv, Len(psets') = Len(psets), \A e \in Epochs : psets'[e].fin = psets[e].fin,
         Newest' = Newest, Left(Newest)' <=> Left(Newest),
         Newest > 0 /\ ~ Left(Newest) => pc'[Lead'] = pc[Lead]
  PROVE  FinInv'
<1>1. /\ 1 \in Epochs /\ \A e \in 2 .. Newest - 1 : e \in Epochs
      /\ Newest > 1 => Newest \in Epochs
      /\ Newest > 0 /\ Len(psets) = Newest + 1 => Newest + 1 \in Epochs
      /\ Newest \in Nat
  BY Types DEF IInv, SetsInv, Epochs
<1>2. psets'[1].fin = 0 /\ \A e \in 2 .. Newest - 1 : psets'[e].fin = 1
  BY <1>1 DEF IInv, FinInv
<1>3. Newest > 1 => psets'[Newest].fin = IF ~ Left(Newest)' /\ pc'[Lead'] \in {"user", "finop"}
                                        THEN 0 ELSE 1
  BY <1>1 DEF IInv, FinInv
<1>4. Newest > 0 /\ Len(psets) = Newest + 1 =>
       psets'[Newest + 1].fin = IF ~ Left(Newest)' /\ pc'[Lead'] = "exit" THEN 1 ELSE 0
  BY <1>1 DEF IInv, FinInv
<1> QED
  BY <1>2, <1>3, <1>4 DEF FinInv

\* A process that is late on a communicator and stands still may be there.
LEMMA SameLeaver ==
  ASSUME NEW q, NEW e, SameAt(q), use' = use, log'[e] = log[e], Newest' = Newest,
         Members(e + 1)' = Members(e + 1), Leaves(q, e)
  PROVE  Leaves(q, e)'
BY DEF Leaves, SameAt, Ahead

\* A leader that stands still leads.
LEMMA SameLeader ==
  ASSUME NEW r, NEW e, SameAt(r), use' = use, log'[e] = log[e], Leads(r, e)
  PROVE  Leads(r, e)'
BY DEF Leads, SameAt, Granted, Latest

\* It knows of the outstanding operation what it knew.
LEMMA SameAsker ==
  ASSUME NEW r, NEW e, SameAt(r), Len(psets') = Len(psets),
         psets'[e + 1].key = psets[e + 1].key, Asks(r, e)
  PROVE  Asks(r, e)'
BY DEF Asks, SameAt, Granted, Announcing

\* A follower follows while it, its leader and the log stand still.
LEMMA SameFollower ==
  ASSUME NEW q, NEW r, NEW e, SameAt(q), SameAt(r), use' = use, log'[e] = log[e],
         psets'[e].added = psets[e].added
  PROVE  /\ Follows(q, r, e) => Follows(q, r, e)'
         /\ Agrees(q, r, e) => Agrees(q, r, e)'
<1> USE DEF SameAt, Ahead, Idle, Latest
<1>1. Near(q, r, e) => Near(q, r, e)'
  BY DEF Near
<1>2. Heard(q, r, e) => Heard(q, r, e)'
  BY DEF Heard
<1>3. InStep(q, r, e) => InStep(q, r, e)'
  BY DEF InStep
<1>4. Agrees(q, r, e) => Agrees(q, r, e)'
  BY DEF Agrees, Due
<1> QED
  BY <1>1, <1>2, <1>3, <1>4 DEF Follows

-----------------------------------------------------------------------------
(* A process whose communicator has been left behind. *)

\* What a late process changes: nothing but its own state.
LeaverStep(p, e) ==
  /\ UNCHANGED <<use, psets, log, setop, out, flagOf, iter>>
  /\ OnlyOf(p, pc, pc') /\ OnlyOf(p, comm, comm') /\ OnlyOf(p, main, main')
  /\ OnlyOf(p, rank, rank') /\ OnlyOf(p, pending, pending') /\ OnlyOf(p, idx, idx')
  /\ pending'[p] \in BOOLEAN /\ rank'[p] \in Int /\ idx'[p] \in Nat
  /\ main'[p] = main[p] \/ (main[p] = e /\ main'[p] = e + 1)
  /\ \/ comm'[p] = e /\ Leaves(p, e)'
     \/ /\ comm'[p] = 0 /\ pc'[p] = "create" /\ ~ pending'[p] /\ e = Newest
        /\ main'[p] = e + 1 /\ p \in Members(e + 1)

\* Every step on a communicator that is left fits the summary of such steps.
LEMMA LeaverSteps ==
  ASSUME IInv, NEW p \in Procs, NEW e \in 1 .. Newest, comm[p] = e, Left(e), Step(p)
  PROVE  LeaverStep(p, e)
<1> DEFINE n == Len(log[e])
<1>1. Leaves(p, e) /\ p \in Members(e) /\ e \in Epochs /\ e \in Nat
  BY Who DEF Epochs
<1>2. /\ log[e] \in Seq(Message) /\ n \in Nat /\ n > 1
      /\ log[e][n - 1].val = TRUE /\ log[e][n].val = e + 1
  <2>1. log[e] \in Seq(Message)
    BY Types DEF Newest
  <2>2. /\ n > 1
        /\ log[e][n - 1] = [kind |-> "flag", val |-> TRUE]
        /\ log[e][n] = [kind |-> "names", val |-> e + 1]
    BY DEF IInv, LeftInv
  <2> QED
    BY <2>1, <2>2
<1>3. e + 1 \in Epochs /\ (e < Newest => p \notin Members(e + 1))
  <2>1. e = Newest => Len(psets) = Newest + 1
    BY DEF IInv, LeftInv
  <2>2. Newest \in Nat /\ Len(psets) \in Nat /\ Newest <= Len(psets)
    BY Types
  <2>3. e + 1 <= Len(psets)
    BY <1>1, <2>1, <2>2
  <2>4. e < Newest => p \notin Members(e + 1)
    BY <1>1, Who
  <2> QED
    BY <1>1, <2>2, <2>3, <2>4 DEF Epochs
<1>4. p \notin Members(e + 1) => psets[e + 1].removed # {}
  <2>1. e + 1 > 1 /\ (e + 1) - 1 = e
    BY <1>1
  <2>2. Members(e + 1) = (Members(e) \ psets[e + 1].removed) \cup psets[e + 1].added
    <3>1. IsMainSet(e + 1)
      BY <1>3 DEF IInv, SetsInv
    <3> QED
      BY <2>1, <3>1 DEF IsMainSet
  <2> QED
    BY <1>1, <2>2
<1>5. pc[p] \in {"adapt", "check", "flag", "names", "disconnect", "finalize", "exit"}
  BY <1>1 DEF Leaves, Ahead
<1> USE DEF LeaverStep, OnlyOf, runtimeVars, setopVars, commVars
<1>6. CASE AdaptBlocking(p)
  BY <1>1, Types, <1>6 DEF AdaptBlocking, NoSetop, SendIfRoot, Leaves, Ahead, Step
<1>7. CASE AdaptNonBlocking(p)
  BY <1>1, Types, <1>7 DEF AdaptNonBlocking, NoSetop, Leaves, Ahead, Step
<1>8. CASE SkipCheck(p)
  BY <1>1, Types, <1>8 DEF SkipCheck, NoSetop, Leaves, Ahead, Step
<1>9. CASE CastFlag(p)
  <2>1. pc[p] = "flag" /\ rank[p] # 0 /\ idx[p] = n - 2 /\ main[p] = e
    BY <1>1, <1>9 DEF CastFlag, Leaves, Ahead
  <2>2. CastValue(p) = TRUE
    BY <1>2, <2>1 DEF CastValue
  <2>3. pc' = [pc EXCEPT ![p] = "names"] /\ idx' = [idx EXCEPT ![p] = idx[p] + 1]
        /\ UNCHANGED <<log, psets, comm, rank, main, pending, setopVars, flagOf, iter>>
    BY <1>9, <2>1, <2>2 DEF CastFlag, CastSend, CastTake, AfterFlag
  <2>4. idx[p] + 1 = n - 1
    BY <1>2, <2>1
  <2> QED
    BY <1>2, <2>1, <2>3, <2>4, Types DEF Leaves, Step
<1>10. CASE CastNames(p)
  <2>1. pc[p] = "names" /\ rank[p] # 0 /\ idx[p] = n - 1 /\ main[p] = e
    BY <1>1, <1>10 DEF CastNames, Leaves, Ahead
  <2>2. CastValue(p) = e + 1
    BY <1>2, <2>1 DEF CastValue
  <2>3. /\ idx' = [idx EXCEPT ![p] = idx[p] + 1] /\ main' = [main EXCEPT ![p] = e + 1]
        /\ pending' = [pending EXCEPT ![p] = FALSE] /\ idx[p] + 1 = n
        /\ UNCHANGED <<use, log, psets, comm, setop, out, flagOf, iter>>
    <3>1. idx[p] + 1 = n
      BY <1>2, <2>1
    <3> QED
      BY <1>10, <2>1, <2>2, <3>1 DEF CastNames, CastSend, CastTake, Step
  <2>4. Members(e + 1)' = Members(e + 1) /\ Newest' = Newest
    BY <2>3 DEF Members, Newest
  <2>5. CASE p \notin Members(e + 1)
    <3>1. pc' = [pc EXCEPT ![p] = "finalize"] /\ rank' = [rank EXCEPT ![p] = -1]
      BY <1>4, <1>10, <2>1, <2>2, <2>5 DEF CastNames, CastSend, AfterNames
    <3> QED
      BY <1>1, <1>2, <2>1, <2>3, <2>4, <2>5, <3>1, Types DEF Leaves
  <2>6. CASE p \in Members(e + 1)
    <3>1. pc' = [pc EXCEPT ![p] = "disconnect"] /\ UNCHANGED rank
      BY <1>10, <2>1, <2>2, <2>6 DEF CastNames, CastSend, AfterNames
    <3>2. e = Newest
      BY <1>1, <1>3, <2>6, Types
    <3> QED
      BY <1>1, <1>2, <2>1, <2>3, <2>4, <2>6, <3>1, <3>2, Types DEF Leaves
  <2> QED
    BY <2>5, <2>6
<1>11. CASE Disconnect(p)
  BY <1>1, Types, <1>11 DEF Disconnect, Leaves, Ahead, Step
<1>12. CASE Finalize(p)
  <2>1. rank[p] = -1 /\ p \notin Members(e + 1) /\ pc[p] = "finalize"
    BY <1>1, <1>12 DEF Finalize, Leaves, Ahead
  <2>2. pc' = [pc EXCEPT ![p] = "exit"] /\ UNCHANGED psets
    BY <1>12, <2>1 DEF Finalize
  <2> QED
    BY <1>12, <2>1, <2>2, Types DEF Finalize, Leaves, Step, Members
<1>13. ~ CheckSetop(p)
  BY <1>1 DEF CheckSetop, Leaves, Ahead
<1> QED
  BY <1>5, <1>6, <1>7, <1>8, <1>9, <1>10, <1>11, <1>12, <1>13 DEF Step, Launch, Lookup,
     ExpandRecv, ExpandSend, FinalizeSetop, AdaptNext, AckWait

\* Whatever fits that summary keeps the invariant.
LEMMA LeaverKeeps ==
  ASSUME IInv, NEW p \in Procs, NEW e \in 1 .. Newest, comm[p] = e, Left(e),
         LeaverStep(p, e)
  PROVE  IInv'
<1>1. UNCHANGED <<use, psets, log>> /\ \A q \in Procs : q # p => SameAt(q)
  BY Types DEF LeaverStep, OnlyOf, SameAt
<1>2. /\ SetsInv' /\ Newest' = Newest /\ Lead' = Lead /\ Epochs' = Epochs
      /\ \A f : Members(f)' = Members(f) /\ Root(f)' = Root(f) /\ Left(f)' = Left(f)
  BY <1>1, SameWorld DEF IInv
<1>3. p \in Members(e) /\ e \in Nat /\ Leaves(p, e) /\ PlaceOf(p)
  BY Who DEF Epochs, IInv, PlaceInv
<1>4. /\ pc'[p] \in {"adapt", "check", "flag", "names", "disconnect", "finalize", "exit",
                     "create"}
      /\ pc'[p] # "create" => comm'[p] = e
  BY <1>3, Types DEF LeaverStep, Leaves, Ahead
<1>5. e = Newest => Len(psets) = Newest + 1
  BY DEF IInv, LeftInv
<1>6. main'[p] \in 0 .. Len(psets) /\ comm'[p] \in 0 .. Len(psets) /\ main'[p] \in Nat
      /\ main'[p] >= main[p]
  <2>1. main[p] \in 0 .. Len(psets) /\ comm[p] \in 0 .. Len(psets)
    BY DEF IInv, TypeOK
  <2>2. e + 1 <= Len(psets)
    BY <1>3, <1>5, Types
  <2> QED
    BY <1>3, <1>4, <2>1, <2>2, Types DEF LeaverStep
<1>7. TypeOK'
  <2>1. pc' \in [Procs -> Locations]
    BY <1>4, Types, OnlyType DEF LeaverStep, Locations
  <2>3. rank' \in [Procs -> Int] /\ idx' \in [Procs -> Nat] /\ pending' \in [Procs -> BOOLEAN]
    BY Types, OnlyType DEF LeaverStep
  <2>2. comm' \in [Procs -> 0 .. Len(psets)] /\ main' \in [Procs -> 0 .. Len(psets)]
    BY <1>6, OnlyType DEF LeaverStep, IInv, TypeOK
  <2> QED
    BY <1>1, <2>1, <2>2, <2>3 DEF LeaverStep, IInv, TypeOK
<1>8. PlaceInv'
  <2>0. Kept /\ (Left(Newest) => Left(Newest)')
    BY <1>1, <1>2, SameWorld DEF Kept
  <2>1. ASSUME NEW q \in Procs, q # p PROVE PlaceOf(q)'
    BY <1>1, <2>0, <2>1, SamePlace DEF IInv, PlaceInv
  <2>2. PlaceOf(p)'
    <3>1. /\ ~ (Len(psets) = Newest + 1 /\ p \in psets[Len(psets)].added)
          /\ e < Newest => p \notin Members(e + 1)
          /\ main[p] >= e
      BY <1>3 DEF PlaceOf, Outside, Dismissed
    <3>2. CASE pc'[p] = "create"
      <4>1. /\ comm'[p] = 0 /\ ~ pending'[p] /\ e = Newest /\ main'[p] = e + 1
            /\ p \in Members(e + 1)
        BY <1>3, <1>4, <3>2 DEF LeaverStep, Leaves, Ahead
      <4> QED
        BY <1>1, <1>2, <1>3, <1>5, <3>1, <3>2, <4>1 DEF PlaceOf, Outside, Dismissed
    <3>3. CASE pc'[p] # "create"
      <4>1. comm'[p] = e /\ pc'[p] \notin Outside /\ pc'[p] # "create" /\ e # 0
        BY <1>3, <1>4, <3>3 DEF Outside
      <4>2. main'[p] >= e
        BY <1>3, <1>6, <3>1, Types
      <4> QED
        BY <1>1, <1>2, <1>3, <3>1, <4>1, <4>2 DEF PlaceOf, Outside, Dismissed
    <3> QED
      BY <3>2, <3>3
  <2> QED
    BY <2>1, <2>2 DEF PlaceInv
<1>9. MemberInv'
  <2>0. Kept
    BY <1>1, <1>2 DEF Kept
  <2>1. ASSUME NEW q \in Procs, q # p PROVE MemberOf(q)'
    BY <1>1, <2>0, <2>1, SameMember DEF IInv, MemberInv
  <2>2. MemberOf(p)
    BY DEF IInv, MemberInv
  <2>3. comm'[p] = comm[p] \/ (pc'[p] = "create" /\ e = Newest)
    BY <1>4 DEF LeaverStep, Leaves, Ahead
  <2>4. \A f \in 1 .. Newest : main[p] >= f => main'[p] >= f
    BY <1>6, Types
  <2>5. pc[p] # "create" /\ Newest > 0
    BY <1>3, Types DEF PlaceOf, Outside
  <2>6. MemberOf(p)'
    BY <1>1, <1>2, <2>2, <2>3, <2>4, <2>5 DEF MemberOf
  <2> QED
    BY <2>1, <2>6 DEF MemberInv
<1>10. LeftInv'
  <2>1. ASSUME NEW f \in 1 .. Newest, Left(f), NEW q \in Procs, comm'[q] = f
        PROVE  Leaves(q, f)'
    <3>1. CASE q = p
      BY <1>3, <1>4, <2>1, <3>1 DEF LeaverStep
    <3>2. CASE q # p
      BY <1>1, <1>2, <2>1, <3>2, SameLeaver DEF IInv, LeftInv, SameAt
    <3> QED
      BY <3>1, <3>2
  <2> QED
    BY <1>1, <1>2, <2>1 DEF LeaverStep, IInv, LeftInv
<1>11. ASSUME Newest > 0, ~ Left(Newest)
       PROVE  /\ e # Newest /\ SameAt(Lead)
              /\ \A q \in Members(Newest) : SameAt(q)
  <2>1. p \notin Members(Newest)
    BY <1>3, <1>11 DEF IInv, MemberInv, MemberOf, PlaceOf
  <2>2. Newest \in Epochs
    BY <1>11, Types DEF Epochs
  <2>3. Members(Newest) \subseteq Procs /\ Lead \in Members(Newest)
    BY <2>2, Ranks, Types DEF IInv, Lead
  <2> QED
    BY <1>1, <1>11, <2>1, <2>3
<1>12. LeadInv'
  BY <1>1, <1>2, <1>11, SameLeader, SameAsker DEF IInv, LeadInv
<1>13. FinInv'
  <2>1. Newest > 0 /\ ~ Left(Newest) => pc'[Lead] = pc[Lead]
    BY <1>11 DEF SameAt
  <2> QED
    BY <1>1, <1>2, <2>1, SameFin, Types DEF IInv
<1>14. TeamInv'
  BY <1>1, <1>2, <1>11, SameFollower DEF IInv, TeamInv
<1> QED
  BY <1>1, <1>2, <1>7, <1>8, <1>9, <1>10, <1>11, <1>12, <1>13, <1>14 DEF IInv

-----------------------------------------------------------------------------
(* A member of the newest communicator that does not lead it. *)

\* What a follower changes: where it is, what it has heard, its iteration.
FollowerStep(p, r, e) ==
  /\ UNCHANGED <<use, psets, log, comm, main, rank, setop, out, flagOf>>
  /\ OnlyOf(p, pc, pc') /\ OnlyOf(p, pending, pending')
  /\ OnlyOf(p, idx, idx') /\ OnlyOf(p, iter, iter')
  /\ pc'[p] \in Locations \ Outside /\ pending'[p] \in BOOLEAN /\ idx'[p] \in Nat
  /\ iter'[p] \in 0 .. use.iterations
  /\ Near(p, r, e)' /\ Heard(p, r, e)' /\ InStep(p, r, e)' /\ Agrees(p, r, e)'

\* Every step of a follower fits the summary of such steps.
LEMMA FollowerSteps ==
  ASSUME IInv, NEW p \in Procs, NEW e, comm[p] = e, e > 0, ~ Left(e), NEW r, r = Lead, p # r,
         Step(p)
  PROVE  FollowerStep(p, r, e)
<1>1. /\ e = Newest /\ e \in Nat /\ e \in Epochs /\ Leads(r, e) /\ Agrees(p, r, e)
      /\ rank[p] # 0 /\ main[p] = e
      /\ Near(p, r, e) /\ Heard(p, r, e) /\ InStep(p, r, e)
  BY Who DEF Follows, Epochs
<1>2. r \in Procs /\ log[e] \in Seq(Message) /\ Len(log[e]) \in Nat
  <2>1. r \in Procs
    BY <1>1, Ranks, Types DEF IInv, Lead
  <2>2. log[e] \in Seq(Message)
    BY <1>1, Types DEF Newest
  <2> QED
    BY <2>1, <2>2
<1>3. /\ iter[r] \in 0 .. use.iterations /\ iter[p] \in 0 .. use.iterations
      /\ use.iterations \in Nat /\ iter[r] \in Nat /\ iter[p] \in Nat
  BY <1>2, Types DEF IInv, TypeOK, Use
<1>4. pc[p] \in {"launch", "entry", "exprecv", "user", "finop", "handled", "bottom", "top",
                "adapt", "check", "flag", "names", "finalize", "exit"}
  BY <1>1 DEF Near
<1> USE DEF runtimeVars, setopVars, commVars
\* What is left to show of a step whose effect on p is known.
<1>5. ASSUME /\ UNCHANGED <<use, psets, log, comm, main, rank, setop, out, flagOf>>
             /\ OnlyOf(p, pc, pc') /\ OnlyOf(p, pending, pending')
             /\ OnlyOf(p, idx, idx') /\ OnlyOf(p, iter, iter')
             /\ pc'[p] \in Locations \ Outside /\ pending'[p] \in BOOLEAN
             /\ idx'[p] \in Nat /\ iter'[p] \in 0 .. use.iterations,
             \/ ~ (pc[r] = pc'[r] /\ pending[r] = pending'[r] /\ iter[r] = iter'[r])
             \/ Near(p, r, e)' /\ Heard(p, r, e)' /\ InStep(p, r, e)' /\ Agrees(p, r, e)'
      PROVE  FollowerStep(p, r, e)
  BY <1>2, <1>5, Types DEF FollowerStep, OnlyOf
<1> USE DEF OnlyOf, Locations, Outside, Near, Heard, InStep, Agrees, Due, Idle, Ahead, Loop,
        Ending, Barriers, Latest
<1>6. CASE Launch(p)
  <2>1. /\ pc' = [pc EXCEPT ![p] = "entry"]
        /\ pending' = [pending EXCEPT ![p] = use.initInfo] /\ pc[p] = "launch"
        /\ UNCHANGED <<idx, iter>>
        /\ UNCHANGED <<use, psets, log, comm, main, rank, setop, out, flagOf>>
    BY <1>1, <1>2, <1>6 DEF Launch, NoSetop, SendIfRoot, Step
  <2>2. e = 1 /\ use.initInfo \in BOOLEAN
    BY <1>1, <2>1, Types DEF Leads, Use
  <2>4. /\ pc'[p] = "entry" /\ pending'[p] = use.initInfo /\ idx'[p] = idx[p] /\ iter'[p] = iter[p]
        /\ pc'[r] = pc[r] /\ pending'[r] = pending[r] /\ iter'[r] = iter[r]
        /\ log' = log /\ psets' = psets /\ use' = use
    BY <1>2, <2>1, <2>2, Types
  <2>5. Near(p, r, e)'
    BY <1>1, <1>2, <2>1, <2>2, <2>4
  <2>6. Heard(p, r, e)'
    BY <1>1, <1>2, <2>1, <2>2, <2>4
  <2>7. InStep(p, r, e)'
    BY <1>1, <1>2, <2>1, <2>2, <2>4
  <2>8. Agrees(p, r, e)'
    BY ZenonT(60), <1>1, <1>2, <2>1, <2>2, <2>4
  <2> QED
    BY <1>2, <1>3, <1>5, <2>1, <2>2, <2>5, <2>6, <2>7, <2>8, Types
<1>7. CASE AdaptBlocking(p)
  <2>1. /\ pc' = [pc EXCEPT ![p] = "check"] /\ pc[p] = "adapt" /\ ~ use.nonBlocking
        /\ pending' = [pending EXCEPT ![p] = TRUE]
        /\ UNCHANGED <<idx, iter>>
        /\ UNCHANGED <<use, psets, log, comm, main, rank, setop, out, flagOf>>
    BY <1>1, <1>2, <1>7 DEF AdaptBlocking, NoSetop, SendIfRoot, Step
  <2> QED
    BY <1>1, <1>2, <1>3, <1>5, <2>1, Types DEF Leads
<1>8. CASE AdaptNonBlocking(p)
  <2>1. /\ pc' = [pc EXCEPT ![p] = IF pending[p] THEN "check" ELSE "handled"]
        /\ pc[p] = "adapt" /\ use.nonBlocking
        /\ UNCHANGED <<pending, idx, iter>>
        /\ UNCHANGED <<use, psets, log, comm, main, rank, setop, out, flagOf>>
    BY <1>1, <1>2, <1>8 DEF AdaptNonBlocking, NoSetop, Step
  <2> QED
    BY ZenonT(60), <1>1, <1>2, <1>3, <1>5, <2>1, Types DEF Leads
<1>9. CASE SkipCheck(p)
  <2>1. /\ pc' = [pc EXCEPT ![p] = "flag"] /\ pc[p] = "check"
        /\ UNCHANGED <<pending, idx, iter>>
        /\ UNCHANGED <<use, psets, log, comm, main, rank, setop, out, flagOf>>
    BY <1>1, <1>2, <1>9 DEF SkipCheck, NoSetop, Step
  <2> QED
    BY ZenonT(60), <1>1, <1>2, <1>3, <1>5, <2>1, Types DEF Leads
<1>10. CASE FinalizeSetop(p)
  <2>1. /\ pc' = [pc EXCEPT ![p] = IF use.nonBlocking THEN "handled" ELSE "bottom"]
        /\ pc[p] = "finop"
        /\ UNCHANGED <<pending, idx, iter>>
        /\ UNCHANGED <<use, psets, log, comm, main, rank, setop, out, flagOf>>
    BY <1>1, <1>2, <1>10 DEF FinalizeSetop, Step
  <2> QED
    BY ZenonT(60), <1>1, <1>2, <1>3, <1>5, <2>1, Types DEF Leads
<1>11. CASE AdaptNext(p)
  <2>1. /\ pc' = [pc EXCEPT ![p] = "bottom"] /\ pc[p] = "handled"
        /\ pending' = [pending EXCEPT ![p] = TRUE]
        /\ UNCHANGED <<idx, iter>>
        /\ UNCHANGED <<use, psets, log, comm, main, rank, setop, out, flagOf>>
    BY <1>1, <1>2, <1>11 DEF AdaptNext, NoSetop, SendIfRoot, Step
  <2> QED
    BY ZenonT(60), <1>1, <1>2, <1>3, <1>5, <2>1, Types DEF Leads
<1>12. CASE Finalize(p)
  <2>1. /\ pc' = [pc EXCEPT ![p] = "exit"] /\ pc[p] = "finalize"
        /\ UNCHANGED <<pending, idx, iter>>
        /\ UNCHANGED <<use, psets, log, comm, main, rank, setop, out, flagOf>>
    BY <1>1, <1>2, <1>12 DEF Finalize, Step
  <2> QED
    BY <1>1, <1>2, <1>3, <1>5, <2>1, Types DEF Leads
<1>13. CASE ExpandRecv(p)
  <2>1. /\ pc[p] = "exprecv" /\ e > 1 /\ idx[p] = 0 /\ pc[r] \in {"finop", "handled", "bottom"}
        /\ Len(log[e]) = 1 /\ log[e][1].val = iter[r] /\ iter[r] < use.iterations
    BY <1>1, <1>2, <1>13 DEF ExpandRecv, CastReady, Leads
  <2>2. CastValue(p) = iter[r]
    BY <2>1 DEF CastValue
  <2>3. /\ pc' = [pc EXCEPT ![p] = "entry"] /\ pending' = [pending EXCEPT ![p] = TRUE]
        /\ iter' = [iter EXCEPT ![p] = iter[r] + 1] /\ idx' = [idx EXCEPT ![p] = idx[p] + 1]
        /\ UNCHANGED <<use, psets, log, comm, main, rank, setop, out, flagOf>>
    BY <1>13, <2>2 DEF ExpandRecv, CastTake, Step
  <2>4. /\ pc'[p] = "entry" /\ pending'[p] = TRUE /\ idx'[p] = 1 /\ iter'[p] = iter[r] + 1
        /\ pc'[r] = pc[r] /\ pending'[r] = pending[r] /\ iter'[r] = iter[r]
        /\ log' = log /\ psets' = psets /\ use' = use
    <3>1. idx[p] + 1 = 1
      BY <2>1
    <3>2. pc'[p] = "entry" /\ pending'[p] = TRUE /\ idx'[p] = 1 /\ iter'[p] = iter[r] + 1
      BY <2>3, <3>1, Types
    <3>3. pc'[r] = pc[r] /\ pending'[r] = pending[r] /\ iter'[r] = iter[r]
      BY <1>2, <2>3, Types
    <3> QED
      BY <2>3, <3>2, <3>3
  <2>5. Near(p, r, e)'
    BY <1>1, <1>2, <2>1, <2>4
  <2>6. Heard(p, r, e)'
    BY <1>1, <1>2, <2>1, <2>4
  <2>7. InStep(p, r, e)'
    BY <1>1, <1>2, <2>1, <2>4
  <2>8. Agrees(p, r, e)'
    BY <1>1, <1>2, <2>1, <2>4
  <2>9. iter'[p] \in 0 .. use.iterations
    BY <1>3, <2>1, <2>4
  <2> QED
    BY <1>2, <1>5, <2>3, <2>4, <2>5, <2>6, <2>7, <2>8, <2>9, Types
<1>14. CASE CastFlag(p)
  <2>1. /\ pc[p] = "flag" /\ idx[p] = Len(log[e]) - 1 /\ idx[p] + 1 = Len(log[e])
        /\ log[e][Len(log[e])] = FlagMessage(pc[r] = "names")
        /\ pc[r] \in {"names", "bottom"}
    BY <1>1, <1>2, <1>14 DEF CastFlag, CastSend, CastReady
  <2>2. CastValue(p) = (pc[r] = "names")
    BY <2>1 DEF CastValue, FlagMessage
  <2>3. /\ pc' = [pc EXCEPT ![p] = IF pc[r] = "names" THEN "names" ELSE "bottom"]
        /\ idx' = [idx EXCEPT ![p] = idx[p] + 1]
        /\ UNCHANGED <<use, psets, log, comm, main, rank, pending, setop, out, flagOf, iter>>
    BY <1>1, <1>14, <2>2 DEF CastFlag, CastSend, CastTake, AfterFlag, Step
  <2>4. /\ pc'[p] = (IF pc[r] = "names" THEN "names" ELSE "bottom") /\ pending'[p] = pending[p]
        /\ idx'[p] = Len(log[e]) /\ iter'[p] = iter[p]
        /\ pc'[r] = pc[r] /\ pending'[r] = pending[r] /\ iter'[r] = iter[r]
        /\ log' = log /\ psets' = psets /\ use' = use
    BY <1>2, <2>1, <2>3, Types
  <2>5. Near(p, r, e)'
    BY <1>1, <1>2, <2>1, <2>3, <2>4
  <2>6. Heard(p, r, e)'
    BY <1>1, <1>2, <2>1, <2>3, <2>4
  <2>7. InStep(p, r, e)'
    BY <1>1, <1>2, <2>1, <2>3, <2>4
  <2>8. Agrees(p, r, e)'
    BY <1>1, <1>2, <2>1, <2>3, <2>4
  <2> QED
    BY ZenonT(60), <1>2, <1>3, <1>5, <2>1, <2>3, <2>5, <2>6, <2>7, <2>8, Types
<1>15. CASE ExpandSend(p)
  <2>1. pc[p] = "user" /\ iter[p] = iter[r] /\ main[p] = e
    BY <1>1, <1>15 DEF ExpandSend
  <2>2. CASE psets[e].added # {}
    <3>1. /\ idx[p] = 0 /\ pc[r] \in {"finop", "handled", "bottom"}
          /\ Len(log[e]) = 1 /\ log[e][1].val = iter[r]
      BY <1>1, <1>2, <1>15, <2>1, <2>2 DEF ExpandSend, CastSend, CastReady, Leads
    <3>2. CastValue(p) = iter[r]
      BY <3>1 DEF CastValue
    <3>3. /\ pc' = [pc EXCEPT ![p] = "finop"] /\ idx' = [idx EXCEPT ![p] = idx[p] + 1]
          /\ iter' = [iter EXCEPT ![p] = iter[r]]
          /\ UNCHANGED <<use, psets, log, comm, main, rank, pending, setop, out, flagOf>>
      BY <1>1, <1>15, <2>1, <2>2, <3>2 DEF ExpandSend, CastSend, CastTake, Step
    <3>4. /\ pc'[p] = "finop" /\ idx'[p] = 1 /\ iter'[p] = iter[r]
          /\ pc'[r] = pc[r] /\ pending'[r] = pending[r] /\ iter'[r] = iter[r]
          /\ log' = log /\ psets' = psets /\ use' = use
      BY <1>2, <2>1, <2>2, <3>1, <3>3, Types
    <3>5. Near(p, r, e)'
      BY <1>1, <1>2, <2>1, <2>2, <3>1, <3>3, <3>4
    <3>6. Heard(p, r, e)'
      BY <1>1, <1>2, <2>1, <2>2, <3>1, <3>3, <3>4
    <3>7. InStep(p, r, e)'
      BY <1>1, <1>2, <2>1, <2>2, <3>1, <3>3, <3>4
    <3>8. Agrees(p, r, e)'
      BY <1>1, <1>2, <2>1, <2>2, <3>1, <3>3, <3>4
    <3> QED
      BY ZenonT(60), <1>2, <1>3, <1>5, <2>1, <2>2, <3>1, <3>3, <3>5, <3>6, <3>7, <3>8, Types
  <2>3. CASE psets[e].added = {}
    <3>1. /\ pc' = [pc EXCEPT ![p] = "finop"]
          /\ UNCHANGED <<use, psets, log, comm, main, rank, pending, setop, out, flagOf, idx,
                         iter>>
      BY <1>15, <2>1, <2>3 DEF ExpandSend, Step
    <3> QED
      BY <1>1, <1>2, <1>3, <1>5, <2>1, <2>3, <3>1, Types
  <2> QED
    BY <2>2, <2>3
<1>16. ~ CheckSetop(p)
  BY <1>1 DEF CheckSetop
<1>17. ~ CastNames(p)
  BY <1>1, <1>2 DEF CastNames, CastSend, CastReady
<1> QED
  BY <1>4, <1>5, <1>6, <1>7, <1>8, <1>9, <1>10, <1>11, <1>12, <1>13, <1>14, <1>15,
     <1>16, <1>17
  DEF Step, Lookup, Disconnect, AckWait

\* Whatever fits that summary keeps the invariant.
LEMMA FollowerKeeps ==
  ASSUME IInv, NEW p \in Procs, NEW e, comm[p] = e, e > 0, ~ Left(e), NEW r, r = Lead, p # r,
         FollowerStep(p, r, e)
  PROVE  IInv'
<1>1. /\ UNCHANGED <<use, psets, log, main, rank>> /\ comm'[p] = e
      /\ \A q \in Procs : q # p => SameAt(q)
  BY Types DEF FollowerStep, OnlyOf, SameAt
<1>2. /\ SetsInv' /\ Newest' = Newest /\ Lead' = Lead /\ Epochs' = Epochs
      /\ \A f : Members(f)' = Members(f) /\ Root(f)' = Root(f) /\ Left(f)' = Left(f)
  BY <1>1, SameWorld DEF IInv
<1>3. e = Newest /\ e \in Nat /\ e \in Epochs /\ Follows(p, r, e)
  BY Who DEF Epochs
<1>4. PlaceOf(p) /\ MemberOf(p)
  BY DEF IInv, PlaceInv, MemberInv
<1>5. r \in Procs /\ SameAt(r) /\ Members(e) \subseteq Procs
  BY <1>1, <1>3, Ranks, Types DEF IInv, Lead
<1>6. TypeOK'
  <2>1. pc' \in [Procs -> Locations] /\ idx' \in [Procs -> Nat]
        /\ pending' \in [Procs -> BOOLEAN]
    BY Types, OnlyType DEF FollowerStep
  <2>2. iter' \in [Procs -> 0 .. use.iterations]
    BY OnlyType DEF FollowerStep, IInv, TypeOK
  <2> QED
    BY <1>1, <2>1, <2>2 DEF FollowerStep, IInv, TypeOK
<1>7. PlaceInv'
  <2>0. Kept /\ (Left(Newest) => Left(Newest)')
    BY <1>1, <1>2, SameWorld DEF Kept
  <2>1. ASSUME NEW q \in Procs, q # p PROVE PlaceOf(q)'
    BY <1>1, <2>0, <2>1, SamePlace DEF IInv, PlaceInv
  <2>2. pc'[p] \notin Outside
    BY DEF FollowerStep
  <2>3. PlaceOf(p)'
    BY <1>1, <1>2, <1>4, <2>2 DEF PlaceOf, Dismissed, Outside
  <2> QED
    BY <2>1, <2>3 DEF PlaceInv
<1>8. MemberInv'
  <2>0. Kept
    BY <1>1, <1>2 DEF Kept
  <2>1. ASSUME NEW q \in Procs, q # p PROVE MemberOf(q)'
    BY <1>1, <2>0, <2>1, SameMember DEF IInv, MemberInv
  <2>2. MemberOf(p)'
    BY <1>1, <1>2, <1>3, <1>4, Types DEF MemberOf
  <2> QED
    BY <2>1, <2>2 DEF MemberInv
<1>9. LeftInv'
  <2>1. ASSUME NEW f \in 1 .. Newest, Left(f), NEW q \in Procs, comm'[q] = f
        PROVE  Leaves(q, f)'
    BY ZenonT(60), <1>1, <1>2, <2>1, SameLeaver DEF IInv, LeftInv, SameAt
  <2> QED
    BY <1>1, <1>2, <1>3, <2>1 DEF IInv, LeftInv
<1>10. LeadInv'
  BY <1>1, <1>2, <1>3, <1>5, SameLeader, SameAsker DEF IInv, LeadInv
<1>11. FinInv'
  BY <1>1, <1>2, <1>5, SameFin, Types DEF IInv, SameAt
<1>12. TeamInv'
  <2>1. ASSUME NEW q \in Members(e), q # p
        PROVE  (q # r => Follows(q, r, e)') /\ Agrees(q, r, e)'
    BY <1>1, <1>2, <1>3, <1>5, <2>1, SameFollower DEF IInv, TeamInv
  <2>2. Follows(p, r, e)' /\ Agrees(p, r, e)'
    BY <1>1, <1>3 DEF FollowerStep, Follows
  <2> QED
    BY <1>2, <1>3, <2>1, <2>2 DEF TeamInv
<1> QED
  BY <1>1, <1>2, <1>6, <1>7, <1>8, <1>9, <1>10, <1>11, <1>12 DEF IInv

-----------------------------------------------------------------------------
(* A process outside of a communicator. *)

\* What a spawned process changes: it knows its set, or answers and crashes.
SpawnedStep(p) ==
  /\ UNCHANGED <<use, log, comm, rank, pending, setop, out, idx, flagOf, iter>>
  /\ OnlyOf(p, pc, pc') /\ OnlyOf(p, main, main')
  /\ Newest > 0 /\ Len(psets) = Newest + 1 /\ pc[p] = "spawned"
  /\ \/ /\ psets[Newest + 1].key = "main" /\ psets' = psets
        /\ pc'[p] = "init" /\ main'[p] = Newest + 1
     \/ /\ psets[Newest + 1].key = "canceled"
        /\ \E a \in BOOLEAN : psets' = [psets EXCEPT ![Newest + 1].ack = a]
        /\ pc'[p] = "crash" /\ main'[p] = 0

\* Every step of a process in no communicator fits the summary of such steps.
LEMMA SpawnedSteps ==
  ASSUME IInv, NEW p \in Procs, comm[p] = 0, Step(p)
  PROVE  SpawnedStep(p)
<1>1. PlaceOf(p) /\ MemberOf(p)
  BY DEF IInv, PlaceInv, MemberInv
<1>2. Lookup(p) /\ pc[p] = "spawned"
  <2>1. pc[p] \in {"off", "spawned", "init", "create", "crash"}
    BY <1>1 DEF PlaceOf, Outside
  <2> QED
    BY <2>1 DEF Step, Launch, Lookup, ExpandRecv, AdaptBlocking, AdaptNonBlocking, CheckSetop,
      SkipCheck, CastFlag, CastNames, Disconnect, ExpandSend, FinalizeSetop, AdaptNext,
      Finalize, AckWait
<1>3. /\ Newest \in Nat /\ Len(psets) = Newest + 1 /\ Newest + 1 \in Epochs
      /\ p \in psets[Newest + 1].added /\ p \in Members(Newest + 1) /\ main[p] = 0
  BY <1>1, <1>2, Types DEF PlaceOf, Epochs
<1>4. Newest > 0
  <2>1. ASSUME Newest = 0 PROVE FALSE
    <3>1. Members(1) = ToSet([i \in Orig |-> i])
      BY DEF IInv, SetsInv, Members
    <3>2. p \in Orig
      BY <1>3, <2>1, <3>1 DEF ToSet
    <3> QED
      BY <1>1, <1>2, <2>1, <3>2 DEF MemberOf
  <2> QED
    BY <1>3, <2>1
<1>5. Delta(p) = Newest + 1
  <2>1. \E e \in 1 .. Len(psets) : p \in psets[e].added
    BY <1>3 DEF Epochs
  <2>2. Delta(p) \in 1 .. Len(psets) /\ p \in psets[Delta(p)].added
    BY <2>1 DEF Delta
  <2>3. ASSUME Delta(p) # Newest + 1 PROVE FALSE
    <3>1. Delta(p) \in 1 .. (Newest + 1) - 1
      BY <1>3, <2>2, <2>3
    <3>2. psets[Newest + 1].added \cap Members(Delta(p)) = {}
      BY <1>3, <3>1 DEF IInv, SetsInv, IsMainSet
    <3>3. p \in Members(Delta(p))
      BY <2>2 DEF IInv, SetsInv, IsMainSet, Epochs
    <3> QED
      BY <1>3, <3>2, <3>3
  <2> QED
    BY <2>3
<1>7. (psets[Newest + 1].ack \/ IsPrimary(p)) \in BOOLEAN
  OBVIOUS
<1>8. /\ \/ /\ psets[Newest + 1].key = "main"
            /\ main' = [main EXCEPT ![p] = Newest + 1]
            /\ pc' = [pc EXCEPT ![p] = "init"]
            /\ UNCHANGED psets
         \/ /\ psets[Newest + 1].key = "canceled"
            /\ \E a \in BOOLEAN : psets' = [psets EXCEPT ![Newest + 1].ack = a]
            /\ pc' = [pc EXCEPT ![p] = "crash"]
            /\ UNCHANGED main
      /\ UNCHANGED <<use, log, comm, rank, pending, setop, out, idx, flagOf, iter>>
  BY <1>2, <1>5, <1>7 DEF Lookup, UseNullState, Step, commVars, setopVars
<1> QED
  BY <1>2, <1>3, <1>4, <1>8, Types DEF SpawnedStep, OnlyOf

\* Whatever fits that summary keeps the invariant.
LEMMA SpawnedKeeps ==
  ASSUME IInv, NEW p \in Procs, comm[p] = 0, SpawnedStep(p)
  PROVE  IInv'
<1> DEFINE new == Newest + 1
<1>1. /\ UNCHANGED <<use, log, comm, rank, pending, setop, out, idx, flagOf, iter>>
      /\ \A q \in Procs : q # p => SameAt(q)
      /\ Newest > 0 /\ Newest \in Nat /\ Len(psets) = new /\ new \in Epochs /\ Newest' = Newest
      /\ psets \in Seq(Pset) /\ Newest \in Epochs
  BY Types DEF SpawnedStep, OnlyOf, SameAt, Epochs, Newest
<1>2. /\ Len(psets') = Len(psets) /\ psets' \in Seq(Pset)
      /\ \A e \in Epochs :
           /\ psets'[e].members = psets[e].members /\ psets'[e].added = psets[e].added
           /\ psets'[e].removed = psets[e].removed /\ psets'[e].key = psets[e].key
           /\ psets'[e].fin = psets[e].fin
  <2>1. CASE psets' = psets
    BY <1>1, <2>1
  <2>2. CASE \E a \in BOOLEAN : psets' = [psets EXCEPT ![new].ack = a]
    <3>1. PICK a \in BOOLEAN : psets' = [psets EXCEPT ![new].ack = a]
      BY <2>2
    <3>2. psets' = [psets EXCEPT ![new] = [psets[new] EXCEPT !.ack = a]]
      BY <3>1
    <3> DEFINE set == [psets[new] EXCEPT !.ack = a]
    <3>3. /\ set \in Pset /\ set.members = psets[new].members /\ set.added = psets[new].added
          /\ set.removed = psets[new].removed /\ set.key = psets[new].key
          /\ set.fin = psets[new].fin
      <4>1. psets[new] \in Pset
        BY <1>1 DEF Epochs
      <4> QED
        BY <4>1 DEF Pset
    <3>4. psets' = [psets EXCEPT ![new] = set]
      BY <3>2
    <3> HIDE DEF set
    <3>5. Len(psets') = Len(psets) /\ psets' \in Seq(Pset) /\ DOMAIN psets = Epochs
      BY <1>1, <3>3, <3>4 DEF Epochs
    <3>6. \A e \in Epochs : psets'[e] = IF e = new THEN set ELSE psets[e]
      BY <3>4, <3>5
    <3> QED
      BY <3>3, <3>5, <3>6
  <2> QED
    BY <2>1, <2>2 DEF SpawnedStep
<1>3. Kept
  <2>1. 1 \in Epochs
    BY <1>1 DEF Epochs
  <2> QED
    BY <1>1, <1>2, <2>1 DEF Kept
<1>4. /\ SetsInv' /\ Epochs' = Epochs /\ Lead' = Lead
      /\ \A e \in Epochs : Members(e)' = Members(e) /\ Root(e)' = Root(e)
  BY <1>1, <1>3, KeptSets
<1>5. \A e : Left(e)' = Left(e)
  BY <1>1 DEF Left
<1>6. /\ PlaceOf(p) /\ MemberOf(p) /\ p \in psets[new].added /\ main[p] = 0
      /\ p \in Members(new)
  BY <1>1 DEF SpawnedStep, IInv, PlaceInv, PlaceOf, MemberInv
<1>7. \A e \in 1 .. Newest : e \in Epochs /\ p \notin Members(e)
  <2>1. \A e \in 1 .. new - 1 : psets[new].added \cap Members(e) = {}
    BY <1>1 DEF IInv, SetsInv, IsMainSet
  <2> QED
    BY <1>1, <1>6, <2>1 DEF Epochs
<1>8. comm'[p] = 0 /\ main'[p] \in {0, new} /\ pc'[p] \in {"init", "crash"}
  BY <1>1 DEF SpawnedStep
<1>9. TypeOK'
  <2>1. pc' \in [Procs -> Locations]
    BY <1>8, Types, OnlyType DEF SpawnedStep, Locations
  <2>2. main' \in [Procs -> 0 .. Len(psets)]
    <3>1. main'[p] \in 0 .. Len(psets)
      BY <1>1, <1>8
    <3> QED
      BY <3>1, OnlyType DEF SpawnedStep, IInv, TypeOK
  <2> QED
    BY <1>1, <1>2, <2>1, <2>2 DEF IInv, TypeOK, Pset
<1>10. PlaceInv'
  <2>1. ASSUME NEW q \in Procs, q # p PROVE PlaceOf(q)'
    BY <1>1, <1>2, <1>3, <1>5, <2>1, SamePlace DEF IInv, PlaceInv
  <2>2. Members(new)' = Members(new) /\ psets'[new].added = psets[new].added
        /\ psets'[new].key = psets[new].key
    BY <1>1, <1>2, <1>4
  <2>3. PlaceOf(p)'
    <3>1. CASE pc'[p] = "init"
      BY <1>1, <1>2, <1>6, <2>2, <3>1 DEF SpawnedStep, PlaceOf, Outside, Dismissed, Members
    <3>2. CASE pc'[p] = "crash"
      BY <1>1, <1>2, <1>6, <2>2, <3>2 DEF SpawnedStep, PlaceOf, Outside, Dismissed, Members
    <3> QED
      BY <1>8, <3>1, <3>2
  <2> QED
    BY <2>1, <2>3 DEF PlaceInv
<1>11. MemberInv'
  <2>1. ASSUME NEW q \in Procs, q # p PROVE MemberOf(q)'
    BY <1>1, <1>3, <2>1, SameMember DEF IInv, MemberInv
  <2>2. \A e \in 1 .. Newest : p \notin Members(e)'
    BY <1>4, <1>7
  <2>3. MemberOf(p)'
    <3>1. p \notin Members(Newest)'
      BY <1>1, <2>2
    <3> QED
      BY <1>1, <2>2, <3>1 DEF MemberOf, Members
  <2> QED
    BY <2>1, <2>3 DEF MemberInv
<1>12. LeftInv'
  <2>1. ASSUME NEW e \in 1 .. Newest, Left(e), NEW q \in Procs, comm'[q] = e
        PROVE  Leaves(q, e)'
    <3>1. q # p /\ Leaves(q, e) /\ SameAt(q)
      <4>1. q # p
        BY <1>8, <2>1
      <4>2. comm[q] = e
        BY <1>1, <2>1
      <4> QED
        BY <1>1, <2>1, <4>1, <4>2 DEF IInv, LeftInv
    <3>2. Members(e + 1)' = Members(e + 1)
      <4>1. e + 1 \in Epochs
        BY <1>1 DEF Epochs
      <4> QED
        BY <1>4, <4>1
    <3> QED
      BY <1>1, <3>1, <3>2, SameLeaver
  <2>2. \A q \in Members(Newest)' : iter'[q] = iter[q]
    BY <1>1
  <2>3. Members(Newest)' = Members(Newest) /\ psets'[new].key = psets[new].key
    BY <1>1, <1>2, <1>4
  <2> QED
    BY <1>1, <1>2, <1>5, <2>1, <2>3 DEF IInv, LeftInv, Members
<1>13. Lead \in Procs /\ Members(Newest) \subseteq Procs
       /\ \A q \in Members(Newest) : SameAt(q)
  <2>1. Lead \in Procs /\ Members(Newest) \subseteq Procs
    BY <1>1, Ranks, Types DEF IInv, Lead
  <2>2. p \notin Members(Newest)
    BY <1>1, <1>7
  <2> QED
    BY <1>1, <2>1, <2>2
<1>14. SameAt(Lead)
  BY <1>1, <1>13, Ranks, Types DEF IInv, Lead
<1>15. LeadInv'
  <2>1. psets'[new].key = psets[new].key
    BY <1>1, <1>2
  <2> QED
    BY <1>1, <1>2, <1>4, <1>5, <1>14, <2>1, SameLeader, SameAsker DEF IInv, LeadInv
<1>16. FinInv'
  BY <1>1, <1>2, <1>4, <1>5, <1>14, SameFin DEF SameAt
<1>17. TeamInv'
  <2>1. Members(Newest)' = Members(Newest) /\ psets'[Newest].added = psets[Newest].added
    BY <1>1, <1>2, <1>4
  <2> QED
    BY <1>1, <1>4, <1>5, <1>13, <1>14, <2>1, SameFollower DEF IInv, TeamInv, Members
<1> QED
  BY <1>1, <1>4, <1>9, <1>10, <1>11, <1>12, <1>15, <1>16, <1>17, Types DEF IInv
=============================================================================
