----------------------------- MODULE DMR_proofs -----------------------------
(***************************************************************************)
(* Theorems about DMR, checked by TLAPS for every value of its constants.  *)
(*                                                                         *)
(* A task goes round through a few stages, which the process of rank 0 on  *)
(* the newest communicator tells apart: it settles on a new communicator,  *)
(* runs steadily, duplicates the communicator, moves to the name of the    *)
(* next set, leaves the communicator, is between two, and is over.  The    *)
(* inductive invariant says for each stage where every process may be, and *)
(* what it knows, has received and holds there.                            *)
(***************************************************************************)
EXTENDS DMR, FiniteSetTheorems, TLAPS

\* What rank 0 scatters.
Array == [1 .. Size -> 0 .. Size]
Whole == [i \in 1 .. Size |-> i]

Pset == [members : Seq(Procs), added : SUBSET Procs, removed : SUBSET Procs, fin : Nat]
Message == [kind : {"it"}, val : Nat] \cup [kind : {"data"}, val : Array]

Newest == Len(log)
Lead == Root(Newest)
Added(e) == psets[e].added

\* Every size divides the number of elements: no element belongs to nobody.
Exact == \A n \in Sizes : Size % n = 0

\* The first process has rank 0: the elements stay what they were.
Intact(e) == Exact /\ Root(e) = 1

\* A main set lists each of its processes once; an operation adds processes of
\* no earlier set behind those that stay, or removes some.
IsMainSet(e) ==
  /\ psets[e].members # <<>> /\ IsInjective(psets[e].members) /\ Number(e) \in Sizes
  /\ Added(e) \subseteq Members(e)
  /\ \A d \in 1 .. e - 1 : Added(e) \cap Members(d) = {}
  /\ 1 \in Members(e) => Root(e) = 1
  /\ e > 1 =>
       /\ Root(e) \notin Added(e)
       /\ psets[e].removed = Members(e - 1) \ Members(e)
       /\ Members(e) = (Members(e - 1) \ psets[e].removed) \cup Added(e)
       /\ Added(e) = {} <=> psets[e].removed # {}

SetsInv ==
  /\ Len(psets) \in {Newest, Newest + 1} /\ Len(psets) \in 1 .. MaxPsets
  /\ psets[1].members = [i \in Orig |-> i] /\ Added(1) = {} /\ psets[1].removed = {}
  /\ \A e \in Epochs : IsMainSet(e)

-----------------------------------------------------------------------------
(* Where every process is. *)

Stage ==
  IF Newest = 0 THEN "start"
  ELSE IF old[Lead] # 0 /\ old[Lead] # Newest THEN "settling"
  ELSE IF pc[Lead] = "dup" THEN "dup"
  ELSE IF pc[Lead] \in {"publish", "lookup"} THEN "moving"
  ELSE IF pc[Lead] = "disconnect" THEN "leaving"
  ELSE IF pc[Lead] \in {"recreate", "gatherS"} THEN "between"
  ELSE IF pc[Lead] = "exit" THEN "over"
  ELSE "steady"

Cycle == {"settling", "steady", "dup", "moving", "leaving", "between", "over"}

\* The processes on the newest communicator, by way of the one before or spawned.
Stayed(p) == p \notin Added(Newest)

\* Where a process that was on the communicator before redistributes.
Redistribution ==
  {"finop", "leaveold"} \cup (IF Added(Newest) # {} THEN {"gatherE", "scatterE"}
                              ELSE {"gatherS", "scatterS"})

Places(p) ==
  CASE Stage = "settling" /\ Stayed(p)   -> {"itcast"} \cup Redistribution
    [] Stage = "settling" /\ ~ Stayed(p) -> {"itrecv", "exprecv", "step", "query", "cancel",
                                             "barrier"}
    [] Stage = "steady"  -> {"step", "query", "cancel", "barrier"}
                              \cup (IF p = Lead THEN {"ackwait"} ELSE {})
                              \cup (IF Stayed(p) THEN {} ELSE {"itrecv", "exprecv"})
    [] Stage = "dup"     -> {"dup"}
    [] Stage = "moving"  -> IF p = Lead THEN {"publish", "lookup"} ELSE {"lookup"}
    [] Stage = "leaving" -> {"disconnect"}
    [] Stage = "between" -> IF p \in Members(Newest + 1) THEN {"recreate"} ELSE {"gatherS"}
    [] Stage = "over"    -> {"exit"}

\* A process of the newest communicator.
MemberAt(p) ==
  /\ pc[p] \in Places(p)
  /\ comm[p] = IF Stage \in {"between", "over"} THEN 0 ELSE Newest
  /\ main[p] = IF Stage \in {"leaving", "between"} THEN Newest + 1 ELSE Newest
  /\ old[p] = IF Stage = "settling" /\ Stayed(p) THEN Newest - 1
              ELSE IF Stage \in {"moving", "leaving", "between"} THEN Newest ELSE 0
  /\ primary[p] <=> p = Root(main[p])
  /\ Stage = "settling" /\ Stayed(p) /\ pc[p] # "itcast" => new[p] = Newest

\* One that an operation has spawned and that is in no communicator yet.
SpawnedAt(p) ==
  /\ comm[p] = 0 /\ old[p] = 0
  /\ \/ pc[p] = "waiting" /\ main[p] = 0
     \/ /\ pc[p] = "init" /\ main[p] = Newest + 1 /\ dict[Newest + 1] = Newest + 1
        /\ ~ primary[p]
     \/ pc[p] = "exit" /\ main[p] = 0 /\ dict[Newest + 1] = Finalized

\* One that was removed and still redistributes.
DepartingAt(p) ==
  /\ comm[p] = 0 /\ old[p] = Newest - 1 /\ main[p] = Newest /\ ~ primary[p]
  /\ pc[p] \in {"gatherS", "finop", "leaveold"}

\* One that has left the task.
Gone(p) ==
  /\ comm[p] = 0 /\ old[p] = 0 /\ ~ primary[p]
  /\ main[p] \in 1 .. Newest /\ p \notin Members(main[p])
  /\ pc[p] \in {"cancel", "barrier", "exit"}

Unborn(p) ==
  /\ pc[p] = "off" /\ comm[p] = 0 /\ old[p] = 0 /\ main[p] = 0
  /\ \A e \in Epochs : p \notin Members(e)

\* One of those launched with the task, before there is a communicator.
Launched(p) ==
  pc[p] = "init" /\ comm[p] = 0 /\ old[p] = 0 /\ main[p] = 1 /\ (primary[p] <=> p = Root(1))

IsMember(p) == Newest > 0 /\ p \in Members(Newest)
IsSpawned(p) == Newest > 0 /\ Len(psets) = Newest + 1 /\ p \in Added(Newest + 1)
IsDeparting(p) == Stage = "settling" /\ p \in Members(Newest - 1) \ Members(Newest)
IsLaunched(p) == Newest = 0 /\ p \in Orig

PlaceOf(p) ==
  /\ IsMember(p) => MemberAt(p)
  /\ IsSpawned(p) => SpawnedAt(p)
  /\ IsDeparting(p) => DepartingAt(p)
  /\ IsLaunched(p) => Launched(p)
  /\ IsMember(p) \/ IsSpawned(p) \/ IsDeparting(p) \/ IsLaunched(p) \/ Gone(p) \/ Unborn(p)
  /\ \A e \in 1 .. Newest : p \in Members(e) => main[p] >= e

PlaceInv == \A p \in Procs : PlaceOf(p)

\* There is a newer set from the query on that shows it until its communicator
\* is made; the primary process has a request when it may ask again.
StageInv ==
  /\ Newest = 0 => Len(psets) = 1
  /\ Newest = 1 => Stage # "settling"
  /\ Stage = "settling" => Len(psets) = Newest
  /\ Stage \in {"dup", "moving", "leaving", "between"} => Len(psets) = Newest + 1
  /\ req => /\ Stage = "steady" /\ Len(psets) = Newest /\ asked[Lead]
            /\ pc[Lead] \in {"step", "query", "cancel"}
  /\ Stage = "steady" /\ Len(psets) = Newest + 1 /\ pc[Lead] \in {"step", "query"}
       => asked[Lead]
  /\ Stage = "steady" /\ pc[Lead] = "ackwait" => Len(psets) = Newest + 1

-----------------------------------------------------------------------------
(* What the names stand for, and how often operations were finalized. *)

Published ==
  \/ Stage = "moving" /\ pc[Lead] = "lookup"
  \/ Stage \in {"leaving", "between"}

\* The primary process of the task that ends has seen the operation.
Canceled ==
  /\ Newest > 0 /\ Len(psets) = Newest + 1
  /\ \/ Stage = "over"
     \/ Stage = "steady" /\ pc[Lead] \in {"ackwait", "barrier"}

DictInv ==
  /\ dict \in [0 .. MaxPsets -> Nat]
  /\ \A d \in Len(psets) + 1 .. MaxPsets : dict[d] = 0
  /\ \A d \in 1 .. Newest : dict[d] \in {0, d}
  /\ dict[0] <= IF Published THEN Newest + 1 ELSE Newest
  /\ Published => dict[DeltaAdd(Newest + 1)] = Newest + 1
  /\ Published /\ Added(Newest + 1) = {} => dict[Newest + 1] = 0
  /\ Len(psets) = Newest + 1 /\ ~ Published
       => dict[Newest + 1] = IF Canceled /\ Added(Newest + 1) # {} THEN Finalized ELSE 0

FinInv ==
  /\ \A e \in 2 .. Newest - 1 : psets[e].fin = 1
  /\ Newest > 1 =>
       psets[Newest].fin = IF Stage = "settling" /\ pc[Lead] # "leaveold" THEN 0 ELSE 1
  /\ Newest > 0 /\ Len(psets) = Newest + 1 =>
       psets[Newest + 1].fin = IF Canceled THEN 1 ELSE 0

-----------------------------------------------------------------------------
(* The steps, the messages and the data. *)

\* The step that is computed next or now.
Due == IF Stage = "settling" THEN it[Lead] + 1
       ELSE IF pc[Lead] \in {"step", "query"} THEN it[Lead] ELSE Steps

Computing == Newest > 0 /\ Stage \in {"settling", "steady"}

ItOf(p) ==
  /\ Stage \in {"dup", "moving", "leaving", "between"} => it[p] < Steps
  /\ Computing =>
       /\ pc[p] \in {"step", "query", "exprecv"} => it[p] = Due
       /\ pc[p] = "query" => Due < Steps
       /\ pc[p] \in {"cancel", "ackwait", "barrier"} => Due = Steps
       /\ pc[p] \in Redistribution => it[p] + 1 = Due
       /\ pc[p] = "itcast" => it[p] < Steps

ItInv ==
  /\ Newest = 0 => \A p \in Orig : it[p] = 0
  /\ Newest > 0 => \A p \in Members(Newest) : ItOf(p)
  /\ Computing => Due <= Steps

\* The messages a process has taken on the newest communicator.
Taken(p) ==
  IF pc[p] \in {"itcast", "itrecv"} THEN 0
  ELSE IF pc[p] \in {"gatherE", "scatterE", "gatherS", "scatterS", "exprecv"} THEN 1 ELSE 2

LogInv ==
  /\ log \in Seq(Seq(Message))
  /\ Newest > 1 /\ Computing =>
       LET l == log[Newest] IN
       /\ Len(l) = idx[Lead]
       /\ Len(l) > 0 => l[1].kind = "it"
       /\ Len(l) > 1 => l[2].kind = "data" /\ (Intact(Newest) => l[2].val = Whole)
       /\ \A p \in Members(Newest) :
            /\ idx[p] = Taken(p)
            /\ Taken(p) = 0 /\ Len(l) > 0 => l[1].val + 1 = Due

\* p has its part of the data on communicator e.
Holds(p, e) ==
  /\ block[p] \in [1 .. Share(e) -> 0 .. Size]
  /\ Intact(e) => block[p] = Initial(p, e)

BlockOf(p) ==
  IF Computing
  THEN /\ pc[p] \in {"itcast", "gatherE", "gatherS"} => Holds(p, Newest - 1)
       /\ pc[p] \in {"finop", "leaveold", "step", "query", "cancel", "ackwait", "barrier"}
            => Holds(p, Newest)
  ELSE Holds(p, Newest)

DataInv ==
  /\ Newest > 0 => \A p \in Members(Newest) : BlockOf(p)
  /\ \A p \in Procs : IsDeparting(p) /\ pc[p] = "gatherS" => Holds(p, Newest - 1)
  /\ gathered \in [Procs -> Array \cup {<<>>}]
  /\ Stage = "settling" /\ pc[Lead] \in {"scatterE", "scatterS"} /\ Intact(Newest)
       => gathered[Lead] = Whole

IInv == /\ TypeOK /\ SetsInv /\ PlaceInv /\ StageInv /\ DictInv /\ FinInv /\ ItInv /\ LogInv
        /\ DataInv

-----------------------------------------------------------------------------
(* Sets, their ranks, and the arithmetic of their shares. *)

\* An ordered listing of a finite set lists each of its members once, the one
\* with the least key first.
LEMMA Listing ==
  ASSUME NEW S, IsFiniteSet(S), NEW key, \A x \in S : key[x] \in Int,
         NEW s \in Ordered(S, key)
  PROVE  /\ s \in Seq(S) /\ IsInjective(s) /\ ToSet(s) = S /\ Len(s) = Cardinality(S)
         /\ S # {} => s # <<>> /\ \A x \in S : key[Head(s)] <= key[x]
<1> DEFINE n == Cardinality(S)
<1>1. n \in Nat /\ IsFiniteSet(1 .. n) /\ Cardinality(1 .. n) = n
  <2>1. n \in Nat
    BY FS_CardinalityType
  <2>2. 1 \in Int /\ n \in Int
    BY <2>1
  <2> QED
    BY <2>1, <2>2, FS_Interval
<1>2. s \in [1 .. n -> S] /\ IsInjective(s)
  BY DEF Ordered, SetToSeqs, IsInjective
<1>3. s \in Injection(1 .. n, S)
  BY <1>2 DEF Injection, IsInjective
<1>4. s \in Surjection(1 .. n, S)
  BY <1>1, <1>3, FS_Injection
<1>5. ToSet(s) = S
  BY <1>2, <1>4 DEF ToSet, Surjection
<1>6. s \in Seq(S) /\ Len(s) = n
  BY <1>1, <1>2
<1>7. ASSUME NEW x \in S
      PROVE  s # <<>> /\ key[Head(s)] <= key[x]
  <2>1. PICK i \in DOMAIN s : s[i] = x
    BY <1>5 DEF ToSet
  <2>2. i \in 1 .. n /\ 1 \in DOMAIN s /\ Head(s) = s[1] /\ s[1] \in S /\ s # <<>>
    BY <1>1, <1>2, <1>6, <2>1
  <2>3. 1 < i => key[s[1]] < key[s[i]]
    BY <2>1, <2>2 DEF Ordered
  <2> QED
    BY <2>1, <2>2, <2>3
<1> QED
  BY <1>2, <1>5, <1>6, <1>7

\* Integer division and its remainder.
LEMMA DivMod ==
  ASSUME NEW s \in Nat, NEW n \in Nat, n > 0
  PROVE  /\ s \div n \in Nat /\ s % n \in 0 .. n - 1
         /\ s = n * (s \div n) + (s % n)
OBVIOUS

\* The share of rank r lies in the array.
LEMMA PartRange ==
  ASSUME NEW s \in Nat, NEW n \in Nat, n > 0, NEW r \in 0 .. n - 1, NEW i \in 1 .. s \div n
  PROVE  r * (s \div n) + i \in 1 .. s
<1> DEFINE k == s \div n
<1>1. k \in Nat /\ n * k <= s
  BY DivMod
<1>2. i \in 1 .. k
  OBVIOUS
<1> HIDE DEF k
<1>3. r * k <= (n - 1) * k /\ r * k \in Nat
  BY <1>1
<1>4. (n - 1) * k + k = n * k
  BY <1>1
<1>5. r * k + i \in 1 .. s
  BY <1>1, <1>2, <1>3, <1>4
<1> QED
  BY <1>5 DEF k

\* Element j of n shares of k is in the share of one rank.
LEMMA ElementRange ==
  ASSUME NEW k \in Nat, NEW n \in Nat, NEW j \in Nat, j > 0, j <= k * n, k > 0
  PROVE  /\ (j - 1) \div k \in 0 .. n - 1 /\ ((j - 1) % k) + 1 \in 1 .. k
         /\ ((j - 1) \div k) * k + (((j - 1) % k) + 1) = j
<1> DEFINE q == (j - 1) \div k
           m == (j - 1) % k
<1>1. q \in Nat /\ m \in 0 .. k - 1 /\ j - 1 = k * q + m
  BY DivMod
<1> HIDE DEF q, m
<1>2. k * q < k * n
  BY <1>1
<1>3. q < n
  <2>1. SUFFICES ASSUME q >= n
                 PROVE  FALSE
    BY <1>1
  <2>2. k * q >= k * n
    BY <1>1, <2>1
  <2> QED
    BY <1>1, <1>2, <2>2
<1>4. q * k = k * q
  BY <1>1
<1>5. q \in 0 .. n - 1 /\ m + 1 \in 1 .. k /\ q * k + (m + 1) = j
  BY <1>1, <1>3, <1>4
<1> QED
  BY <1>5 DEF q, m

\* The type invariant, as the steps of the proofs need it.
LEMMA Types ==
  ASSUME IInv
  PROVE  /\ psets \in Seq(Pset) /\ log \in Seq(Seq(Message))
         /\ Len(psets) \in Nat /\ Newest \in Nat /\ Newest <= Len(psets) /\ Len(psets) > 0
         /\ Len(psets) \in {Newest, Newest + 1} /\ Len(psets) <= MaxPsets /\ MaxPsets \in Nat
         /\ Steps \in Nat /\ Size \in Nat /\ Size > 0
         /\ pc \in [Procs -> Locations] /\ comm \in [Procs -> Nat] /\ old \in [Procs -> Nat]
         /\ new \in [Procs -> Nat] /\ main \in [Procs -> Nat] /\ it \in [Procs -> Nat]
         /\ idx \in [Procs -> Nat] /\ primary \in [Procs -> BOOLEAN]
         /\ asked \in [Procs -> BOOLEAN] /\ block \in [Procs -> Seq(0 .. Size)]
         /\ gathered \in [Procs -> Array \cup {<<>>}] /\ dict \in [0 .. MaxPsets -> Nat]
<1>1. psets \in Seq(Pset) /\ log \in Seq(Seq(Message))
  BY DEF IInv, TypeOK, LogInv, Pset
<1>2. MaxPsets \in Nat /\ Steps \in Nat /\ Size \in Nat /\ Size > 0
  BY NumbersAssumption
<1>3. /\ Len(psets) \in Nat /\ Newest \in Nat /\ Newest <= Len(psets) /\ Len(psets) > 0
      /\ Len(psets) \in {Newest, Newest + 1} /\ Len(psets) <= MaxPsets
  BY <1>1, <1>2 DEF IInv, SetsInv, Newest
<1>4. \A n \in Nat : 0 .. n \subseteq Nat
  OBVIOUS
<1>5. /\ comm \in [Procs -> 0 .. Newest] /\ old \in [Procs -> 0 .. Newest]
      /\ new \in [Procs -> 0 .. Newest] /\ main \in [Procs -> 0 .. Len(psets)]
      /\ it \in [Procs -> 0 .. Steps + 1]
  BY DEF IInv, TypeOK, Newest
<1>6. comm \in [Procs -> Nat] /\ old \in [Procs -> Nat] /\ new \in [Procs -> Nat]
      /\ main \in [Procs -> Nat] /\ it \in [Procs -> Nat]
  BY <1>2, <1>3, <1>4, <1>5
<1>7. gathered \in [Procs -> Array \cup {<<>>}] /\ dict \in [0 .. MaxPsets -> Nat]
  BY DEF IInv, DataInv, DictInv
<1> QED
  BY <1>1, <1>2, <1>3, <1>6, <1>7 DEF IInv, TypeOK

\* What the members of a set have to do with its sequence.
LEMMA Ranks ==
  ASSUME SetsInv, psets \in Seq(Pset), NEW e \in Epochs
  PROVE  /\ Root(e) \in Members(e) /\ Members(e) \subseteq Procs
         /\ Number(e) \in Nat /\ Number(e) > 0
         /\ \A p \in Members(e) :
              /\ Rank(p, e) \in 0 .. Number(e) - 1 /\ psets[e].members[Rank(p, e) + 1] = p
              /\ Rank(p, e) = 0 <=> p = Root(e)
         /\ \A r \in 0 .. Number(e) - 1 :
              psets[e].members[r + 1] \in Members(e) /\ Rank(psets[e].members[r + 1], e) = r
<1> DEFINE ms == psets[e].members
<1>1. ms \in Seq(Procs) /\ ms # <<>> /\ IsInjective(ms) /\ e \in Nat
  <2>1. psets[e] \in Pset /\ e \in Nat
    BY DEF Epochs
  <2>2. ms \in Seq(Procs)
    BY <2>1 DEF Pset
  <2> QED
    BY <2>1, <2>2 DEF SetsInv, IsMainSet
<1>2. /\ Root(e) = ms[1] /\ 1 \in DOMAIN ms /\ Number(e) = Len(ms) /\ Len(ms) \in Nat
      /\ Len(ms) > 0 /\ Members(e) = {ms[i] : i \in DOMAIN ms} /\ DOMAIN ms = 1 .. Len(ms)
  BY <1>1 DEF Root, Members, ToSet, Number
<1>3. \A i, j \in DOMAIN ms : ms[i] = ms[j] => i = j
  BY <1>1 DEF IsInjective
<1>4. Members(e) \subseteq Procs
  BY <1>1, <1>2
<1>5. \A p : Rank(p, e) = CHOOSE i \in 0 .. Len(ms) - 1 : ms[i + 1] = p
  BY DEF Rank
<1> HIDE DEF ms
<1>6. ASSUME NEW p \in Members(e)
      PROVE  /\ Rank(p, e) \in 0 .. Len(ms) - 1 /\ ms[Rank(p, e) + 1] = p
             /\ Rank(p, e) = 0 <=> p = Root(e)
  <2>1. PICK j \in DOMAIN ms : ms[j] = p
    BY <1>2
  <2>2. j - 1 \in 0 .. Len(ms) - 1 /\ ms[(j - 1) + 1] = p
    BY <1>2, <2>1
  <2>3. Rank(p, e) \in 0 .. Len(ms) - 1 /\ ms[Rank(p, e) + 1] = p
    BY <1>5, <2>2
  <2>4. Rank(p, e) + 1 \in DOMAIN ms
    BY <1>2, <2>3
  <2> QED
    BY <1>2, <1>3, <2>3, <2>4
<1>7. ASSUME NEW r \in 0 .. Len(ms) - 1
      PROVE  ms[r + 1] \in Members(e) /\ Rank(ms[r + 1], e) = r
  <2>1. r + 1 \in DOMAIN ms /\ ms[r + 1] \in Members(e)
    BY <1>2
  <2>2. /\ Rank(ms[r + 1], e) \in 0 .. Len(ms) - 1
        /\ ms[Rank(ms[r + 1], e) + 1] = ms[r + 1]
    BY <1>6, <2>1
  <2>3. Rank(ms[r + 1], e) + 1 \in DOMAIN ms
    BY <1>2, <2>2
  <2> QED
    BY <1>2, <1>3, <2>1, <2>2, <2>3
<1> QED
  BY <1>2, <1>4, <1>6, <1>7 DEF ms

\* The share of a process is a number, and its place in the array is in range.
LEMMA Shares ==
  ASSUME SetsInv, psets \in Seq(Pset), NEW e \in Epochs
  PROVE  /\ Share(e) \in Nat /\ Share(e) * Number(e) <= Size
         /\ Exact => Share(e) * Number(e) = Size
         /\ \A p \in Members(e) : \A i \in 1 .. Share(e) :
              Rank(p, e) * Share(e) + i \in 1 .. Size
<1>1. Number(e) \in Nat /\ Number(e) > 0 /\ Number(e) \in Sizes
  BY Ranks DEF SetsInv, IsMainSet
<1>2. Size \in Nat
  BY NumbersAssumption
<1>3. Share(e) \in Nat /\ Size = Number(e) * Share(e) + (Size % Number(e))
      /\ Size % Number(e) \in 0 .. Number(e) - 1
  BY <1>1, <1>2, DivMod DEF Share
<1>4. Number(e) * Share(e) = Share(e) * Number(e) /\ Number(e) * Share(e) \in Nat
  BY <1>1, <1>3
<1>5. Share(e) * Number(e) <= Size /\ (Exact => Share(e) * Number(e) = Size)
  <2>1. Exact => Size % Number(e) = 0
    BY <1>1 DEF Exact
  <2> DEFINE a == Number(e) * Share(e)
             b == Size % Number(e)
  <2>2. Size = a + b /\ a \in Nat /\ b \in Nat /\ Share(e) * Number(e) = a
        /\ (Exact => b = 0)
    BY <1>1, <1>3, <1>4, <2>1
  <2> HIDE DEF a, b
  <2> QED
    BY <1>2, <2>2
<1>6. ASSUME NEW p \in Members(e), NEW i \in 1 .. Share(e)
      PROVE  Rank(p, e) * Share(e) + i \in 1 .. Size
  BY <1>1, <1>2, Ranks, PartRange DEF Share
<1> QED
  BY <1>3, <1>5, <1>6

\* Of an array a process gets its part, and the whole one gives it the elements
\* that it should have.
LEMMA PartHolds ==
  ASSUME SetsInv, psets \in Seq(Pset), NEW e \in Epochs, NEW p \in Members(e),
         NEW a \in Array
  PROVE  /\ Part(a, p, e) \in [1 .. Share(e) -> 0 .. Size]
         /\ a = Whole => Part(a, p, e) = Initial(p, e)
<1>1. \A i \in 1 .. Share(e) : Rank(p, e) * Share(e) + i \in 1 .. Size
  BY Shares
<1>2. Part(a, p, e) = [i \in 1 .. Share(e) |-> a[Rank(p, e) * Share(e) + i]]
  BY DEF Part
<1>3. Initial(p, e) = [i \in 1 .. Share(e) |-> Rank(p, e) * Share(e) + i]
  BY DEF Initial
<1>4. Part(a, p, e) \in [1 .. Share(e) -> 0 .. Size]
  BY <1>1, <1>2 DEF Array
<1>5. a = Whole => Part(a, p, e) = Initial(p, e)
  BY <1>1, <1>2, <1>3 DEF Whole
<1> QED
  BY <1>4, <1>5

\* What the processes of a set hold is collected to an array, and to the whole one.
LEMMA CollectedHolds ==
  ASSUME SetsInv, psets \in Seq(Pset), NEW e \in Epochs, \A p \in Members(e) : Holds(p, e)
  PROVE  Collected(e) \in Array /\ (Intact(e) => Collected(e) = Whole)
<1> DEFINE k == Share(e)
           n == Number(e)
           ms == psets[e].members
<1>1. k \in Nat /\ n \in Nat /\ n > 0 /\ Size \in Nat
  BY Ranks, Shares, NumbersAssumption
<1>2. ASSUME NEW j \in 1 .. Size, j <= k * n
      PROVE  LET v == block[ms[((j - 1) \div k) + 1]][((j - 1) % k) + 1]
             IN v \in 0 .. Size /\ (Intact(e) => v = j)
  <2> DEFINE q == (j - 1) \div k
             m == ((j - 1) % k) + 1
  <2>1. k > 0
    <3>1. SUFFICES ASSUME k = 0
                   PROVE  FALSE
      BY <1>1
    <3>2. 0 * n = 0
      BY <1>1
    <3> HIDE DEF n
    <3> QED
      BY <1>1, <1>2, <3>1, <3>2
  <2>2. q \in 0 .. n - 1 /\ m \in 1 .. k /\ q * k + m = j
    <3> HIDE DEF k, n
    <3> QED
      BY <1>1, <1>2, <2>1, ElementRange
  <2> HIDE DEF q, m
  <2>3. ms[q + 1] \in Members(e) /\ Rank(ms[q + 1], e) = q
    BY <2>2, Ranks
  <2>4. block[ms[q + 1]] \in [1 .. k -> 0 .. Size]
        /\ (Intact(e) => block[ms[q + 1]] = Initial(ms[q + 1], e))
    BY <2>3 DEF Holds
  <2>5. Initial(ms[q + 1], e)[m] = q * k + m
    BY <2>2, <2>3 DEF Initial
  <2>6. block[ms[q + 1]][m] \in 0 .. Size /\ (Intact(e) => block[ms[q + 1]][m] = j)
    BY <2>2, <2>4, <2>5
  <2> QED
    BY <2>6 DEF q, m
<1>3. Collected(e) = [j \in 1 .. Size |->
                        IF j <= k * n THEN block[ms[((j - 1) \div k) + 1]][((j - 1) % k) + 1]
                        ELSE Junk]
  BY DEF Collected
<1>4. Intact(e) => k * n = Size
  BY Shares DEF Intact
<1>5. Junk \in 0 .. Size
  BY <1>1 DEF Junk
<1>6. ASSUME NEW j \in 1 .. Size
      PROVE  Collected(e)[j] \in 0 .. Size /\ (Intact(e) => Collected(e)[j] = j)
  <2>1. CASE j <= k * n
    <3>1. Collected(e)[j] = block[ms[((j - 1) \div k) + 1]][((j - 1) % k) + 1]
      BY <1>3, <2>1
    <3> QED
      BY <1>2, <2>1, <3>1
  <2>2. CASE ~ (j <= k * n)
    <3>1. Collected(e)[j] = Junk
      BY <1>3, <2>2
    <3>2. Intact(e) => FALSE
      BY <1>1, <1>4, <2>2
    <3> QED
      BY <1>5, <3>1, <3>2
  <2> QED
    BY <2>1, <2>2
<1>7. DOMAIN Collected(e) = 1 .. Size /\ Collected(e) = [j \in 1 .. Size |-> Collected(e)[j]]
  BY <1>3
<1> HIDE DEF k, n, ms
<1>8. Collected(e) \in Array
  BY <1>6, <1>7 DEF Array
<1>9. Intact(e) => Collected(e) = Whole
  BY <1>6, <1>7 DEF Whole
<1> QED
  BY <1>8, <1>9

\* Where the elements are intact they were so before.
LEMMA IntactBefore ==
  ASSUME SetsInv, psets \in Seq(Pset), NEW e \in Epochs, e > 1, Intact(e)
  PROVE  e - 1 \in Epochs /\ Intact(e - 1)
<1>1. e \in Nat /\ e - 1 \in Epochs /\ 1 \in Epochs /\ 1 \in 1 .. e - 1
  BY DEF Epochs
<1>2. 1 \in Members(e)
  BY Ranks DEF Intact
<1>3. 1 \in Members(1)
  <2>1. Cardinality(Procs) \in Nat
    BY ProcsAssumption, FS_CardinalityType
  <2>2. psets[1].members = [i \in Orig |-> i] /\ 1 \in Orig
    BY <2>1, OrigAssumption, ProcsAssumption DEF SetsInv, Orig
  <2> QED
    BY <2>2 DEF Members, ToSet
<1>4. 1 \notin Added(e)
  BY <1>1, <1>3 DEF SetsInv, IsMainSet
<1>5. 1 \in Members(e - 1)
  BY <1>2, <1>4 DEF SetsInv, IsMainSet
<1> QED
  BY <1>1, <1>5 DEF SetsInv, IsMainSet, Intact

-----------------------------------------------------------------------------
(* The stages, and where a process is that is at some location. *)

\* The newest set, its rank 0 and the sets there are, stage by stage.
LEMMA Stages ==
  ASSUME IInv
  PROVE  /\ Stage \in Cycle \cup {"start"} /\ (Stage = "start" <=> Newest = 0)
         /\ Newest > 0 => /\ Newest \in Epochs /\ Newest \in 1 .. Newest
                          /\ Lead \in Members(Newest) /\ Lead \in Procs /\ Stayed(Lead)
                          /\ Members(Newest) \subseteq Procs
         /\ Stage = "settling" => /\ Newest > 1 /\ Newest - 1 \in Epochs
                                  /\ Newest - 1 \in 1 .. Newest /\ Len(psets) = Newest
         /\ Len(psets) = Newest + 1 => Newest + 1 \in Epochs
         /\ Newest = 0 => Len(psets) = 1
         /\ 1 \in Epochs /\ Members(1) = Orig
<1>1. psets \in Seq(Pset) /\ Newest \in Nat /\ Len(psets) \in Nat /\ Newest <= Len(psets)
      /\ Len(psets) > 0 /\ SetsInv /\ StageInv
  BY Types DEF IInv
<1>2. Stage \in Cycle \cup {"start"} /\ (Stage = "start" <=> Newest = 0)
  BY <1>1 DEF Stage, Cycle
<1>3. 1 \in Epochs
  BY <1>1 DEF Epochs
<1>4. Members(1) = Orig
  BY <1>1 DEF SetsInv, Members, ToSet
<1>5. ASSUME Newest > 0
      PROVE  /\ Newest \in Epochs /\ Newest \in 1 .. Newest
             /\ Lead \in Members(Newest) /\ Lead \in Procs /\ Stayed(Lead)
             /\ Members(Newest) \subseteq Procs
  <2>1. Newest \in Epochs /\ Newest \in 1 .. Newest
    BY <1>1, <1>5 DEF Epochs
  <2>2. Lead \in Members(Newest) /\ Members(Newest) \subseteq Procs
    BY <1>1, <2>1, Ranks DEF Lead
  <2>3. Newest = 1 => Added(Newest) = {}
    BY <1>1 DEF SetsInv
  <2>4. Newest > 1 => Lead \notin Added(Newest)
    BY <1>1, <2>1 DEF SetsInv, IsMainSet, Lead
  <2> QED
    BY <1>1, <1>5, <2>1, <2>2, <2>3, <2>4 DEF Stayed
<1>6. Stage = "settling" => Newest > 1 /\ Len(psets) = Newest
  BY <1>1, <1>2 DEF StageInv
<1>7. Newest > 1 => Newest - 1 \in Epochs /\ Newest - 1 \in 1 .. Newest
  BY <1>1 DEF Epochs
<1>8. Len(psets) = Newest + 1 => Newest + 1 \in Epochs
  BY <1>1 DEF Epochs
<1> QED
  BY <1>1, <1>2, <1>3, <1>4, <1>5, <1>6, <1>7, <1>8 DEF StageInv

\* Where the processes of the newest communicator may be, stage by stage.
LEMMA MemberWhere ==
  ASSUME IInv, NEW p \in Procs, IsMember(p)
  PROVE  /\ MemberAt(p)
         /\ Stage = "settling" /\ Stayed(p) => pc[p] \in {"itcast"} \cup Redistribution
         /\ Stage = "settling" /\ ~ Stayed(p)
              => pc[p] \in {"itrecv", "exprecv", "step", "query", "cancel", "barrier"}
         /\ Stage = "steady" =>
              /\ pc[p] \in {"step", "query", "cancel", "barrier", "ackwait", "itrecv", "exprecv"}
              /\ pc[p] = "ackwait" => p = Lead
              /\ pc[p] \in {"itrecv", "exprecv"} => ~ Stayed(p)
         /\ Stage = "dup" => pc[p] = "dup"
         /\ Stage = "moving" => pc[p] \in {"publish", "lookup"} /\ (pc[p] = "publish" => p = Lead)
         /\ Stage = "leaving" => pc[p] = "disconnect"
         /\ Stage = "between" => pc[p] = IF p \in Members(Newest + 1) THEN "recreate" ELSE "gatherS"
         /\ Stage = "over" => pc[p] = "exit"
<1>1. MemberAt(p)
  BY DEF IInv, PlaceInv, PlaceOf
<1>2. pc[p] \in Places(p)
  BY <1>1 DEF MemberAt
<1>3. CASE Stage = "settling"
  BY <1>1, <1>2, <1>3 DEF Places
<1>4. CASE Stage = "steady"
  BY <1>1, <1>2, <1>4 DEF Places
<1>5. CASE Stage = "dup"
  BY <1>1, <1>2, <1>5 DEF Places
<1>6. CASE Stage = "moving"
  BY <1>1, <1>2, <1>6 DEF Places
<1>7. CASE Stage = "leaving"
  BY <1>1, <1>2, <1>7 DEF Places
<1>8. CASE Stage = "between"
  BY <1>1, <1>2, <1>8 DEF Places
<1>9. CASE Stage = "over"
  BY <1>1, <1>2, <1>9 DEF Places
<1>10. Stage \in Cycle
  BY Stages, Types DEF IsMember
<1> QED
  BY <1>3, <1>4, <1>5, <1>6, <1>7, <1>8, <1>9, <1>10 DEF Cycle

\* A process of the newest communicator may be at any place that has these.
LEMMA MemberPlaces ==
  ASSUME NEW p, Stage \in Cycle,
         Stage = "settling" /\ Stayed(p) => pc[p] \in {"itcast"} \cup Redistribution,
         Stage = "settling" /\ ~ Stayed(p)
           => pc[p] \in {"itrecv", "exprecv", "step", "query", "cancel", "barrier"},
         Stage = "steady" =>
           /\ pc[p] \in {"step", "query", "cancel", "barrier", "ackwait", "itrecv", "exprecv"}
           /\ pc[p] = "ackwait" => p = Lead
           /\ pc[p] \in {"itrecv", "exprecv"} => ~ Stayed(p),
         Stage = "dup" => pc[p] = "dup",
         Stage = "moving" => pc[p] \in {"publish", "lookup"} /\ (pc[p] = "publish" => p = Lead),
         Stage = "leaving" => pc[p] = "disconnect",
         Stage = "between" => pc[p] = IF p \in Members(Newest + 1) THEN "recreate" ELSE "gatherS",
         Stage = "over" => pc[p] = "exit"
  PROVE  pc[p] \in Places(p)
<1>1. CASE Stage = "settling"
  BY <1>1 DEF Places
<1>2. CASE Stage = "steady"
  BY <1>2 DEF Places
<1>3. CASE Stage \in {"dup", "moving", "leaving", "between", "over"}
  BY <1>3 DEF Places
<1> QED
  BY <1>1, <1>2, <1>3 DEF Cycle

\* The location of a process tells what it is.
LEMMA Where ==
  ASSUME IInv, NEW p \in Procs
  PROVE  /\ pc[p] \in {"itrecv", "exprecv"} => IsMember(p) /\ Computing /\ ~ Stayed(p) /\ Newest > 1
         /\ pc[p] \in {"step", "query"} => IsMember(p) /\ Computing
         /\ pc[p] \in {"itcast", "gatherE", "scatterE", "scatterS"}
              => IsMember(p) /\ Stage = "settling" /\ Stayed(p)
         /\ pc[p] = "dup" => IsMember(p) /\ Stage = "dup"
         /\ pc[p] = "publish" => IsMember(p) /\ Stage = "moving" /\ p = Lead
         /\ pc[p] = "lookup" => IsMember(p) /\ Stage = "moving"
         /\ pc[p] = "disconnect" => IsMember(p) /\ Stage = "leaving"
         /\ pc[p] = "recreate" => IsMember(p) /\ Stage = "between" /\ p \in Members(Newest + 1)
         /\ pc[p] = "gatherS" =>
              \/ IsMember(p) /\ Stage = "settling" /\ Stayed(p)
              \/ IsMember(p) /\ Stage = "between" /\ p \notin Members(Newest + 1)
              \/ IsDeparting(p) /\ ~ IsMember(p)
         /\ pc[p] \in {"finop", "leaveold"} =>
              \/ IsMember(p) /\ Stage = "settling" /\ Stayed(p)
              \/ IsDeparting(p) /\ ~ IsMember(p)
         /\ pc[p] \in {"cancel", "barrier"} =>
              \/ IsMember(p) /\ Computing
              \/ Gone(p) /\ ~ IsMember(p)
         /\ pc[p] = "ackwait" => IsMember(p) /\ Stage = "steady" /\ p = Lead
         /\ pc[p] = "waiting" => IsSpawned(p) /\ ~ IsMember(p)
         /\ pc[p] = "init" => IsLaunched(p) \/ IsSpawned(p)
         /\ pc[p] = "off" => Unborn(p)
<1>1. PlaceOf(p)
  BY DEF IInv, PlaceInv
<1>2. Stage \in Cycle \cup {"start"} /\ (Stage = "start" <=> Newest = 0) /\ Newest \in Nat
  BY Stages, Types
<1>3. CASE IsMember(p)
  <2>1. ~ Stayed(p) => Newest > 1
    <3>1. Added(1) = {} /\ Newest > 0
      BY <1>3 DEF IInv, SetsInv, IsMember
    <3> QED
      BY <1>2, <3>1 DEF Stayed
  <2>2. Newest > 0 /\ Stage \in Cycle
    BY <1>2, <1>3 DEF IsMember
  <2> QED
    BY <1>3, <2>1, <2>2, MemberWhere DEF Cycle, Computing, Redistribution
<1>4. CASE ~ IsMember(p) /\ IsSpawned(p)
  BY <1>1, <1>4 DEF PlaceOf, SpawnedAt
<1>5. CASE ~ IsMember(p) /\ IsDeparting(p)
  BY <1>1, <1>5 DEF PlaceOf, DepartingAt
<1>6. CASE ~ IsMember(p) /\ IsLaunched(p)
  BY <1>1, <1>6 DEF PlaceOf, Launched
<1>7. CASE ~ IsMember(p) /\ Gone(p)
  BY <1>7 DEF Gone
<1>8. CASE ~ IsMember(p) /\ Unborn(p)
  BY <1>8 DEF Unborn
<1> QED
  BY <1>1, <1>3, <1>4, <1>5, <1>6, <1>7, <1>8 DEF PlaceOf

\* Spawned processes are in no earlier set, those that depart in no later one.
LEMMA Apart ==
  ASSUME IInv, NEW p \in Procs
  PROVE  /\ IsSpawned(p) => ~ IsMember(p) /\ ~ IsDeparting(p) /\ ~ IsLaunched(p)
         /\ IsDeparting(p) => ~ IsMember(p) /\ ~ IsLaunched(p)
         /\ IsLaunched(p) => ~ IsMember(p)
<1>1. IsSpawned(p) => ~ IsMember(p) /\ ~ IsDeparting(p)
  <2>1. SUFFICES ASSUME IsSpawned(p)
                 PROVE  ~ IsMember(p) /\ ~ IsDeparting(p)
    OBVIOUS
  <2>2. Newest + 1 \in Epochs /\ Newest \in 1 .. (Newest + 1) - 1 /\ Newest \in Nat
    BY <2>1, Stages, Types DEF IsSpawned
  <2>3. Added(Newest + 1) \cap Members(Newest) = {}
    BY <2>2 DEF IInv, SetsInv, IsMainSet
  <2>4. Stage = "settling" => Len(psets) # Newest + 1
    BY <2>2, Stages
  <2> QED
    BY <2>1, <2>3, <2>4 DEF IsSpawned, IsMember, IsDeparting
<1>2. IsDeparting(p) => Newest > 1
  BY Stages DEF IsDeparting
<1> QED
  BY <1>1, <1>2, Types DEF IsSpawned, IsMember, IsLaunched, IsDeparting

-----------------------------------------------------------------------------
(* What stays true of processes and sets that a step does not touch. *)

\* The sets keep their processes, and there is no new communicator.
Kept ==
  /\ psets' \in Seq(Pset) /\ Len(psets') = Len(psets) /\ Len(log') = Len(log)
  /\ \A e \in Epochs : /\ psets'[e].members = psets[e].members
                       /\ psets'[e].added = psets[e].added
                       /\ psets'[e].removed = psets[e].removed

\* What is said of the sets stays true while they are kept.
LEMMA KeptSets ==
  ASSUME IInv, Kept
  PROVE  /\ SetsInv' /\ Newest' = Newest /\ Epochs' = Epochs
         /\ \A e \in Epochs :
              /\ Members(e)' = Members(e) /\ Root(e)' = Root(e) /\ Added(e)' = Added(e)
              /\ psets'[e].removed = psets[e].removed
              /\ Share(e)' = Share(e) /\ DeltaAdd(e)' = DeltaAdd(e)
              /\ Intact(e)' <=> Intact(e)
              /\ \A p : Rank(p, e)' = Rank(p, e) /\ Initial(p, e)' = Initial(p, e)
         /\ Newest > 0 => Lead' = Lead /\ \A p : Stayed(p)' <=> Stayed(p)
<1>1. Newest' = Newest /\ Epochs' = Epochs
  BY DEF Kept, Newest, Epochs
<1>2. ASSUME NEW e \in Epochs
      PROVE  /\ Members(e)' = Members(e) /\ Root(e)' = Root(e) /\ Added(e)' = Added(e)
             /\ Number(e)' = Number(e) /\ Share(e)' = Share(e) /\ DeltaAdd(e)' = DeltaAdd(e)
             /\ Intact(e)' <=> Intact(e)
             /\ \A p : Rank(p, e)' = Rank(p, e)
  <2>1. Members(e)' = Members(e) /\ Root(e)' = Root(e) /\ Added(e)' = Added(e)
        /\ Number(e)' = Number(e) /\ DeltaAdd(e)' = DeltaAdd(e)
    BY DEF Kept, Members, Root, Added, Number, DeltaAdd
  <2>2. \A p : Rank(p, e)' = Rank(p, e)
    BY DEF Kept, Rank
  <2> QED
    BY <2>1, <2>2 DEF Share, Intact, Exact
<1>3. \A e \in Epochs : \A p : Initial(p, e)' = Initial(p, e)
  BY <1>2 DEF Initial
<1>4. ASSUME NEW e \in Epochs
      PROVE  IsMainSet(e)'
  <2>1. e \in Nat /\ e > 0 /\ \A d \in 1 .. e - 1 : d \in Epochs
    BY Types DEF Epochs
  <2>2. e > 1 => e - 1 \in Epochs
    BY <2>1, Types DEF Epochs
  <2>3. IsMainSet(e)
    BY DEF IInv, SetsInv
  <2>4. \A d \in 1 .. e - 1 : Added(e)' \cap Members(d)' = {}
    BY <1>2, <2>1, <2>3 DEF IsMainSet
  <2>5. e > 1 =>
          /\ Root(e)' \notin Added(e)'
          /\ psets'[e].removed = Members(e - 1)' \ Members(e)'
          /\ Members(e)' = (Members(e - 1)' \ psets'[e].removed) \cup Added(e)'
          /\ Added(e)' = {} <=> psets'[e].removed # {}
    BY <1>2, <2>2, <2>3 DEF IsMainSet, Kept
  <2>6. /\ psets'[e].members # <<>> /\ IsInjective(psets'[e].members) /\ Number(e)' \in Sizes
        /\ Added(e)' \subseteq Members(e)'
        /\ 1 \in Members(e)' => Root(e)' = 1
    BY <1>2, <2>3 DEF IsMainSet, Kept
  <2> QED
    BY <2>4, <2>5, <2>6 DEF IsMainSet
<1>5. SetsInv'
  <2>1. 1 \in Epochs
    BY Types DEF Epochs
  <2>2. psets'[1].members = [i \in Orig |-> i] /\ Added(1)' = {} /\ psets'[1].removed = {}
    BY <1>2, <2>1 DEF Kept, IInv, SetsInv
  <2>3. Orig' = Orig
    BY DEF Orig
  <2> QED
    BY <1>1, <1>4, <2>2, <2>3 DEF SetsInv, Kept, IInv
<1>6. Newest > 0 => Lead' = Lead /\ \A p : Stayed(p)' <=> Stayed(p)
  BY <1>1, <1>2, Stages DEF Lead, Stayed, Root
<1> QED
  BY <1>1, <1>2, <1>3, <1>5, <1>6 DEF Kept

\* A step that leaves the sets alone and makes no communicator keeps them.
LEMMA SameSets ==
  ASSUME IInv, UNCHANGED psets, Len(log') = Len(log)
  PROVE  Kept
BY Types DEF Kept

\* An operation is finalized.
LEMMA FinSets ==
  ASSUME IInv, NEW d \in Epochs, psets' = [psets EXCEPT ![d].fin = @ + 1], Len(log') = Len(log)
  PROVE  /\ Kept /\ psets'[d].fin = psets[d].fin + 1
         /\ \A e \in Epochs : e # d => psets'[e] = psets[e]
<1>1. psets \in Seq(Pset) /\ d \in DOMAIN psets /\ DOMAIN psets = Epochs
      /\ \A e \in Epochs : psets[e] \in Pset
  BY Types DEF Epochs
<1>2. psets[d] = [members |-> psets[d].members, added |-> psets[d].added,
                  removed |-> psets[d].removed, fin |-> psets[d].fin] /\ psets[d].fin \in Nat
  BY <1>1 DEF Pset
<1>3. psets' = [psets EXCEPT ![d] = [psets[d] EXCEPT !.fin = @ + 1]]
  OBVIOUS
<1>4. [psets[d] EXCEPT !.fin = @ + 1] \in Pset
  <2>1. [psets[d] EXCEPT !.fin = @ + 1]
          = [members |-> psets[d].members, added |-> psets[d].added,
             removed |-> psets[d].removed, fin |-> psets[d].fin + 1]
    BY <1>2
  <2>2. /\ psets[d].members \in Seq(Procs) /\ psets[d].added \in SUBSET Procs
        /\ psets[d].removed \in SUBSET Procs
    BY <1>1 DEF Pset
  <2> QED
    BY <1>2, <2>1, <2>2 DEF Pset
<1>5. psets' \in Seq(Pset) /\ Len(psets') = Len(psets)
  BY <1>1, <1>3, <1>4
<1>6. /\ psets'[d] = [psets[d] EXCEPT !.fin = @ + 1]
      /\ \A e \in Epochs : e # d => psets'[e] = psets[e]
  BY <1>1, <1>3
<1>7. /\ psets'[d].members = psets[d].members /\ psets'[d].added = psets[d].added
      /\ psets'[d].removed = psets[d].removed /\ psets'[d].fin = psets[d].fin + 1
  BY <1>2, <1>6
<1> QED
  BY <1>5, <1>6, <1>7 DEF Kept

SameAt(q) ==
  /\ pc'[q] = pc[q] /\ comm'[q] = comm[q] /\ old'[q] = old[q] /\ new'[q] = new[q]
  /\ main'[q] = main[q] /\ primary'[q] = primary[q] /\ it'[q] = it[q]
  /\ idx'[q] = idx[q] /\ block'[q] = block[q]

\* What q is stays the same.
LEMMA SameClass ==
  ASSUME IInv, Kept, Stage' = Stage
  PROVE  \A q : /\ IsMember(q)' <=> IsMember(q)
                /\ IsSpawned(q)' <=> IsSpawned(q)
                /\ IsDeparting(q)' <=> IsDeparting(q)
                /\ IsLaunched(q)' <=> IsLaunched(q)
<1>1. Newest' = Newest /\ Len(psets') = Len(psets) /\ Orig' = Orig
  BY KeptSets DEF Kept, Orig
<1>2. /\ Newest > 0 => Newest \in Epochs
      /\ Len(psets) = Newest + 1 => Newest + 1 \in Epochs
      /\ Stage = "settling" => Newest - 1 \in Epochs
  BY Stages
<1>3. ASSUME NEW q
      PROVE  /\ IsMember(q)' <=> IsMember(q)
             /\ IsSpawned(q)' <=> IsSpawned(q)
             /\ IsLaunched(q)' <=> IsLaunched(q)
             /\ IsDeparting(q)' <=> IsDeparting(q)
  <2>1. IsMember(q)' <=> IsMember(q)
    BY <1>1, <1>2, KeptSets DEF IsMember
  <2>2. IsSpawned(q)' <=> IsSpawned(q)
    BY <1>1, <1>2, KeptSets DEF IsSpawned
  <2>3. IsLaunched(q)' <=> IsLaunched(q)
    BY <1>1 DEF IsLaunched
  <2>4. IsDeparting(q)' <=> IsDeparting(q)
    <3>1. CASE Stage = "settling"
      <4>1. Newest > 0 /\ Newest \in Epochs /\ Newest - 1 \in Epochs
        BY <1>2, <3>1, Stages, Types
      <4> QED
        BY <1>1, <4>1, KeptSets DEF IsDeparting
    <3>2. CASE Stage # "settling"
      BY <3>2 DEF IsDeparting
    <3> QED
      BY <3>1, <3>2
  <2> QED
    BY <2>1, <2>2, <2>3, <2>4
<1> QED
  BY <1>3

\* A process keeps its place: of names, only a spawned one depends.
LEMMA SamePlace ==
  ASSUME IInv, Kept, Stage' = Stage, NEW q \in Procs, SameAt(q),
         \/ dict'[Newest + 1] = dict[Newest + 1]
         \/ pc[q] = "waiting" \/ ~ IsSpawned(q)
  PROVE  PlaceOf(q)'
<1>1. PlaceOf(q)
  BY DEF IInv, PlaceInv
<1>2. /\ Newest' = Newest /\ Epochs' = Epochs /\ Newest \in Nat /\ Len(psets) \in Nat
      /\ \A e \in Epochs : Members(e)' = Members(e) /\ Root(e)' = Root(e)
      /\ Newest > 0 => Lead' = Lead /\ \A p : Stayed(p)' <=> Stayed(p)
      /\ Newest <= Len(psets)
  BY KeptSets, Types
<1>3. /\ IsMember(q)' <=> IsMember(q)
      /\ IsSpawned(q)' <=> IsSpawned(q)
      /\ IsDeparting(q)' <=> IsDeparting(q)
      /\ IsLaunched(q)' <=> IsLaunched(q)
  BY SameClass
<1>4. IsMember(q) => MemberAt(q)'
  <2>1. SUFFICES ASSUME IsMember(q)
                 PROVE  MemberAt(q)'
    OBVIOUS
  <2>2. MemberAt(q) /\ Newest > 0 /\ Newest \in Epochs /\ Stage \in Cycle
    BY <2>1, Stages, MemberWhere, <1>2 DEF IsMember
  <2>3. main[q] \in Epochs
    <3>1. Stage \in {"leaving", "between"} => Newest + 1 \in Epochs
      BY Stages DEF IInv, StageInv
    <3> QED
      BY <2>2, <3>1 DEF MemberAt
  <2>4. Stage = "between" => Newest + 1 \in Epochs
    BY Stages DEF IInv, StageInv
  <2>5. Redistribution' = Redistribution
    BY <1>2, <2>2, KeptSets DEF Redistribution
  <2>6. Places(q)' = Places(q)
    <3>1. CASE Stage = "settling"
      BY <1>2, <2>2, <2>5, <3>1 DEF Places
    <3>2. CASE Stage = "steady"
      BY <1>2, <2>2, <3>2 DEF Places
    <3>3. CASE Stage \in {"dup", "moving", "leaving", "over"}
      BY <1>2, <2>2, <3>3 DEF Places
    <3>4. CASE Stage = "between"
      <4>1. Members(Newest + 1)' = Members(Newest + 1)
        BY <1>2, <2>4, <3>4
      <4> QED
        BY <1>2, <3>4, <4>1 DEF Places
    <3> QED
      BY <2>2, <3>1, <3>2, <3>3, <3>4 DEF Cycle
  <2> QED
    BY <1>2, <2>2, <2>3, <2>6 DEF MemberAt, SameAt
<1>5. IsSpawned(q) => SpawnedAt(q)'
  BY <1>1, <1>2 DEF PlaceOf, SpawnedAt, SameAt
<1>6. IsDeparting(q) => DepartingAt(q)'
  BY <1>1, <1>2 DEF PlaceOf, DepartingAt, SameAt
<1>7. IsLaunched(q) => Launched(q)'
  <2>1. 1 \in Epochs
    BY Stages
  <2> QED
    BY <1>1, <1>2, <2>1 DEF PlaceOf, Launched, SameAt
<1>8. Gone(q) => Gone(q)'
  <2>1. Gone(q) => main[q] \in Epochs
    BY <1>2 DEF Gone, Epochs
  <2> QED
    BY <1>2, <2>1 DEF Gone, SameAt
<1>9. Unborn(q) => Unborn(q)'
  BY <1>2 DEF Unborn, SameAt
<1>10. \A e \in 1 .. Newest : q \in Members(e)' => main'[q] >= e
  <2>1. \A e \in 1 .. Newest : e \in Epochs
    BY <1>2 DEF Epochs
  <2> QED
    BY <1>1, <1>2, <2>1 DEF PlaceOf, SameAt
<1> QED
  BY <1>1, <1>2, <1>3, <1>4, <1>5, <1>6, <1>7, <1>8, <1>9, <1>10 DEF PlaceOf

\* It stays in step with its communicator.
LEMMA SameIt ==
  ASSUME IInv, Kept, Stage' = Stage, Due' = Due, NEW q \in Procs, SameAt(q), IsMember(q)
  PROVE  ItOf(q)'
<1>1. ItOf(q) /\ Newest' = Newest /\ Newest \in Epochs
  BY KeptSets, Stages DEF IInv, ItInv, IsMember
<1>2. Redistribution' = Redistribution
  BY <1>1, KeptSets DEF Redistribution
<1>3. Computing' = Computing
  BY <1>1 DEF Computing
<1> QED
  BY <1>1, <1>2, <1>3 DEF ItOf, SameAt

\* A part of the data that nobody writes is held on.
LEMMA SameHolds ==
  ASSUME IInv, Kept, NEW q, block'[q] = block[q], NEW e \in Epochs, Holds(q, e)
  PROVE  Holds(q, e)'
BY KeptSets DEF Holds

\* It keeps its data.
LEMMA SameBlock ==
  ASSUME IInv, Kept, Stage' = Stage, NEW q \in Procs, SameAt(q), IsMember(q)
  PROVE  BlockOf(q)'
<1>1. BlockOf(q) /\ Newest' = Newest /\ Newest \in Epochs
  BY KeptSets, Stages DEF IInv, DataInv, IsMember
<1>2. Computing' = Computing
  BY <1>1 DEF Computing
<1>3. block'[q] = block[q] /\ pc'[q] = pc[q]
  BY DEF SameAt
<1>4. Holds(q, Newest) => Holds(q, Newest)'
  BY <1>1, <1>3, KeptSets DEF Holds
<1>5. Computing /\ pc[q] \in {"itcast", "gatherE", "gatherS"} => Newest - 1 \in Epochs
  BY Where, Stages, Apart DEF Computing
<1>6. Newest - 1 \in Epochs /\ Holds(q, Newest - 1) => Holds(q, Newest - 1)'
  BY <1>1, <1>3, KeptSets DEF Holds
<1> QED
  BY <1>1, <1>2, <1>3, <1>4, <1>5, <1>6 DEF BlockOf

-----------------------------------------------------------------------------
(* A step of process p alone, at one stage. *)

Solo(p) ==
  /\ Kept /\ Stage' = Stage /\ UNCHANGED <<comm, old, main, primary>>
  /\ \A q \in Procs : q # p => SameAt(q)

\* Rank 0 of the newest communicator does not change the stage by itself.
LEMMA SameStage ==
  ASSUME IInv, Kept, old' = old,
         Newest > 0 => \/ pc'[Lead] = pc[Lead] \/ Stage = "settling"
                       \/ /\ Stage = "steady"
                          /\ pc'[Lead] \in {"step", "query", "cancel", "ackwait", "barrier"}
                       \/ Stage = "moving" /\ pc'[Lead] \in {"publish", "lookup"}
  PROVE  Stage' = Stage
<1>1. Newest' = Newest /\ (Newest > 0 => Lead' = Lead) /\ Newest \in Nat
  BY KeptSets, Types
<1>2. CASE Newest = 0
  BY <1>1, <1>2 DEF Stage
<1>3. CASE Newest > 0
  BY <1>1, <1>3 DEF Stage
<1> QED
  BY <1>1, <1>2, <1>3

\* One process moves to a place of its kind: all are where they may be.
LEMMA SoloPlace ==
  ASSUME IInv, NEW p \in Procs, Solo(p),
         \/ dict'[Newest + 1] = dict[Newest + 1]
         \/ \A q \in Procs : IsSpawned(q) => pc[q] = "waiting",
         IsMember(p) \/ IsDeparting(p) \/ Gone(p), ~ IsSpawned(p), ~ IsLaunched(p),
         IsMember(p) => /\ pc'[p] \in Places(p)'
                        /\ Stage = "settling" /\ Stayed(p) /\ pc'[p] # "itcast"
                             => new'[p] = Newest,
         IsDeparting(p) => pc'[p] \in {"gatherS", "finop", "leaveold"},
         Gone(p) => pc'[p] \in {"cancel", "barrier", "exit"}
  PROVE  PlaceInv'
<1>1. \A q \in Procs : q # p => PlaceOf(q)'
  BY SamePlace DEF Solo
<1>2. /\ Newest' = Newest /\ Newest \in Nat /\ Len(psets) \in Nat
      /\ \A e \in Epochs : Members(e)' = Members(e) /\ Root(e)' = Root(e)
      /\ Newest > 0 => Lead' = Lead /\ \A q : Stayed(q)' <=> Stayed(q)
      /\ Newest <= Len(psets) /\ Kept /\ Stage' = Stage
  BY KeptSets, Types DEF Solo
<1>3. /\ IsMember(p)' <=> IsMember(p)
      /\ IsSpawned(p)' <=> IsSpawned(p)
      /\ IsDeparting(p)' <=> IsDeparting(p)
      /\ IsLaunched(p)' <=> IsLaunched(p)
  BY <1>2, SameClass
<1>4. PlaceOf(p) /\ UNCHANGED <<comm, old, main, primary>>
  BY DEF IInv, PlaceInv, Solo
<1>5. IsMember(p) => MemberAt(p)'
  <2>1. SUFFICES ASSUME IsMember(p)
                 PROVE  MemberAt(p)'
    OBVIOUS
  <2>2. MemberAt(p) /\ Newest > 0 /\ Newest \in Epochs
    BY <2>1, <1>2, Stages, MemberWhere DEF IsMember
  <2>3. main[p] \in Epochs
    <3>1. Stage \in {"leaving", "between"} => Newest + 1 \in Epochs
      BY Stages DEF IInv, StageInv
    <3> QED
      BY <2>2, <3>1 DEF MemberAt
  <2> QED
    BY <1>2, <1>4, <2>1, <2>2, <2>3 DEF MemberAt
<1>6. IsDeparting(p) => DepartingAt(p)'
  BY <1>2, <1>4 DEF PlaceOf, DepartingAt
<1>7. Gone(p) => Gone(p)'
  <2>1. Gone(p) => main[p] \in Epochs
    BY <1>2 DEF Gone, Epochs
  <2> QED
    BY <1>2, <1>4, <2>1 DEF Gone
<1>8. \A e \in 1 .. Newest : p \in Members(e)' => main'[p] >= e
  <2>1. \A e \in 1 .. Newest : e \in Epochs
    BY <1>2 DEF Epochs
  <2> QED
    BY <1>2, <1>4, <2>1 DEF PlaceOf
<1>9. PlaceOf(p)'
  BY <1>2, <1>3, <1>5, <1>6, <1>7, <1>8 DEF PlaceOf
<1> QED
  BY <1>1, <1>9 DEF PlaceInv

\* The names mean the same as long as no stage is passed that changes it.
LEMMA SameNames ==
  ASSUME IInv, Kept, dict' = dict, Published' <=> Published, Canceled' <=> Canceled
  PROVE  DictInv'
<1>1. Newest' = Newest /\ Len(psets') = Len(psets) /\ DictInv
  BY KeptSets DEF Kept, IInv
<1>2. Len(psets) = Newest + 1 =>
        DeltaAdd(Newest + 1)' = DeltaAdd(Newest + 1) /\ Added(Newest + 1)' = Added(Newest + 1)
  BY Stages, KeptSets
<1>3. Published => Len(psets) = Newest + 1
  BY DEF IInv, StageInv, Published
<1> QED
  BY <1>1, <1>2, <1>3 DEF DictInv

\* The counts of finalized operations are right as long as none is changed.
LEMMA SameFin ==
  ASSUME IInv, Kept, Stage' = Stage, \A e \in Epochs : psets'[e].fin = psets[e].fin,
         Canceled' <=> Canceled,
         Stage = "settling" => (pc'[Lead] = "leaveold" <=> pc[Lead] = "leaveold")
  PROVE  FinInv'
<1>1. /\ Newest' = Newest /\ Len(psets') = Len(psets) /\ FinInv /\ Newest \in Nat
      /\ Newest <= Len(psets) /\ Len(psets) \in Nat
  BY KeptSets, Types DEF Kept, IInv
<1>2. /\ \A e \in 2 .. Newest - 1 : e \in Epochs
      /\ Newest > 1 => Newest \in Epochs
      /\ Len(psets) = Newest + 1 => Newest + 1 \in Epochs
  BY <1>1 DEF Epochs
<1>3. Newest > 0 => Lead' = Lead
  BY KeptSets
<1>4. \A e \in 2 .. Newest - 1 : psets'[e].fin = 1
  BY <1>1, <1>2 DEF FinInv
<1>5. Newest > 1 =>
       psets'[Newest].fin = IF Stage = "settling" /\ pc'[Lead] # "leaveold" THEN 0 ELSE 1
  BY <1>1, <1>2 DEF FinInv
<1>6. Newest > 0 /\ Len(psets) = Newest + 1 =>
       psets'[Newest + 1].fin = IF Canceled' THEN 1 ELSE 0
  BY <1>1, <1>2 DEF FinInv
<1> QED
  BY <1>1, <1>3, <1>4, <1>5, <1>6 DEF FinInv

\* One process moves and the due step stays: all are in the right step.
LEMMA SoloIt ==
  ASSUME IInv, NEW p \in Procs, Solo(p), Newest > 0 => Due' = Due, IsMember(p) => ItOf(p)',
         ~ IsLaunched(p)
  PROVE  ItInv'
<1>1. Newest' = Newest /\ Kept /\ Stage' = Stage /\ ItInv
  BY KeptSets DEF Solo, IInv
<1>2. Newest > 0 => Members(Newest)' = Members(Newest) /\ Members(Newest) \subseteq Procs
  BY <1>1, KeptSets, Stages
<1>3. ASSUME Newest > 0, NEW q \in Members(Newest)
      PROVE  ItOf(q)'
  <2>1. q \in Procs /\ IsMember(q)
    BY <1>2, <1>3 DEF IsMember
  <2> QED
    BY <1>1, <1>3, <2>1, SameIt DEF Solo
<1>4. Newest = 0 => \A q \in Orig : it'[q] = 0
  <2>1. Orig \subseteq Procs
    BY Ranks, Stages, Types DEF IInv
  <2>2. Newest = 0 => p \notin Orig
    BY DEF IsLaunched
  <2> QED
    BY <1>1, <2>1, <2>2 DEF ItInv, Solo, SameAt
<1>5. Computing' <=> Computing
  BY <1>1 DEF Computing
<1>6. Computing' => Due' <= Steps
  BY <1>1, <1>5 DEF ItInv, Computing
<1>7. Orig' = Orig
  BY DEF Orig
<1> QED
  BY <1>1, <1>2, <1>3, <1>4, <1>6, <1>7 DEF ItInv

\* Nothing is sent: p has taken what its location says.
LEMMA SoloLog ==
  ASSUME IInv, NEW p \in Procs, Solo(p), Newest > 0 => Due' = Due, log' = log,
         Newest > 0 => p # Lead \/ idx'[p] = idx[p],
         IsMember(p) /\ Computing /\ Newest > 1 =>
           idx'[p] = Taken(p)' /\ (Taken(p)' = 0 => Taken(p) = 0)
  PROVE  LogInv'
<1>1. Newest' = Newest /\ Kept /\ Stage' = Stage /\ LogInv
  BY KeptSets DEF Solo, IInv
<1>2. Computing' <=> Computing
  BY <1>1 DEF Computing
<1>3. ASSUME Newest > 1, Computing
      PROVE  LET l == log[Newest] IN
             /\ Len(l) = idx'[Lead']
             /\ Len(l) > 0 => l[1].kind = "it"
             /\ Len(l) > 1 => l[2].kind = "data" /\ (Intact(Newest)' => l[2].val = Whole)
             /\ \A q \in Members(Newest)' :
                  /\ idx'[q] = Taken(q)'
                  /\ Taken(q)' = 0 /\ Len(l) > 0 => l[1].val + 1 = Due
  <2>1. /\ Newest > 0 /\ Lead' = Lead /\ Members(Newest)' = Members(Newest)
        /\ Intact(Newest)' <=> Intact(Newest)
        /\ Members(Newest) \subseteq Procs /\ Lead \in Procs /\ p \in Procs
    BY <1>1, <1>3, KeptSets, Stages, Types
  <2>2. idx'[Lead] = idx[Lead]
    BY <2>1 DEF Solo, SameAt
  <2>3. ASSUME NEW q \in Members(Newest)
        PROVE  /\ idx'[q] = Taken(q)'
               /\ Taken(q)' = 0 => Taken(q) = 0
    <3>1. CASE q = p
      BY <1>3, <2>1, <3>1 DEF IsMember
    <3>2. CASE q # p
      <4>1. SameAt(q) /\ idx[q] = Taken(q)
        BY <1>1, <1>3, <2>1, <3>2 DEF Solo, LogInv
      <4> QED
        BY <4>1 DEF SameAt, Taken
    <3> QED
      BY <3>1, <3>2
  <2>4. Due' = Due
    BY <2>1
  <2> QED
    BY <1>1, <1>3, <2>1, <2>2, <2>3, <2>4 DEF LogInv
<1>4. Newest > 1 => Due' = Due
  <2>1. Newest \in Nat
    BY Types
  <2> QED
    BY <2>1
<1> QED
  BY <1>1, <1>2, <1>3, <1>4 DEF LogInv

\* Rank 0 keeps what it has gathered until it has scattered it.
LEMMA SoloArray ==
  ASSUME IInv, NEW p \in Procs, Solo(p), gathered' \in [Procs -> Array \cup {<<>>}],
         IsMember(p) => BlockOf(p)',
         IsDeparting(p) /\ pc'[p] = "gatherS" => pc[p] = "gatherS" /\ block'[p] = block[p],
         Stage = "settling" /\ pc'[Lead] \in {"scatterE", "scatterS"}
           => pc[Lead] \in {"scatterE", "scatterS"} /\ gathered'[Lead] = gathered[Lead]
  PROVE  DataInv'
<1>1. Newest' = Newest /\ Kept /\ Stage' = Stage /\ DataInv
  BY KeptSets DEF Solo, IInv
<1>2. Newest > 0 => Members(Newest)' = Members(Newest) /\ Members(Newest) \subseteq Procs
  BY <1>1, KeptSets, Stages
<1>3. ASSUME Newest > 0, NEW q \in Members(Newest)
      PROVE  BlockOf(q)'
  <2>1. q \in Procs /\ IsMember(q)
    BY <1>2, <1>3 DEF IsMember
  <2> QED
    BY <1>1, <2>1, SameBlock DEF Solo
<1>4. ASSUME NEW q \in Procs, IsDeparting(q)', pc'[q] = "gatherS"
      PROVE  Holds(q, Newest - 1)'
  <2>1. IsDeparting(q) /\ Newest - 1 \in Epochs
    BY <1>1, <1>4, SameClass, Stages DEF IsDeparting
  <2>2. pc[q] = "gatherS" /\ block'[q] = block[q]
    BY <1>4, <2>1 DEF Solo, SameAt
  <2>3. Holds(q, Newest - 1)
    BY <1>1, <2>1, <2>2 DEF DataInv
  <2> QED
    BY <1>1, <2>1, <2>2, <2>3, KeptSets DEF Holds
<1>5. ASSUME Stage = "settling", pc'[Lead'] \in {"scatterE", "scatterS"}, Intact(Newest)'
      PROVE  gathered'[Lead'] = Whole
  <2>1. Newest > 0 /\ Lead' = Lead /\ Newest \in Epochs
    BY <1>1, <1>5, KeptSets, Stages, Types
  <2>2. Intact(Newest)
    BY <1>1, <1>5, <2>1, KeptSets
  <2> QED
    BY <1>1, <1>5, <2>1, <2>2 DEF DataInv
<1> QED
  BY <1>1, <1>2, <1>3, <1>4, <1>5 DEF DataInv

\* No array is gathered or given up.
LEMMA SoloData ==
  ASSUME IInv, NEW p \in Procs, Solo(p), gathered' = gathered,
         IsMember(p) => BlockOf(p)',
         IsDeparting(p) /\ pc'[p] = "gatherS" => pc[p] = "gatherS" /\ block'[p] = block[p],
         Stage = "settling" /\ pc'[Lead] \in {"scatterE", "scatterS"}
           => pc[Lead] \in {"scatterE", "scatterS"}
  PROVE  DataInv'
<1>1. gathered' \in [Procs -> Array \cup {<<>>}]
  BY Types
<1> QED
  BY <1>1, SoloArray

-----------------------------------------------------------------------------
(* The steps of single processes. *)

\* A process other than rank 0 decides nothing.
LEMMA Followers ==
  ASSUME IInv, NEW p \in Procs, Kept, old' = old, Newest > 0 => p # Lead,
         \A q \in Procs : q # p => SameAt(q)
  PROVE  /\ Stage' = Stage
         /\ Newest > 0 => Due' = Due
         /\ Published' <=> Published
         /\ Canceled' <=> Canceled
         /\ Newest > 0 => pc'[Lead] = pc[Lead]
<1>1. /\ Newest' = Newest /\ Newest \in Nat /\ Len(psets') = Len(psets)
      /\ Newest > 0 => Lead' = Lead /\ Lead \in Procs
  BY KeptSets, Types, Stages DEF Kept
<1>2. Newest > 0 => pc'[Lead] = pc[Lead] /\ it'[Lead] = it[Lead]
  BY <1>1 DEF SameAt
<1>3. Stage' = Stage
  BY <1>2, SameStage
<1>4. CASE Newest > 0
  BY <1>1, <1>2, <1>3, <1>4 DEF Due, Published, Canceled
<1>5. CASE Newest = 0
  <2>1. Stage = "start"
    BY <1>5, Stages
  <2>2. ~ Published /\ ~ Published' /\ ~ Canceled /\ ~ Canceled'
    BY <1>1, <1>3, <1>5, <2>1 DEF Published, Canceled
  <2> QED
    BY <1>1, <1>3, <1>5, <2>2
<1> QED
  BY <1>1, <1>4, <1>5

\* The runtime's view of a step that none of its variables takes part in.
LEMMA SameRuntime ==
  ASSUME IInv, Kept, Stage' = Stage, UNCHANGED <<psets, dict, req, asked>>,
         Newest > 0 => pc'[Lead] = pc[Lead],
         Published' <=> Published, Canceled' <=> Canceled
  PROVE  StageInv' /\ DictInv' /\ FinInv'
<1>1. /\ Newest' = Newest /\ Newest \in Nat /\ Len(psets') = Len(psets)
      /\ Newest > 0 => Lead' = Lead
      /\ Stage = "steady" => Newest > 0
      /\ Stage = "settling" => Newest > 0
      /\ StageInv
  BY KeptSets, Types, Stages DEF Kept, IInv
<1>2. StageInv'
  BY <1>1 DEF StageInv
<1>3. DictInv'
  BY SameNames
<1>4. FinInv'
  BY <1>1, SameFin
<1> QED
  BY <1>2, <1>3, <1>4

\* A function on an interval from 1 is a sequence.
LEMMA ListType ==
  ASSUME NEW S, NEW n \in Nat, NEW f \in [1 .. n -> S]
  PROVE  f \in Seq(S)
OBVIOUS

\* The types of a step of a single process.
LEMMA SoloTypes ==
  ASSUME IInv, Kept, NEW p \in Procs,
         dict' \in [0 .. MaxPsets -> Epochs \cup {0, Finalized}], ack' \subseteq Epochs,
         req' \in BOOLEAN, UNCHANGED <<comm, old, main, primary>>,
         \E l \in Locations : pc' = [pc EXCEPT ![p] = l],
         new' = new \/ \E e \in 0 .. Len(log) : new' = [new EXCEPT ![p] = e],
         asked' = asked \/ \E b \in BOOLEAN : asked' = [asked EXCEPT ![p] = b],
         it' = it \/ \E i \in 0 .. Steps + 1 : it' = [it EXCEPT ![p] = i],
         idx' = idx \/ \E i \in Nat : idx' = [idx EXCEPT ![p] = i],
         block' = block \/ \E b \in Seq(0 .. Size) : block' = [block EXCEPT ![p] = b],
         gathered' = gathered \/ \E b \in Seq(0 .. Size) : gathered' = [gathered EXCEPT ![p] = b]
  PROVE  TypeOK'
<1>1. TypeOK /\ Epochs' = Epochs /\ Len(psets') = Len(psets) /\ Len(log') = Len(log)
      /\ psets' \in Seq(Pset)
  BY KeptSets DEF Kept, IInv
<1>2. /\ pc' \in [Procs -> Locations] /\ new' \in [Procs -> 0 .. Len(log)]
      /\ asked' \in [Procs -> BOOLEAN] /\ it' \in [Procs -> 0 .. Steps + 1]
      /\ idx' \in [Procs -> Nat] /\ block' \in [Procs -> Seq(0 .. Size)]
      /\ gathered' \in [Procs -> Seq(0 .. Size)]
  <2>1. ASSUME NEW S, NEW f \in [Procs -> S], NEW g,
               g = f \/ \E v \in S : g = [f EXCEPT ![p] = v]
        PROVE  g \in [Procs -> S]
    BY <2>1
  <2>2. /\ pc \in [Procs -> Locations] /\ new \in [Procs -> 0 .. Len(log)]
        /\ asked \in [Procs -> BOOLEAN] /\ it \in [Procs -> 0 .. Steps + 1]
        /\ idx \in [Procs -> Nat] /\ block \in [Procs -> Seq(0 .. Size)]
        /\ gathered \in [Procs -> Seq(0 .. Size)]
    BY <1>1 DEF TypeOK
  <2>3. pc' \in [Procs -> Locations]
    BY <2>1, <2>2
  <2>4. new' \in [Procs -> 0 .. Len(log)]
    BY <2>1, <2>2
  <2>5. asked' \in [Procs -> BOOLEAN]
    BY <2>1, <2>2
  <2>6. it' \in [Procs -> 0 .. Steps + 1]
    BY <2>1, <2>2
  <2>7. idx' \in [Procs -> Nat]
    BY <2>1, <2>2
  <2>8. block' \in [Procs -> Seq(0 .. Size)]
    BY <2>1, <2>2
  <2>9. gathered' \in [Procs -> Seq(0 .. Size)]
    BY <2>1, <2>2
  <2> QED
    BY <2>3, <2>4, <2>5, <2>6, <2>7, <2>8, <2>9
<1> QED
  BY <1>1, <1>2 DEF TypeOK, Pset

\* The types of the runtime where it takes no part.
LEMMA SameTypes ==
  ASSUME IInv
  PROVE  /\ dict \in [0 .. MaxPsets -> Epochs \cup {0, Finalized}] /\ ack \subseteq Epochs
         /\ req \in BOOLEAN
BY DEF IInv, TypeOK

\* A spawned process receives the step (dmr.h:98).
LEMMA ItRecvKeeps ==
  ASSUME IInv, NEW p \in Procs, ItRecv(p)
  PROVE  IInv'
<1>1. /\ IsMember(p) /\ Computing /\ ~ Stayed(p) /\ Newest > 1 /\ pc[p] = "itrecv"
      /\ Newest \in Nat /\ p \in Members(Newest) /\ p # Lead /\ MemberAt(p)
      /\ Lead \in Members(Newest) /\ Lead \in Procs
  BY Where, Types, Stages, MemberWhere DEF ItRecv, IsMember
<1>2. Stage \in {"settling", "steady"} /\ comm[p] = Newest
  BY <1>1 DEF Computing, MemberAt
<1>3. idx[p] = 0 /\ 0 < Len(log[Newest]) /\ Value(p) + 1 = Due /\ Due <= Steps
  <2>1. idx[p] = Taken(p) /\ Taken(p) = 0
    BY <1>1 DEF IInv, LogInv, Taken
  <2>2. 0 < Len(log[Newest])
    BY <1>2, <2>1 DEF ItRecv, Ready
  <2>3. log[Newest][1].val + 1 = Due
    BY <1>1, <2>1, <2>2 DEF IInv, LogInv
  <2>4. Value(p) = log[Newest][1].val
    BY <1>2, <2>1 DEF Value
  <2> QED
    BY <1>1, <2>1, <2>2, <2>3, <2>4 DEF IInv, ItInv
<1>4. /\ it' = [it EXCEPT ![p] = Due] /\ idx' = [idx EXCEPT ![p] = 1]
      /\ pc' = [pc EXCEPT ![p] = "exprecv"]
      /\ UNCHANGED <<psets, dict, ack, req, log, comm, old, new, main, primary, asked, block,
                     gathered>>
  <2>1. it' = [it EXCEPT ![p] = Value(p) + 1] /\ idx' = [idx EXCEPT ![p] = idx[p] + 1]
    BY DEF ItRecv, Take
  <2>2. Value(p) + 1 = Due /\ idx[p] + 1 = 1
    BY <1>3
  <2> QED
    BY <2>1, <2>2 DEF ItRecv, Take, runtimeVars, commVars, dataVars
<1>5. Kept
  BY <1>4, SameSets
<1>6. \A q \in Procs : q # p => SameAt(q)
  BY <1>4, Types DEF SameAt
<1>7. /\ Stage' = Stage /\ Due' = Due
      /\ Published' <=> Published
      /\ Canceled' <=> Canceled
      /\ pc'[Lead] = pc[Lead]
  BY <1>1, <1>4, <1>5, <1>6, Followers
<1>8. Solo(p)
  BY <1>4, <1>5, <1>6, <1>7 DEF Solo
<1>9. pc'[p] = "exprecv" /\ it'[p] = Due /\ idx'[p] = 1
  BY <1>4, Types
<1>10. /\ Newest' = Newest /\ Lead' = Lead
       /\ Stayed(p)' <=> Stayed(p)
       /\ Computing' <=> Computing
       /\ Redistribution' = Redistribution
  BY <1>1, <1>5, <1>7, KeptSets, Stages DEF Computing, Redistribution
<1>11. TypeOK'
  <2>1. Due \in 0 .. Steps + 1
    <3>1. Due \in Nat
      BY SMTT(30), <1>1, Types DEF Due
    <3> QED
      BY <1>3, <3>1, Types
  <2> QED
    BY <1>4, <1>5, <2>1, SameTypes, SoloTypes DEF Locations
<1>12. PlaceInv'
  <2>1. pc'[p] \in Places(p)'
    BY <1>2, <1>1, <1>7, <1>9, <1>10 DEF Places
  <2> QED
    BY <1>1, <1>4, <1>8, <2>1, SoloPlace, Apart DEF Gone
<1>13. StageInv' /\ DictInv' /\ FinInv'
  BY <1>1, <1>4, <1>5, <1>7, SameRuntime
<1>14. ItInv'
  <2>1. ItOf(p)'
    BY <1>1, <1>7, <1>9, <1>10 DEF ItOf, Computing, Redistribution
  <2> QED
    BY <1>1, <1>7, <1>8, <2>1, SoloIt, Apart
<1>15. LogInv'
  BY <1>1, <1>4, <1>7, <1>8, <1>9, SoloLog DEF Taken
<1>16. DataInv'
  <2>1. BlockOf(p)'
    BY <1>1, <1>9, <1>10 DEF BlockOf
  <2> QED
    BY <1>1, <1>4, <1>7, <1>8, <1>9, <2>1, SoloData
<1>17. SetsInv'
  BY <1>5, KeptSets
<1> QED
  BY <1>11, <1>12, <1>13, <1>14, <1>15, <1>16, <1>17 DEF IInv

\* A spawned process receives its part of the vector (dmr.h:103).
LEMMA ExpRecvKeeps ==
  ASSUME IInv, NEW p \in Procs, ExpRecv(p)
  PROVE  IInv'
<1>1. /\ IsMember(p) /\ Computing /\ ~ Stayed(p) /\ Newest > 1 /\ pc[p] = "exprecv"
      /\ Newest \in Nat /\ p \in Members(Newest) /\ p # Lead /\ MemberAt(p)
      /\ Lead \in Members(Newest) /\ Lead \in Procs /\ Newest \in Epochs
  BY Where, Types, Stages, MemberWhere DEF ExpRecv, IsMember
<1>2. Stage \in {"settling", "steady"} /\ comm[p] = Newest
  BY <1>1 DEF Computing, MemberAt
<1>3. idx[p] = 1 /\ Value(p) \in Array /\ (Intact(Newest) => Value(p) = Whole)
  <2>1. idx[p] = Taken(p) /\ Taken(p) = 1
    BY <1>1 DEF IInv, LogInv, Taken
  <2>2. 1 < Len(log[Newest])
    BY <1>2, <2>1 DEF ExpRecv, Ready
  <2>3. /\ log[Newest][2].kind = "data" /\ (Intact(Newest) => log[Newest][2].val = Whole)
    BY <1>1, <2>1, <2>2 DEF IInv, LogInv
  <2>4. log[Newest][2] \in Message
    <3>1. log[Newest] \in Seq(Message)
      BY SMTT(30), <1>1, Types DEF Newest
    <3> QED
      BY <2>2, <3>1
  <2>5. Value(p) = log[Newest][2].val
    BY <1>2, <2>1 DEF Value
  <2> QED
    BY <2>1, <2>3, <2>4, <2>5 DEF Message
<1>4. /\ block' = [block EXCEPT ![p] = Part(Value(p), p, Newest)]
      /\ idx' = [idx EXCEPT ![p] = 2]
      /\ pc' = [pc EXCEPT ![p] = "step"]
      /\ UNCHANGED <<psets, dict, ack, req, log, comm, old, new, main, primary, asked, it,
                     gathered>>
  BY <1>2, <1>3 DEF ExpRecv, Take, runtimeVars, commVars
<1>5. Kept
  BY <1>4, SameSets
<1>6. \A q \in Procs : q # p => SameAt(q)
  BY <1>4, Types DEF SameAt
<1>7. /\ Stage' = Stage /\ Due' = Due
      /\ Published' <=> Published
      /\ Canceled' <=> Canceled
      /\ pc'[Lead] = pc[Lead]
  BY <1>1, <1>4, <1>5, <1>6, Followers
<1>8. Solo(p)
  BY <1>4, <1>5, <1>6, <1>7 DEF Solo
<1>9. pc'[p] = "step" /\ it'[p] = it[p] /\ idx'[p] = 2
      /\ block'[p] = Part(Value(p), p, Newest)
  BY <1>4, Types
<1>10. /\ Newest' = Newest /\ Lead' = Lead
       /\ Stayed(p)' <=> Stayed(p)
       /\ Computing' <=> Computing
       /\ Redistribution' = Redistribution
  BY <1>1, <1>5, <1>7, KeptSets, Stages DEF Computing, Redistribution
<1>11. /\ block'[p] \in [1 .. Share(Newest) -> 0 .. Size]
       /\ Intact(Newest) => block'[p] = Initial(p, Newest)
       /\ Share(Newest) \in Nat
  <2>1. SetsInv /\ psets \in Seq(Pset)
    BY Types DEF IInv
  <2>2. /\ Part(Value(p), p, Newest) \in [1 .. Share(Newest) -> 0 .. Size]
        /\ Value(p) = Whole => Part(Value(p), p, Newest) = Initial(p, Newest)
    BY <1>1, <1>3, <2>1, PartHolds
  <2>3. Share(Newest) \in Nat
    BY <1>1, <2>1, Shares
  <2> QED
    BY <1>3, <1>9, <2>2, <2>3
<1>12. TypeOK'
  <2>1. block'[p] \in Seq(0 .. Size)
    BY <1>11, ListType
  <2> QED
    BY <1>4, <1>5, <1>9, <2>1, SameTypes, SoloTypes DEF Locations
<1>13. PlaceInv'
  <2>1. pc'[p] \in Places(p)'
    BY <1>2, <1>1, <1>7, <1>9, <1>10 DEF Places
  <2> QED
    BY <1>1, <1>4, <1>8, <2>1, SoloPlace, Apart DEF Gone
<1>14. StageInv' /\ DictInv' /\ FinInv'
  BY <1>1, <1>4, <1>5, <1>7, SameRuntime
<1>15. ItInv'
  <2>1. ItOf(p)'
    <3>1. it[p] = Due
      BY <1>1 DEF IInv, ItInv, ItOf
    <3> QED
      BY <1>1, <1>7, <1>9, <1>10, <3>1 DEF ItOf, Computing, Redistribution
  <2> QED
    BY <1>1, <1>7, <1>8, <2>1, SoloIt, Apart
<1>16. LogInv'
  BY <1>1, <1>4, <1>7, <1>8, <1>9, SoloLog DEF Taken
<1>17. DataInv'
  <2>1. Holds(p, Newest)'
    BY <1>1, <1>5, <1>10, <1>11, KeptSets DEF Holds
  <2>2. BlockOf(p)'
    BY <1>1, <1>9, <1>10, <2>1 DEF BlockOf
  <2> QED
    BY <1>1, <1>4, <1>7, <1>8, <1>9, <2>2, SoloData
<1>18. SetsInv'
  BY <1>5, KeptSets
<1> QED
  BY <1>12, <1>13, <1>14, <1>15, <1>16, <1>17, <1>18 DEF IInv

\* Rank 0 goes on in its loop: the step that is due does not change.
LEMMA LeadWalks ==
  ASSUME IInv, Kept, Newest > 0, UNCHANGED old, Stage = "steady",
         pc'[Lead] \in {"step", "query", "cancel", "ackwait", "barrier"},
         IF pc'[Lead] \in {"step", "query"} THEN it'[Lead] = Due ELSE Due = Steps
  PROVE  Stage' = Stage /\ Due' = Due /\ (Published' <=> Published)
<1>1. Stage' = Stage /\ Lead' = Lead
  BY SameStage, KeptSets
<1>2. Due' = Due
  BY <1>1 DEF Due
<1>3. Published' <=> Published
  BY <1>1 DEF Published
<1> QED
  BY <1>1, <1>2, <1>3

\* A process computes a step, the primary one with an operation requested, or
\* leaves the loop (dmr.h:111-132).
LEMMA ComputeKeeps ==
  ASSUME IInv, NEW p \in Procs, Compute(p)
  PROVE  IInv'
<1>1. /\ IsMember(p) /\ Computing /\ pc[p] = "step" /\ Newest > 0
      /\ Newest \in Nat /\ p \in Members(Newest) /\ MemberAt(p)
      /\ Lead \in Members(Newest) /\ Lead \in Procs /\ Stayed(Lead) /\ Newest \in Epochs
  BY Where, Types, Stages, MemberWhere DEF Compute, IsMember
<1>2. /\ Stage \in {"settling", "steady"} /\ main[p] = Newest
      /\ primary[p] <=> p = Lead
  BY <1>1 DEF Computing, MemberAt, Lead
<1>3. p = Lead => Stage = "steady"
  BY <1>1, <1>2, MemberWhere DEF Redistribution
<1>4. it[p] = Due /\ Due <= Steps /\ it[p] \in Nat
  BY <1>1, Types DEF IInv, ItInv, ItOf
<1> DEFINE request == primary[p] /\ ~ asked[p]
<1>5. /\ UNCHANGED <<psets, dict, ack, log, comm, old, new, main, primary, idx, block,
                     gathered>>
      /\ \/ /\ it[p] < Steps
            /\ req' = (req \/ request) /\ asked' = [asked EXCEPT ![p] = asked[p] \/ request]
            /\ pc' = [pc EXCEPT ![p] = "query"] /\ it' = it
         \/ /\ it[p] = Steps
            /\ it' = [it EXCEPT ![p] = Steps + 1] /\ pc' = [pc EXCEPT ![p] = "cancel"]
            /\ req' = req /\ asked' = asked
  <2>1. UNCHANGED <<psets, dict, ack, log, comm, old, new, main, primary, idx, block,
                    gathered>>
    BY DEF Compute, commVars, dataVars
  <2>2. CASE it[p] < Steps
    BY <2>1, <2>2 DEF Compute
  <2>3. CASE ~ (it[p] < Steps)
    <3>1. it[p] = Steps
      BY <1>4, <2>3, Types
    <3>2. /\ it' = [it EXCEPT ![p] = it[p] + 1] /\ pc' = [pc EXCEPT ![p] = "cancel"]
          /\ req' = req /\ asked' = asked
      BY <2>3 DEF Compute
    <3> QED
      BY <2>1, <3>1, <3>2
  <2> QED
    BY <2>2, <2>3
<1>6. Kept
  BY <1>5, SameSets
<1>7. /\ \A q \in Procs : q # p => SameAt(q)
      /\ pc'[p] = (IF it[p] < Steps THEN "query" ELSE "cancel")
      /\ it'[p] = (IF it[p] < Steps THEN it[p] ELSE Steps + 1)
      /\ idx'[p] = idx[p] /\ block'[p] = block[p] /\ new'[p] = new[p]
  <2>1. CASE it[p] < Steps
    BY <1>4, <1>5, <2>1, Types DEF SameAt
  <2>2. CASE it[p] = Steps
    BY <1>4, <1>5, <2>2, Types DEF SameAt
  <2> QED
    BY <1>5, <2>1, <2>2
<1>8. /\ Stage' = Stage /\ Due' = Due
      /\ Published' <=> Published
      /\ Canceled' <=> Canceled
      /\ p # Lead => pc'[Lead] = pc[Lead]
  <2>1. CASE p # Lead
    BY <1>1, <1>5, <1>6, <1>7, <2>1, Followers
  <2>2. CASE p = Lead
    <3>1. /\ pc'[Lead] \in {"step", "query", "cancel", "ackwait", "barrier"}
          /\ IF pc'[Lead] \in {"step", "query"} THEN it'[Lead] = Due ELSE Due = Steps
      BY <1>4, <1>5, <1>7, <2>2
    <3>2. Stage' = Stage /\ Due' = Due /\ (Published' <=> Published)
      BY <1>1, <1>3, <1>5, <1>6, <2>2, <3>1, LeadWalks
    <3>3. ~ Canceled /\ ~ Canceled'
      BY <1>1, <1>3, <1>6, <1>7, <2>2, <3>2, KeptSets DEF Canceled
    <3> QED
      BY <2>2, <3>2, <3>3
  <2> QED
    BY <2>1, <2>2
<1>9. Solo(p)
  BY <1>5, <1>6, <1>7, <1>8 DEF Solo
<1>10. /\ Newest' = Newest /\ Lead' = Lead /\ Len(psets') = Len(psets)
       /\ Stayed(p)' <=> Stayed(p)
       /\ Computing' <=> Computing
       /\ Redistribution' = Redistribution
  BY <1>1, <1>6, <1>8, KeptSets, Stages DEF Computing, Redistribution, Kept
<1>11. TypeOK'
  <2>1. Steps + 1 \in 0 .. Steps + 1
    BY SMTT(30), Types
  <2>2. it' = it \/ \E i \in 0 .. Steps + 1 : it' = [it EXCEPT ![p] = i]
    BY <1>5, <2>1
  <2>3. req' \in BOOLEAN /\ (asked' = asked \/ \E b \in BOOLEAN : asked' = [asked EXCEPT ![p] = b])
    <3>1. req \in BOOLEAN /\ primary[p] \in BOOLEAN /\ asked[p] \in BOOLEAN
      BY SameTypes, Types
    <3> QED
      BY <1>5, <3>1
  <2>4. \E l \in Locations : pc' = [pc EXCEPT ![p] = l]
    BY <1>5 DEF Locations
  <2> QED
    BY <1>5, <1>6, <2>2, <2>3, <2>4, SameTypes, SoloTypes
<1>12. PlaceInv'
  <2>1. pc'[p] \in Places(p)'
    <3>1. CASE Stage = "steady"
      BY <1>7, <1>8, <1>10, <3>1 DEF Places
    <3>2. CASE Stage = "settling"
      <4>1. ~ Stayed(p)
        BY <1>1, <3>2, MemberWhere DEF Redistribution
      <4> QED
        BY <1>7, <1>8, <1>10, <3>2, <4>1 DEF Places
    <3> QED
      BY <1>2, <3>1, <3>2
  <2>2. ~ (Stage = "settling" /\ Stayed(p))
    BY <1>1, MemberWhere DEF Redistribution
  <2> QED
    BY <1>1, <1>5, <1>9, <2>1, <2>2, SoloPlace, Apart DEF Gone
<1>13. StageInv'
  <2>1. StageInv
    BY DEF IInv
  <2>2. CASE p # Lead
    <3>1. ~ request /\ primary[p] = FALSE
      <4>1. primary[p] \in BOOLEAN
        BY Types
      <4> QED
        BY <1>2, <2>2, <4>1
    <3>2. req' = req
      <4>1. req \in BOOLEAN
        BY SameTypes
      <4> QED
        BY <1>5, <3>1, <4>1, Zenon
    <3>3. asked'[Lead] = asked[Lead] /\ pc'[Lead] = pc[Lead]
      BY <1>1, <1>5, <1>8, <2>2, Types
    <3> QED
      BY <1>1, <1>8, <1>10, <2>1, <3>2, <3>3 DEF StageInv
  <2>3. CASE p = Lead
    <3>1. /\ pc'[Lead] \in {"query", "cancel"}
          /\ asked[Lead] => asked'[Lead]
          /\ req' => req \/ (~ asked[Lead] /\ asked'[Lead])
      <4>1. pc'[p] \in {"query", "cancel"}
        BY <1>5, <1>7
      <4>2. asked'[p] <=> asked[p] \/ (it[p] < Steps /\ request)
        BY <1>5, Types
      <4>3. req' => req \/ (it[p] < Steps /\ request)
        <5>1. CASE it[p] < Steps /\ req' = (req \/ request)
          BY <5>1, Zenon
        <5>2. CASE req' = req
          BY <5>2, Zenon
        <5> QED
          BY <1>5, <5>1, <5>2, Zenon
      <4> QED
        BY <2>3, <4>1, <4>2, <4>3
    <3>2. ~ asked[Lead] => Len(psets) = Newest
      BY <1>1, <1>3, <2>1, <2>3, Types DEF StageInv
    <3>3. pc'[Lead] = "query" \/ asked' = asked
      BY <1>5, <1>7, <2>3
    <3> QED
      BY <1>1, <1>3, <1>8, <1>10, <2>1, <2>3, <3>1, <3>2, <3>3 DEF StageInv
  <2> QED
    BY <2>2, <2>3
<1>14. DictInv' /\ FinInv'
  <2>1. Stage = "settling" => (pc'[Lead] = "leaveold" <=> pc[Lead] = "leaveold")
    BY <1>3, <1>8
  <2> QED
    BY <1>5, <1>6, <1>8, <2>1, SameNames, SameFin
<1>15. ItInv'
  <2>1. ItOf(p)'
    BY <1>2, <1>4, <1>7, <1>8, <1>10, Types DEF ItOf, Computing, Redistribution
  <2> QED
    BY <1>1, <1>8, <1>9, <2>1, SoloIt, Apart
<1>16. LogInv'
  <2>1. Taken(p)' = 2 /\ Taken(p) = 2
    BY <1>1, <1>7 DEF Taken
  <2>2. Newest > 1 => idx[p] = Taken(p)
    BY <1>1 DEF IInv, LogInv
  <2> QED
    BY <1>5, <1>7, <1>8, <1>9, <2>1, <2>2, SoloLog
<1>17. DataInv'
  <2>1. Holds(p, Newest)
    BY <1>1 DEF IInv, DataInv, BlockOf
  <2>2. BlockOf(p)'
    BY <1>1, <1>6, <1>7, <1>10, <2>1, SameHolds, KeptSets DEF BlockOf, Holds
  <2>3. ~ IsDeparting(p)
    BY <1>1, Apart
  <2>4. Stage = "settling" /\ pc'[Lead] \in {"scatterE", "scatterS"}
          => pc[Lead] \in {"scatterE", "scatterS"}
    BY <1>3, <1>8
  <2> QED
    BY <1>5, <1>9, <2>2, <2>3, <2>4, SoloData
<1>18. SetsInv'
  BY <1>6, KeptSets
<1> QED
  BY <1>11, <1>12, <1>13, <1>14, <1>15, <1>16, <1>17, <1>18 DEF IInv

\* The primary process publishes the name of the next set (dmr.h:144).
LEMMA PublishKeeps ==
  ASSUME IInv, NEW p \in Procs, Publish(p)
  PROVE  IInv'
<1>1. /\ IsMember(p) /\ Stage = "moving" /\ p = Lead /\ pc[p] = "publish" /\ Newest > 0
      /\ Newest \in Nat /\ p \in Members(Newest) /\ MemberAt(p) /\ Newest \in Epochs
      /\ Newest + 1 \in Epochs /\ Len(psets) = Newest + 1 /\ Newest + 1 <= MaxPsets
      /\ MaxPsets \in Nat
  BY Where, Types, Stages, MemberWhere DEF Publish, IsMember, IInv, StageInv
<1>2. main[p] = Newest /\ ~ Published /\ ~ Canceled /\ ~ Computing
  BY <1>1 DEF MemberAt, Published, Canceled, Computing
<1> DEFINE d == DeltaAdd(Newest + 1)
<1>3. /\ asked' = [asked EXCEPT ![p] = FALSE] /\ dict' = [dict EXCEPT ![d] = Newest + 1]
      /\ pc' = [pc EXCEPT ![p] = "lookup"]
      /\ UNCHANGED <<psets, ack, req, log, comm, old, new, main, primary, it, idx, block,
                     gathered>>
  BY <1>2 DEF Publish, commVars, dataVars
<1>4. Kept
  BY <1>3, SameSets
<1>5. /\ \A q \in Procs : q # p => SameAt(q)
      /\ pc'[p] = "lookup" /\ it'[p] = it[p] /\ idx'[p] = idx[p] /\ block'[p] = block[p]
  BY <1>3, Types DEF SameAt
<1>6. Stage' = Stage /\ Newest' = Newest /\ Lead' = Lead /\ Len(psets') = Len(psets)
  BY <1>1, <1>3, <1>4, <1>5, SameStage, KeptSets DEF Kept
<1>7. Published' /\ ~ Canceled' /\ ~ Computing' /\ Due' = Due
  BY <1>1, <1>5, <1>6 DEF Published, Canceled, Computing, Due
<1>8. Solo(p)
  BY <1>3, <1>4, <1>5, <1>6 DEF Solo
<1>9. d \in {0, Newest + 1} /\ d \in 0 .. MaxPsets /\ (d = 0 <=> Added(Newest + 1) = {})
  BY <1>1 DEF DeltaAdd, Added
<1>10. dict[Newest + 1] = 0
  BY <1>1, <1>2 DEF IInv, DictInv
<1>11. TypeOK'
  <2>1. dict' \in [0 .. MaxPsets -> Epochs \cup {0, Finalized}]
    BY <1>1, <1>3, <1>9, SameTypes
  <2> QED
    BY <1>3, <1>4, <2>1, SameTypes, SoloTypes DEF Locations
<1>12. PlaceInv'
  <2>1. pc'[p] \in Places(p)'
    BY <1>1, <1>5, <1>6 DEF Places
  <2>2. \A q \in Procs : IsSpawned(q) => pc[q] = "waiting"
    BY <1>1, <1>10 DEF IInv, PlaceInv, PlaceOf, SpawnedAt, Finalized
  <2> QED
    BY <1>1, <1>8, <2>1, <2>2, SoloPlace, Apart DEF Gone
<1>13. StageInv'
  BY <1>1, <1>3, <1>5, <1>6 DEF IInv, StageInv
<1>14. DictInv'
  <2>1. dict' \in [0 .. MaxPsets -> Nat] /\ dict'[d] = Newest + 1
        /\ \A c \in 0 .. MaxPsets : c # d => dict'[c] = dict[c]
    BY <1>1, <1>3, <1>9, Types
  <2>2. DeltaAdd(Newest + 1)' = d
    BY <1>1, <1>4, KeptSets
  <2>3. dict'[0] <= Newest + 1
    <3>1. dict[0] <= Newest
      BY <1>2 DEF IInv, DictInv
    <3>2. dict[0] \in Nat /\ 0 \in 0 .. MaxPsets
      BY <1>1, Types
    <3> QED
      BY <1>1, <2>1, <3>1, <3>2
  <2>4. \A c \in Len(psets) + 1 .. MaxPsets : dict'[c] = 0
    <3>1. \A c \in Len(psets) + 1 .. MaxPsets : c # d /\ c \in 0 .. MaxPsets
      BY <1>1, <1>9
    <3> QED
      BY <2>1, <3>1 DEF IInv, DictInv
  <2>5. \A c \in 1 .. Newest : dict'[c] \in {0, c}
    <3>1. \A c \in 1 .. Newest : c # d /\ c \in 0 .. MaxPsets
      BY <1>1, <1>9
    <3> QED
      BY <2>1, <3>1 DEF IInv, DictInv
  <2>6. Added(Newest + 1)' = {} => dict'[Newest + 1] = 0
    <3>1. Added(Newest + 1)' = Added(Newest + 1)
      BY <1>1, <1>4, KeptSets
    <3> QED
      BY <1>1, <1>9, <1>10, <2>1, <3>1
  <2> QED
    BY <1>6, <1>7, <2>1, <2>2, <2>3, <2>4, <2>5, <2>6 DEF DictInv
<1>15. FinInv'
  BY <1>1, <1>2, <1>3, <1>4, <1>6, <1>7, SameFin
<1>16. ItInv'
  <2>1. ItOf(p)'
    BY <1>1, <1>5, <1>6, <1>7 DEF IInv, ItInv, ItOf
  <2> QED
    BY <1>1, <1>7, <1>8, <2>1, SoloIt, Apart
<1>17. LogInv'
  BY <1>1, <1>2, <1>3, <1>5, <1>7, <1>8, SoloLog
<1>18. DataInv'
  <2>1. Holds(p, Newest)
    BY <1>1, <1>2 DEF IInv, DataInv, BlockOf
  <2>2. BlockOf(p)'
    BY <1>1, <1>4, <1>5, <1>6, <1>7, <2>1, KeptSets DEF BlockOf, Holds
  <2> QED
    BY <1>1, <1>3, <1>8, <2>2, SoloData DEF IsDeparting
<1>19. SetsInv'
  BY <1>4, KeptSets
<1> QED
  BY <1>11, <1>12, <1>13, <1>14, <1>15, <1>16, <1>17, <1>18, <1>19 DEF IInv

-----------------------------------------------------------------------------
(* The steps of a process while the task settles on a communicator. *)

\* While a task settles, steps that keep old and the step of rank 0 keep the stage.
LEMMA Settling ==
  ASSUME IInv, Kept, Stage = "settling", old' = old, it'[Lead] = it[Lead]
  PROVE  /\ Stage' = Stage /\ Due' = Due
         /\ Published' <=> Published
         /\ Canceled' <=> Canceled
         /\ Newest' = Newest /\ Lead' = Lead /\ Newest > 1
         /\ \A p : Stayed(p)' <=> Stayed(p)
         /\ Redistribution' = Redistribution
         /\ Computing /\ Computing'
<1>1. Newest' = Newest /\ Newest > 1 /\ Lead' = Lead /\ Newest \in Epochs
      /\ \A p : Stayed(p)' <=> Stayed(p)
  BY KeptSets, Stages, Types
<1>2. Stage' = Stage
  BY SameStage
<1>3. Redistribution' = Redistribution
  BY <1>1, KeptSets DEF Redistribution
<1> QED
  BY <1>1, <1>2, <1>3, Types DEF Due, Published, Canceled, Computing

\* They also keep what is known of requests and names.
LEMMA SettlingRuntime ==
  ASSUME IInv, Kept, Stage = "settling", old' = old, it'[Lead] = it[Lead],
         UNCHANGED <<dict, req>>
  PROVE  StageInv' /\ DictInv'
<1>1. /\ Stage' = "settling" /\ Newest' = Newest /\ Newest > 1 /\ Len(psets') = Len(psets)
      /\ Published' <=> Published
      /\ Canceled' <=> Canceled
  BY Settling DEF Kept
<1>2. StageInv'
  <2>1. ~ req /\ Len(psets) = Newest /\ Newest \in Nat
    BY Types DEF IInv, StageInv
  <2>2. ~ req'
    BY <2>1
  <2> QED
    BY <1>1, <2>1, <2>2 DEF StageInv
<1> QED
  BY <1>1, <1>2, SameNames

\* Rank 0 sends the number of its step, then the data.
LEMMA SoloSend ==
  ASSUME IInv, NEW p \in Procs, Solo(p), p = Lead, Computing, Newest > 1, Due' = Due,
         NEW m \in Message, log' = [log EXCEPT ![Newest] = Append(@, m)],
         idx'[p] = idx[p] + 1, idx'[p] = Taken(p)',
         Len(log[Newest]) = 0 => m.kind = "it" /\ m.val + 1 = Due,
         Len(log[Newest]) = 1 => m.kind = "data" /\ (Intact(Newest) => m.val = Whole)
  PROVE  LogInv'
<1> DEFINE l == log[Newest]
<1>1. /\ log \in Seq(Seq(Message)) /\ Newest \in 1 .. Len(log) /\ l \in Seq(Message)
      /\ Newest' = Newest /\ Lead' = Lead /\ Stage' = Stage
      /\ Members(Newest)' = Members(Newest)
      /\ Intact(Newest)' <=> Intact(Newest)
      /\ Members(Newest) \subseteq Procs
      /\ idx[p] \in Nat /\ Newest \in Nat
  BY SMTT(30), Types, KeptSets, Stages DEF Solo, Newest
<1>2. /\ log' \in Seq(Seq(Message)) /\ log'[Newest] = Append(l, m) /\ Append(l, m) \in Seq(Message)
  BY <1>1
<1>3. /\ Len(l) = idx[p]
      /\ Len(l) > 0 => l[1].kind = "it"
      /\ Len(l) > 1 => l[2].kind = "data" /\ (Intact(Newest) => l[2].val = Whole)
      /\ \A q \in Members(Newest) : /\ idx[q] = Taken(q)
                                    /\ Taken(q) = 0 /\ Len(l) > 0 => l[1].val + 1 = Due
  BY DEF IInv, LogInv
<1> DEFINE k == Append(l, m)
<1>4. /\ Len(k) = Len(l) + 1 /\ k[Len(l) + 1] = m /\ \A i \in 1 .. Len(l) : k[i] = l[i]
      /\ Len(l) \in Nat
  BY <1>1
<1>5. log'[Newest'] = k
  BY <1>1, <1>2
<1> HIDE DEF k, l
<1>6. Len(k) = idx'[p]
  BY <1>3, <1>4
<1>7. k[1].kind = "it"
  <2>1. CASE Len(l) = 0
    BY <1>4, <2>1 DEF l
  <2>2. CASE Len(l) > 0
    BY <1>3, <1>4, <2>2
  <2> QED
    BY <1>4, <2>1, <2>2
<1>8. Len(k) > 1 => k[2].kind = "data" /\ (Intact(Newest) => k[2].val = Whole)
  <2>1. CASE Len(l) = 1
    BY <1>4, <2>1 DEF l
  <2>2. CASE Len(l) > 1
    BY <1>3, <1>4, <2>2
  <2>3. CASE Len(l) = 0
    BY <1>4, <2>3
  <2>4. \A n \in Nat : n = 0 \/ n = 1 \/ n > 1
    OBVIOUS
  <2>5. Len(l) = 0 \/ Len(l) = 1 \/ Len(l) > 1
    BY <1>4, <2>4, Zenon
  <2> QED
    BY <2>1, <2>2, <2>3, <2>5, Zenon
<1>9. ASSUME NEW q \in Members(Newest)
      PROVE  /\ idx'[q] = Taken(q)'
             /\ Taken(q)' = 0 => k[1].val + 1 = Due
  <2>1. CASE q = p
    BY <1>1, <2>1
  <2>2. CASE q # p
    <3>1. SameAt(q)
      BY <1>1, <2>2 DEF Solo
    <3>2. Taken(q)' = Taken(q) /\ idx'[q] = Taken(q)'
      BY <1>3, <3>1 DEF SameAt, Taken
    <3>3. CASE Len(l) = 0
      BY <1>4, <3>2, <3>3 DEF l
    <3>4. CASE Len(l) > 0
      BY <1>3, <1>4, <3>2, <3>4
    <3> QED
      BY <1>4, <3>2, <3>3, <3>4
  <2> QED
    BY <2>1, <2>2
<1> QED
  BY <1>1, <1>2, <1>5, <1>6, <1>7, <1>8, <1>9 DEF LogInv

\* What a process takes next on the newest communicator.
LEMMA TakesIt ==
  ASSUME IInv, NEW p \in Members(Newest), Computing, Newest > 1, comm[p] = Newest,
         Taken(p) = 0, Ready(p, "it")
  PROVE  idx[p] = 0 /\ Value(p) \in Nat /\ Value(p) + 1 = Due
<1>1. idx[p] = 0 /\ 0 < Len(log[Newest])
  BY DEF IInv, LogInv, Ready
<1>2. log[Newest][1].kind = "it" /\ log[Newest][1].val + 1 = Due /\ Value(p) = log[Newest][1].val
  BY <1>1 DEF IInv, LogInv, Value
<1>3. log[Newest] \in Seq(Message)
  BY Types DEF Newest
<1>4. log[Newest][1] \in Message
  BY <1>1, <1>3
<1> QED
  BY <1>1, <1>2, <1>4 DEF Message

\* Whoever takes the second message takes a vector, whole if it was whole before.
LEMMA TakesData ==
  ASSUME IInv, NEW p \in Members(Newest), Computing, Newest > 1, comm[p] = Newest,
         Taken(p) = 1, Ready(p, "data")
  PROVE  idx[p] = 1 /\ Value(p) \in Array /\ (Intact(Newest) => Value(p) = Whole)
<1>1. idx[p] = 1 /\ 1 < Len(log[Newest])
  BY DEF IInv, LogInv, Ready
<1>2. /\ log[Newest][2].kind = "data" /\ (Intact(Newest) => log[Newest][2].val = Whole)
      /\ Value(p) = log[Newest][2].val
  BY <1>1 DEF IInv, LogInv, Value
<1>3. log[Newest] \in Seq(Message)
  BY Types DEF Newest
<1>4. log[Newest][2] \in Message
  BY <1>1, <1>3
<1> QED
  BY <1>1, <1>2, <1>4 DEF Message

\* The primary process finalizes the operation (dmr.h:196).
LEMMA FinalizePsetopKeeps ==
  ASSUME IInv, NEW p \in Procs, FinalizePsetop(p)
  PROVE  IInv'
<1>1. /\ pc[p] = "finop" /\ Stage = "settling"
      /\ IsMember(p) \/ IsDeparting(p)
      /\ IsMember(p) => MemberAt(p) /\ Stayed(p)
      /\ IsDeparting(p) => DepartingAt(p) /\ ~ IsMember(p)
      /\ Newest \in Nat /\ Newest > 1 /\ Newest \in Epochs /\ Lead \in Procs
      /\ Len(psets) = Newest /\ Computing
  BY Where, Types, Stages, MemberWhere, Apart
     DEF FinalizePsetop, IsDeparting, Computing, IInv, PlaceInv, PlaceOf
<1>2. main[p] = Newest /\ (primary[p] <=> p = Lead)
  <2>1. IsMember(Lead)
    BY <1>1, Stages DEF IsMember
  <2> QED
    BY <1>1, <2>1 DEF MemberAt, DepartingAt, Lead
<1>3. /\ psets' = IF p = Lead THEN [psets EXCEPT ![Newest].fin = @ + 1] ELSE psets
      /\ pc' = [pc EXCEPT ![p] = "leaveold"]
      /\ UNCHANGED <<dict, ack, req, log, comm, old, new, main, primary, asked, it, idx, block,
                     gathered>>
  BY <1>2 DEF FinalizePsetop, commVars, dataVars
<1>4. Kept /\ \A e \in Epochs : e # Newest => psets'[e] = psets[e]
  BY <1>1, <1>3, FinSets, SameSets
<1>5. /\ \A q \in Procs : q # p => SameAt(q)
      /\ pc'[p] = "leaveold" /\ it'[p] = it[p] /\ idx'[p] = idx[p] /\ block'[p] = block[p]
      /\ new'[p] = new[p] /\ it'[Lead] = it[Lead]
  BY <1>1, <1>3, Types DEF SameAt
<1>6. /\ Stage' = Stage /\ Due' = Due
      /\ Canceled' <=> Canceled
      /\ Newest' = Newest /\ Lead' = Lead
      /\ Stayed(p)' <=> Stayed(p)
      /\ Redistribution' = Redistribution /\ Computing'
  BY <1>1, <1>3, <1>4, <1>5, Settling
<1>7. Solo(p)
  BY <1>3, <1>4, <1>5, <1>6 DEF Solo
<1>8. TypeOK'
  BY <1>3, <1>4, SameTypes, SoloTypes DEF Locations
<1>9. PlaceInv'
  <2>1. IsMember(p) => pc'[p] \in Places(p)'
    BY <1>1, <1>5, <1>6 DEF Places, Redistribution
  <2>2. IsMember(p) => new'[p] = Newest
    BY <1>1, <1>5 DEF MemberAt
  <2> QED
    BY <1>1, <1>3, <1>5, <1>7, <2>1, <2>2, SoloPlace, Apart DEF Gone
<1>10. StageInv' /\ DictInv'
  BY <1>1, <1>3, <1>4, <1>5, SettlingRuntime
<1>11. FinInv'
  <2>1. CASE p # Lead
    BY <1>1, <1>3, <1>4, <1>5, <1>6, <2>1, SameFin DEF SameAt
  <2>2. CASE p = Lead
    <3>1. psets'[Newest].fin = psets[Newest].fin + 1
      BY <1>1, <1>3, <2>2, FinSets
    <3>2. psets[Newest].fin = 0
      BY <1>1, <2>2 DEF IInv, FinInv
    <3>3. \A e \in 2 .. Newest - 1 : e \in Epochs /\ e # Newest
      BY <1>1 DEF Epochs
    <3> QED
      BY <1>1, <1>4, <1>5, <1>6, <2>2, <3>1, <3>2, <3>3 DEF IInv, FinInv, Kept
  <2> QED
    BY <2>1, <2>2
<1>12. ItInv'
  <2>1. IsMember(p) => ItOf(p)'
    <3>1. IsMember(p) => it[p] + 1 = Due
      BY <1>1 DEF IInv, ItInv, ItOf, IsMember, Redistribution
    <3> QED
      BY <1>5, <1>6, <3>1, <1>1 DEF ItOf, Redistribution
  <2> QED
    BY <1>1, <1>6, <1>7, <2>1, SoloIt, Apart, Types DEF IsLaunched
<1>13. LogInv'
  <2>1. Taken(p)' = 2 /\ Taken(p) = 2
    BY <1>1, <1>5 DEF Taken
  <2>2. IsMember(p) => idx[p] = Taken(p)
    BY <1>1 DEF IInv, LogInv, IsMember
  <2> QED
    BY <1>3, <1>5, <1>6, <1>7, <2>1, <2>2, SoloLog
<1>14. DataInv'
  <2>1. IsMember(p) => Holds(p, Newest)
    BY <1>1 DEF IInv, DataInv, BlockOf, IsMember
  <2>2. IsMember(p) => BlockOf(p)'
    BY <1>1, <1>4, <1>5, <1>6, <2>1, KeptSets DEF BlockOf, Holds
  <2>3. pc'[Lead] \in {"scatterE", "scatterS"} => pc[Lead] \in {"scatterE", "scatterS"}
    BY <1>1, <1>5 DEF SameAt
  <2> QED
    BY <1>3, <1>5, <1>7, <2>2, <2>3, SoloData
<1>15. SetsInv'
  BY <1>4, KeptSets
<1> QED
  BY <1>8, <1>9, <1>10, <1>11, <1>12, <1>13, <1>14, <1>15 DEF IInv

\* Rank 0 sends its step and the others that stay take it (dmr.h:172).
LEMMA ItCastKeeps ==
  ASSUME IInv, NEW p \in Procs, ItCast(p)
  PROVE  IInv'
<1>1. /\ pc[p] = "itcast" /\ Stage = "settling" /\ IsMember(p) /\ MemberAt(p) /\ Stayed(p)
      /\ Newest \in Nat /\ Newest > 1 /\ Newest \in Epochs /\ Lead \in Procs
      /\ p \in Members(Newest) /\ Computing /\ Newest - 1 \in Epochs /\ Len(log) = Newest
      /\ Newest \in 1 .. Len(log)
  BY Where, Types, Stages, MemberWhere DEF ItCast, IsMember, Computing, Newest
<1>2. comm[p] = Newest /\ main[p] = Newest
  BY <1>1 DEF MemberAt
<1>3. /\ IsRoot(p) <=> p = Lead
      /\ idx[p] = 0 /\ Taken(p) = 0
      /\ Holds(p, Newest - 1)
  <2>1. Rank(p, Newest) = 0 <=> p = Lead
    BY <1>1, Ranks, Types DEF Lead, IInv
  <2> QED
    BY <1>1, <1>2, <2>1 DEF IsRoot, Taken, IInv, LogInv, DataInv, BlockOf
<1> DEFINE l == AfterSwitch(p)
<1>4. l = IF Added(Newest) # {} THEN "gatherE" ELSE "gatherS"
  <2>1. Added(Newest) = {} => psets[Newest].removed # {}
    BY <1>1 DEF IInv, SetsInv, IsMainSet
  <2> QED
    BY <1>2, <2>1 DEF AfterSwitch, Added
<1>5. l \in {"gatherE", "gatherS"} /\ l \in Redistribution
  BY <1>4 DEF Redistribution
<1> HIDE DEF l
<1>6. /\ pc' = [pc EXCEPT ![p] = l] /\ new' = [new EXCEPT ![p] = Newest]
      /\ UNCHANGED <<psets, dict, ack, req, comm, old, main, primary, asked, block, gathered>>
      /\ idx' = [idx EXCEPT ![p] = 1] /\ Len(log') = Len(log)
      /\ \/ /\ p = Lead /\ it' = it
            /\ log' = [log EXCEPT ![Newest] = Append(@, [kind |-> "it", val |-> it[p]])]
         \/ /\ p # Lead /\ log' = log /\ Value(p) \in Nat /\ Value(p) + 1 = Due
            /\ it' = [it EXCEPT ![p] = Value(p)]
  <2>1. /\ pc' = [pc EXCEPT ![p] = l] /\ new' = [new EXCEPT ![p] = Newest]
        /\ UNCHANGED <<psets, dict, ack, req, comm, old, main, primary, asked, block, gathered>>
    BY <1>2 DEF ItCast, l, runtimeVars, dataVars
  <2>2. CASE p = Lead
    <3>1. Send(p, "it", it[p]) /\ it' = it
      BY <1>3, <2>2 DEF ItCast
    <3>2. /\ log' = [log EXCEPT ![Newest] = Append(@, [kind |-> "it", val |-> it[p]])]
          /\ idx' = [idx EXCEPT ![p] = 1]
      BY <1>2, <1>3, <3>1 DEF Send
    <3>3. Len(log') = Len(log)
      BY <1>1, <3>2, Types
    <3> QED
      BY <2>1, <2>2, <3>1, <3>2, <3>3
  <2>3. CASE p # Lead
    <3>1. Ready(p, "it") /\ it' = [it EXCEPT ![p] = Value(p)] /\ Take(p)
      BY <1>3, <2>3 DEF ItCast
    <3>2. Value(p) \in Nat /\ Value(p) + 1 = Due
      BY <1>1, <1>2, <1>3, <3>1, TakesIt
    <3> QED
      BY <1>3, <2>1, <2>3, <3>1, <3>2 DEF Take
  <2> QED
    BY <2>2, <2>3
<1>7. Kept
  BY <1>6, SameSets
<1>8. /\ \A q \in Procs : q # p => SameAt(q)
      /\ pc'[p] = l /\ idx'[p] = 1 /\ block'[p] = block[p] /\ new'[p] = Newest
      /\ it'[Lead] = it[Lead] /\ it'[p] + 1 = Due
  <2>1. Due = it[Lead] + 1
    BY <1>1 DEF Due
  <2>2. \A q \in Procs : q # p => SameAt(q)
    BY <1>6, Types DEF SameAt
  <2>3. it'[Lead] = it[Lead] /\ it'[p] + 1 = Due
    BY <1>1, <1>6, <2>1, Types
  <2> QED
    BY <1>6, <2>2, <2>3, Types
<1>9. /\ Stage' = Stage /\ Due' = Due
      /\ Canceled' <=> Canceled
      /\ Newest' = Newest /\ Lead' = Lead
      /\ Stayed(p)' <=> Stayed(p)
      /\ Redistribution' = Redistribution /\ Computing'
  BY <1>1, <1>6, <1>7, <1>8, Settling
<1>10. Solo(p)
  BY <1>6, <1>7, <1>8, <1>9 DEF Solo
<1>11. TypeOK'
  <2>1. Newest \in 0 .. Len(log)
    BY <1>1
  <2>2. it' = it \/ \E i \in 0 .. Steps + 1 : it' = [it EXCEPT ![p] = i]
    <3>1. Due <= Steps
      BY <1>1 DEF IInv, ItInv
    <3>2. p # Lead => Value(p) \in 0 .. Steps + 1
      BY <1>6, <3>1, Types
    <3> QED
      BY <1>6, <3>2
  <2>3. \E k \in Locations : pc' = [pc EXCEPT ![p] = k]
    BY <1>5, <1>6 DEF Locations
  <2> QED
    BY <1>6, <1>7, <2>1, <2>2, <2>3, SameTypes, SoloTypes
<1>12. PlaceInv'
  <2>1. pc'[p] \in Places(p)'
    BY <1>1, <1>5, <1>8, <1>9 DEF Places
  <2> QED
    BY <1>1, <1>6, <1>8, <1>10, <2>1, SoloPlace, Apart DEF Gone
<1>13. StageInv' /\ DictInv'
  BY <1>1, <1>6, <1>7, <1>8, SettlingRuntime
<1>14. FinInv'
  <2>1. pc'[Lead] = "leaveold" <=> pc[Lead] = "leaveold"
    BY <1>1, <1>5, <1>8 DEF SameAt
  <2> QED
    BY <1>6, <1>7, <1>9, <2>1, SameFin
<1>15. ItInv'
  <2>1. ItOf(p)'
    BY <1>1, <1>5, <1>8, <1>9 DEF ItOf
  <2> QED
    BY <1>1, <1>9, <1>10, <2>1, SoloIt, Apart
<1>16. LogInv'
  <2>1. Taken(p)' = 1
    BY <1>5, <1>8 DEF Taken
  <2>2. CASE p = Lead
    <3> DEFINE m == [kind |-> "it", val |-> it[p]]
    <3>1. /\ m \in Message /\ m.kind = "it" /\ m.val + 1 = Due
          /\ log' = [log EXCEPT ![Newest] = Append(@, m)]
      BY <1>1, <1>6, <2>2, Types DEF Message, Due
    <3>2. idx'[p] = idx[p] + 1
      BY <1>3, <1>8
    <3>3. Len(log[Newest]) = 0
      BY <1>1, <1>3, <2>2 DEF IInv, LogInv
    <3> HIDE DEF m
    <3>4. /\ Len(log[Newest]) = 0 => m.kind = "it" /\ m.val + 1 = Due
          /\ Len(log[Newest]) = 1 => m.kind = "data" /\ (Intact(Newest) => m.val = Whole)
          /\ idx'[p] = Taken(p)'
      BY <1>8, <2>1, <3>1, <3>3
    <3> QED
      BY <1>1, <1>9, <1>10, <2>2, <3>1, <3>2, <3>4, SoloSend
  <2>3. CASE p # Lead
    BY <1>6, <1>8, <1>9, <1>10, <2>1, <2>3, SoloLog
  <2> QED
    BY <2>2, <2>3
<1>17. DataInv'
  <2>1. Holds(p, Newest - 1)'
    BY <1>1, <1>3, <1>7, <1>8, <1>9, KeptSets DEF Holds
  <2>2. BlockOf(p)'
    BY <1>5, <1>8, <1>9, <2>1 DEF BlockOf
  <2>3. pc'[Lead] \in {"scatterE", "scatterS"} => pc[Lead] \in {"scatterE", "scatterS"}
    BY <1>1, <1>5, <1>8 DEF SameAt
  <2> QED
    BY <1>1, <1>6, <1>10, <2>2, <2>3, SoloData, Apart
<1>18. SetsInv'
  BY <1>7, KeptSets
<1> QED
  BY <1>11, <1>12, <1>13, <1>14, <1>15, <1>16, <1>17, <1>18 DEF IInv

\* Rank 0 sends the vector and the others that stay take their part.
LEMMA ScatterKeeps ==
  ASSUME IInv, NEW p \in Procs, Scatter(p)
  PROVE  IInv'
<1>1. /\ pc[p] \in {"scatterE", "scatterS"} /\ Stage = "settling" /\ IsMember(p)
      /\ MemberAt(p) /\ Stayed(p) /\ pc[p] \in Redistribution
      /\ Newest \in Nat /\ Newest > 1 /\ Newest \in Epochs /\ Lead \in Procs
      /\ p \in Members(Newest) /\ Computing /\ Len(log) = Newest /\ Newest \in 1 .. Len(log)
  BY Where, Types, Stages, MemberWhere DEF Scatter, IsMember, Computing, Newest
<1>2. comm[p] = Newest /\ main[p] = Newest /\ new[p] = Newest
  BY <1>1 DEF MemberAt
<1>3. /\ IsRoot(p) <=> p = Lead
      /\ idx[p] = 1 /\ Taken(p) = 1
      /\ it[p] + 1 = Due
  <2>1. Rank(p, Newest) = 0 <=> p = Lead
    BY <1>1, Ranks, Types DEF Lead, IInv
  <2> QED
    BY <1>1, <1>2, <2>1 DEF IsRoot, Taken, IInv, LogInv, ItInv, ItOf
<1>4. AfterScatter(p) = "finop"
  <2>1. CASE pc[p] = "scatterS"
    BY <2>1 DEF AfterScatter
  <2>2. CASE pc[p] = "scatterE"
    <3>1. Added(Newest) # {}
      BY <1>1, <2>2 DEF Redistribution
    <3>2. psets[Newest].removed = {}
      BY <1>1, <3>1 DEF IInv, SetsInv, IsMainSet
    <3> QED
      BY <1>2, <3>2 DEF AfterScatter
  <2> QED
    BY <1>1, <2>1, <2>2
<1>5. Source(p) \in Array /\ (p = Lead /\ Intact(Newest) => Source(p) = Whole)
  <2>1. gathered[p] \in Array \cup {<<>>}
    BY Types
  <2>2. [i \in 1 .. Size |-> Junk] \in Array
    BY Types DEF Array, Junk
  <2>3. Source(p) \in Array
    BY <2>1, <2>2 DEF Source
  <2>4. Whole # <<>>
    <3>1. 1 \in DOMAIN Whole
      BY Types DEF Whole
    <3> QED
      BY <3>1
  <2>5. p = Lead /\ Intact(Newest) => gathered[p] = Whole
    BY <1>1 DEF IInv, DataInv
  <2> QED
    BY <2>3, <2>4, <2>5 DEF Source
<1>6. /\ pc' = [pc EXCEPT ![p] = "finop"]
      /\ UNCHANGED <<psets, dict, ack, req, comm, old, new, main, primary, asked, it>>
      /\ idx' = [idx EXCEPT ![p] = 2] /\ Len(log') = Len(log)
      /\ \E a \in Array :
           /\ block' = [block EXCEPT ![p] = Part(a, p, Newest)]
           /\ Intact(Newest) => a = Whole
      /\ \/ /\ p = Lead /\ gathered' = [gathered EXCEPT ![p] = <<>>]
            /\ log' = [log EXCEPT ![Newest] = Append(@, [kind |-> "data", val |-> Source(p)])]
         \/ p # Lead /\ log' = log /\ gathered' = gathered
  <2>1. /\ pc' = [pc EXCEPT ![p] = "finop"]
        /\ UNCHANGED <<psets, dict, ack, req, comm, old, new, main, primary, asked, it>>
    BY <1>4 DEF Scatter, runtimeVars, commVars
  <2>2. CASE p = Lead
    <3>1. /\ Send(p, "data", Source(p))
          /\ block' = [block EXCEPT ![p] = Part(Source(p), p, Newest)]
          /\ gathered' = [gathered EXCEPT ![p] = <<>>]
      BY <1>2, <1>3, <2>2 DEF Scatter
    <3>2. /\ log' = [log EXCEPT ![Newest] = Append(@, [kind |-> "data", val |-> Source(p)])]
          /\ idx' = [idx EXCEPT ![p] = 2]
      BY <1>2, <1>3, <3>1 DEF Send
    <3>3. Len(log') = Len(log)
      BY <1>1, <3>2, Types
    <3> QED
      BY <1>5, <2>1, <2>2, <3>1, <3>2, <3>3
  <2>3. CASE p # Lead
    <3>1. /\ Ready(p, "data") /\ block' = [block EXCEPT ![p] = Part(Value(p), p, Newest)]
          /\ Take(p) /\ gathered' = gathered
      BY <1>2, <1>3, <2>3 DEF Scatter
    <3>2. Value(p) \in Array /\ (Intact(Newest) => Value(p) = Whole)
      BY <1>1, <1>2, <1>3, <3>1, TakesData
    <3>3. log' = log /\ idx' = [idx EXCEPT ![p] = 2]
      BY <1>3, <3>1 DEF Take
    <3> QED
      BY <2>1, <2>3, <3>1, <3>2, <3>3
  <2> QED
    BY <2>2, <2>3
<1>7. Kept
  BY <1>6, SameSets
<1>8. /\ \A q \in Procs : q # p => SameAt(q)
      /\ pc'[p] = "finop" /\ idx'[p] = 2 /\ it'[p] = it[p] /\ new'[p] = new[p]
      /\ it'[Lead] = it[Lead]
  BY <1>6, Types DEF SameAt
<1>9. /\ Stage' = Stage /\ Due' = Due
      /\ Canceled' <=> Canceled
      /\ Newest' = Newest /\ Lead' = Lead
      /\ Stayed(p)' <=> Stayed(p)
      /\ Redistribution' = Redistribution /\ Computing'
  BY <1>1, <1>6, <1>7, <1>8, Settling
<1>10. Solo(p)
  BY <1>6, <1>7, <1>8, <1>9 DEF Solo
<1>11. /\ block'[p] \in [1 .. Share(Newest) -> 0 .. Size]
       /\ Intact(Newest) => block'[p] = Initial(p, Newest)
       /\ Share(Newest) \in Nat
       /\ \E b \in Seq(0 .. Size) : block' = [block EXCEPT ![p] = b]
  <2>1. SetsInv /\ psets \in Seq(Pset)
    BY Types DEF IInv
  <2>2. PICK a \in Array : /\ block' = [block EXCEPT ![p] = Part(a, p, Newest)]
                           /\ Intact(Newest) => a = Whole
    BY <1>6
  <2>3. /\ Part(a, p, Newest) \in [1 .. Share(Newest) -> 0 .. Size]
        /\ a = Whole => Part(a, p, Newest) = Initial(p, Newest)
    BY <1>1, <2>1, PartHolds
  <2>4. Share(Newest) \in Nat
    BY <1>1, <2>1, Shares
  <2>5. Part(a, p, Newest) \in Seq(0 .. Size)
    BY <2>3, <2>4, ListType
  <2>6. block'[p] = Part(a, p, Newest)
    BY <2>2, Types
  <2> QED
    BY <2>2, <2>3, <2>4, <2>5, <2>6
<1>12. TypeOK'
  <2>1. gathered' = gathered \/ \E b \in Seq(0 .. Size) : gathered' = [gathered EXCEPT ![p] = b]
    <3>1. <<>> \in Seq(0 .. Size)
      OBVIOUS
    <3> QED
      BY <1>6, <3>1
  <2> QED
    BY <1>6, <1>7, <1>11, <2>1, SameTypes, SoloTypes DEF Locations
<1>13. PlaceInv'
  <2>1. pc'[p] \in Places(p)'
    BY <1>1, <1>8, <1>9 DEF Places, Redistribution
  <2> QED
    BY <1>1, <1>2, <1>6, <1>8, <1>10, <2>1, SoloPlace, Apart DEF Gone
<1>14. StageInv' /\ DictInv'
  BY <1>1, <1>6, <1>7, <1>8, SettlingRuntime
<1>15. FinInv'
  <2>1. pc'[Lead] = "leaveold" <=> pc[Lead] = "leaveold"
    BY <1>1, <1>8 DEF SameAt
  <2> QED
    BY <1>6, <1>7, <1>9, <2>1, SameFin
<1>16. ItInv'
  <2>1. ItOf(p)'
    BY <1>1, <1>3, <1>8, <1>9 DEF ItOf
  <2> QED
    BY <1>1, <1>9, <1>10, <2>1, SoloIt, Apart
<1>17. LogInv'
  <2>1. Taken(p)' = 2
    BY <1>8 DEF Taken
  <2>2. CASE p = Lead
    <3> DEFINE m == [kind |-> "data", val |-> Source(p)]
    <3>1. /\ m \in Message /\ m.kind = "data" /\ (Intact(Newest) => m.val = Whole)
          /\ log' = [log EXCEPT ![Newest] = Append(@, m)]
      BY <1>1, <1>5, <1>6, <2>2 DEF Message
    <3>2. idx'[p] = idx[p] + 1
      BY <1>3, <1>8
    <3>3. Len(log[Newest]) = 1
      BY <1>1, <1>3, <2>2 DEF IInv, LogInv
    <3> HIDE DEF m
    <3>4. /\ Len(log[Newest]) = 0 => m.kind = "it" /\ m.val + 1 = Due
          /\ Len(log[Newest]) = 1 => m.kind = "data" /\ (Intact(Newest) => m.val = Whole)
          /\ idx'[p] = Taken(p)'
      BY <1>8, <2>1, <3>1, <3>3
    <3> QED
      BY <1>1, <1>9, <1>10, <2>2, <3>1, <3>2, <3>4, SoloSend
  <2>3. CASE p # Lead
    BY <1>6, <1>8, <1>9, <1>10, <2>1, <2>3, SoloLog
  <2> QED
    BY <2>2, <2>3
<1>18. DataInv'
  <2>1. Holds(p, Newest)'
    BY <1>1, <1>7, <1>9, <1>11, KeptSets DEF Holds
  <2>2. BlockOf(p)'
    BY <1>8, <1>9, <2>1 DEF BlockOf
  <2>3. pc'[Lead] \in {"scatterE", "scatterS"}
          => pc[Lead] \in {"scatterE", "scatterS"} /\ gathered'[Lead] = gathered[Lead]
    BY <1>1, <1>6, <1>8, Types DEF SameAt
  <2>4. gathered' \in [Procs -> Array \cup {<<>>}]
    BY <1>6, Types
  <2> QED
    BY <1>1, <1>8, <1>10, <2>2, <2>3, <2>4, SoloArray, Apart
<1>19. SetsInv'
  BY <1>7, KeptSets
<1> QED
  BY <1>12, <1>13, <1>14, <1>15, <1>16, <1>17, <1>18, <1>19 DEF IInv

-----------------------------------------------------------------------------
(* The steps of a process that ends. *)

\* A process goes on to wait for an acknowledgement or for the last barrier.
LEMMA Winds ==
  ASSUME IInv, NEW p \in Procs, Kept, pc[p] \in {"cancel", "ackwait"},
         NEW l \in {"ackwait", "barrier"}, pc' = [pc EXCEPT ![p] = l],
         l = "ackwait" => p = Lead /\ IsMember(p),
         UNCHANGED <<ack, log, comm, old, new, main, primary, asked, it, idx, block, gathered>>,
         dict' \in [0 .. MaxPsets -> Epochs \cup {0, Finalized}], req' \in BOOLEAN,
         \/ dict'[Newest + 1] = dict[Newest + 1]
         \/ \A q \in Procs : IsSpawned(q) => pc[q] = "waiting"
  PROVE  /\ TypeOK' /\ SetsInv' /\ PlaceInv' /\ ItInv' /\ LogInv' /\ DataInv'
         /\ Stage' = Stage /\ Newest' = Newest /\ Lead' = Lead /\ Newest > 0
         /\ Newest \in Nat /\ Len(psets') = Len(psets)
         /\ Published' <=> Published
         /\ p # Lead => pc'[Lead] = pc[Lead] /\ (Canceled' <=> Canceled)
         /\ p = Lead => Stage = "steady" /\ pc'[Lead] = l
<1>1. /\ IsMember(p) \/ Gone(p)
      /\ IsMember(p) => MemberAt(p) /\ Computing /\ Newest > 0
      /\ Gone(p) => ~ IsMember(p) /\ ~ IsSpawned(p)
      /\ ~ IsDeparting(p) /\ ~ IsLaunched(p)
      /\ Newest \in Nat
  <2>1. PlaceOf(p) /\ Newest \in Nat
    BY Types DEF IInv, PlaceInv
  <2>2. ~ IsDeparting(p) /\ ~ IsLaunched(p) /\ ~ IsSpawned(p)
    BY <2>1 DEF PlaceOf, DepartingAt, Launched, SpawnedAt
  <2>3. (IsMember(p) /\ Computing) \/ (Gone(p) /\ ~ IsMember(p))
    BY Where, Types DEF IsMember, Computing
  <2>4. IsMember(p) => MemberAt(p) /\ Newest > 0
    BY <2>1 DEF PlaceOf, IsMember
  <2>5. Gone(p) => ~ IsMember(p)
    BY <2>1, <2>3, <2>4 DEF Gone, MemberAt, IsMember, Computing
  <2> QED
    BY <2>1, <2>2, <2>3, <2>4, <2>5
<1>2. /\ Newest > 0 /\ Lead \in Procs /\ IsMember(Lead) /\ Newest \in Epochs
      /\ Newest' = Newest /\ Lead' = Lead /\ Len(psets') = Len(psets)
      /\ \A q : Stayed(q)' <=> Stayed(q)
  <2>1. Gone(p) => Newest > 0
    BY <1>1 DEF Gone
  <2> QED
    BY <1>1, <2>1, Stages, KeptSets DEF IsMember, Kept
<1>3. p = Lead => Stage = "steady"
  <2>1. p = Lead => Stayed(p)
    BY <1>2, Stages
  <2> QED
    BY <1>1, <1>2, <2>1, MemberWhere DEF Computing, Redistribution
<1>4. /\ \A q \in Procs : q # p => SameAt(q)
      /\ pc'[p] = l /\ idx'[p] = idx[p] /\ it'[p] = it[p] /\ new'[p] = new[p]
      /\ block'[p] = block[p]
  BY Types DEF SameAt
<1>5. IsMember(p) => it[p] = it[p] /\ Due = Steps
  BY <1>1 DEF IInv, ItInv, ItOf, IsMember
<1>6. /\ Stage' = Stage /\ Due' = Due
      /\ Published' <=> Published
      /\ p # Lead => pc'[Lead] = pc[Lead] /\ (Canceled' <=> Canceled)
  <2>1. CASE p # Lead
    BY <1>2, <1>4, <2>1, Followers
  <2>2. CASE p = Lead
    BY <1>2, <1>3, <1>4, <1>5, <2>2, LeadWalks
  <2> QED
    BY <2>1, <2>2
<1>7. Solo(p)
  BY <1>4, <1>6 DEF Solo
<1>8. TypeOK'
  BY SameTypes, SoloTypes DEF Locations
<1>9. PlaceInv'
  <2>1. IsMember(p) => pc'[p] \in Places(p)' /\ ~ (Stage = "settling" /\ Stayed(p))
    <3>1. SUFFICES ASSUME IsMember(p)
                   PROVE  pc'[p] \in Places(p)' /\ ~ (Stage = "settling" /\ Stayed(p))
      OBVIOUS
    <3>2. ~ (Stage = "settling" /\ Stayed(p))
      BY <3>1, MemberWhere DEF Redistribution
    <3>3. CASE Stage = "steady"
      BY <1>2, <1>4, <1>6, <3>2, <3>3 DEF Places
    <3>4. CASE Stage = "settling"
      BY <1>2, <1>3, <1>4, <1>6, <3>2, <3>4 DEF Places
    <3> QED
      BY <1>1, <3>1, <3>2, <3>3, <3>4 DEF Computing
  <2> QED
    BY <1>1, <1>4, <1>7, <2>1, SoloPlace, Apart
<1>10. Computing' <=> Computing
  BY <1>2, <1>6 DEF Computing
<1>11. ItInv'
  <2>1. IsMember(p) => ItOf(p)'
    BY <1>1, <1>4, <1>5, <1>6, <1>10 DEF ItOf, Redistribution, Computing
  <2> QED
    BY <1>1, <1>6, <1>7, <2>1, SoloIt
<1>12. LogInv'
  <2>1. Taken(p)' = 2 /\ Taken(p) = 2
    BY <1>4 DEF Taken
  <2>2. IsMember(p) /\ Newest > 1 => idx[p] = Taken(p)
    BY <1>1 DEF IInv, LogInv, IsMember
  <2> QED
    BY <1>4, <1>6, <1>7, <2>1, <2>2, SoloLog
<1>13. DataInv'
  <2>1. IsMember(p) => Holds(p, Newest)
    BY <1>1 DEF IInv, DataInv, BlockOf, IsMember
  <2>2. IsMember(p) => BlockOf(p)'
    BY <1>1, <1>2, <1>4, <1>10, <2>1, KeptSets DEF BlockOf, Holds
  <2>3. Stage = "settling" /\ pc'[Lead] \in {"scatterE", "scatterS"}
          => pc[Lead] \in {"scatterE", "scatterS"}
    BY <1>3, <1>6
  <2> QED
    BY <1>1, <1>7, <2>2, <2>3, SoloData
<1> QED
  BY <1>1, <1>2, <1>3, <1>4, <1>6, <1>8, <1>9, <1>11, <1>12, <1>13, KeptSets

\* The primary process has the acknowledgement (dmr.h:280).
LEMMA AckWaitKeeps ==
  ASSUME IInv, NEW p \in Procs, AckWait(p)
  PROVE  IInv'
<1>1. /\ pc[p] = "ackwait" /\ p = Lead /\ Stage = "steady" /\ Newest > 0 /\ Newest \in Nat
      /\ Len(psets) = Newest + 1 /\ Canceled
  BY Where, Types DEF AckWait, IInv, StageInv, IsMember, Canceled
<1>2. /\ pc' = [pc EXCEPT ![p] = "barrier"]
      /\ UNCHANGED <<psets, dict, ack, req, log, comm, old, new, main, primary, asked, it, idx,
                     block, gathered>>
  BY DEF AckWait, runtimeVars, commVars, dataVars
<1>3. Kept
  BY <1>2, SameSets
<1>4. /\ TypeOK' /\ SetsInv' /\ PlaceInv' /\ ItInv' /\ LogInv' /\ DataInv'
      /\ Stage' = Stage /\ Newest' = Newest /\ Lead' = Lead /\ Len(psets') = Len(psets)
      /\ Published' <=> Published
      /\ pc'[Lead] = "barrier"
  BY <1>1, <1>2, <1>3, SameTypes, Winds
<1>5. Canceled'
  BY <1>1, <1>4 DEF Canceled
<1>6. StageInv'
  BY <1>1, <1>2, <1>4 DEF IInv, StageInv
<1>7. DictInv'
  BY <1>1, <1>2, <1>3, <1>4, <1>5, SameNames
<1>8. FinInv'
  BY <1>1, <1>2, <1>3, <1>4, <1>5, SameFin
<1> QED
  BY <1>4, <1>6, <1>7, <1>8 DEF IInv

\* The primary process of the task finds that its operation was executed.
LEMMA CancelTells ==
  ASSUME IInv, NEW p \in Procs, Cancel(p), primary[p], Executed(p)
  PROVE  IInv'
<1>1. /\ pc[p] = "cancel" /\ p = Lead /\ IsMember(p) /\ Stage = "steady" /\ main[p] = Newest
      /\ Newest > 0 /\ Newest \in Nat /\ Len(psets) = Newest + 1 /\ Newest + 1 \in Epochs
      /\ Newest + 1 \in 0 .. MaxPsets /\ MaxPsets \in Nat
  <2>1. IsMember(p) /\ Computing
    BY Where DEF Cancel, Gone
  <2>2. MemberAt(p) /\ Stage \in {"settling", "steady"}
    BY <2>1, MemberWhere DEF Computing
  <2>3. main[p] = Newest /\ p = Lead
    BY <2>2 DEF MemberAt, Lead
  <2>4. Stayed(Lead)
    BY <2>1, Stages, Types DEF Computing
  <2>5. Stage = "steady"
    BY <2>1, <2>2, <2>3, <2>4, MemberWhere DEF Cancel, Redistribution
  <2>6. Len(psets) = Newest + 1
    BY <2>3, Types DEF Executed
  <2> QED
    BY <2>1, <2>3, <2>5, <2>6, Types, Stages DEF Cancel, Computing
<1>2. ~ Published /\ ~ Canceled /\ dict[Newest + 1] = 0
  BY <1>1 DEF Published, Canceled, IInv, DictInv
<1>3. /\ dict' = IF Added(Newest + 1) # {} THEN [dict EXCEPT ![Newest + 1] = Finalized] ELSE dict
      /\ psets' = [psets EXCEPT ![Newest + 1].fin = @ + 1]
      /\ pc' = [pc EXCEPT ![p] = "ackwait"]
      /\ UNCHANGED <<ack, req, log, comm, old, new, main, primary, asked, it, idx, block,
                     gathered>>
  BY <1>1 DEF Cancel, Added, commVars, dataVars
<1>4. /\ Kept /\ psets'[Newest + 1].fin = psets[Newest + 1].fin + 1
      /\ \A e \in Epochs : e # Newest + 1 => psets'[e] = psets[e]
  BY <1>1, <1>3, FinSets
<1>5. dict' \in [0 .. MaxPsets -> Epochs \cup {0, Finalized}]
  BY <1>3, SameTypes
<1>6. \A q \in Procs : IsSpawned(q) => pc[q] = "waiting"
  BY <1>1, <1>2 DEF IInv, PlaceInv, PlaceOf, SpawnedAt, Finalized
<1>7. /\ TypeOK' /\ SetsInv' /\ PlaceInv' /\ ItInv' /\ LogInv' /\ DataInv'
      /\ Stage' = Stage /\ Newest' = Newest /\ Lead' = Lead /\ Len(psets') = Len(psets)
      /\ Published' <=> Published
      /\ pc'[Lead] = "ackwait"
  BY <1>1, <1>3, <1>4, <1>5, <1>6, SameTypes, Winds
<1>8. Canceled'
  BY <1>1, <1>7 DEF Canceled
<1>9. StageInv'
  BY <1>1, <1>3, <1>7 DEF IInv, StageInv
<1>10. DictInv'
  <2>1. /\ Added(Newest + 1)' = Added(Newest + 1)
        /\ dict' \in [0 .. MaxPsets -> Nat]
        /\ dict'[Newest + 1] = IF Added(Newest + 1) # {} THEN Finalized ELSE 0
        /\ \A c \in 0 .. MaxPsets : c # Newest + 1 => dict'[c] = dict[c]
    BY <1>1, <1>2, <1>3, <1>4, Types, KeptSets DEF Finalized
  <2>2. /\ \A c \in Len(psets) + 1 .. MaxPsets : c # Newest + 1 /\ c \in 0 .. MaxPsets
        /\ \A c \in 1 .. Newest : c # Newest + 1 /\ c \in 0 .. MaxPsets
        /\ 0 # Newest + 1 /\ 0 \in 0 .. MaxPsets
    BY <1>1
  <2> QED
    BY <1>1, <1>2, <1>7, <1>8, <2>1, <2>2 DEF IInv, DictInv
<1>11. FinInv'
  <2>1. /\ \A e \in 2 .. Newest - 1 : e \in Epochs /\ e # Newest + 1
        /\ Newest \in Epochs /\ Newest # Newest + 1
    BY <1>1 DEF Epochs
  <2>2. psets[Newest + 1].fin = 0
    BY <1>1, <1>2 DEF IInv, FinInv
  <2>3. /\ \A e \in 2 .. Newest - 1 : psets'[e].fin = 1
        /\ Newest > 1 => psets'[Newest].fin = 1
        /\ psets'[Newest + 1].fin = 1
    BY <1>1, <1>4, <2>1, <2>2 DEF IInv, FinInv
  <2> QED
    BY <1>1, <1>7, <1>8, <2>3 DEF FinInv
<1> QED
  BY <1>7, <1>9, <1>10, <1>11 DEF IInv

\* A process begins to end; the primary one cancels or tells (dmr.h:255).
LEMMA CancelKeeps ==
  ASSUME IInv, NEW p \in Procs, Cancel(p)
  PROVE  IInv'
<1>1. CASE primary[p] /\ Executed(p)
  BY <1>1, CancelTells
<1>2. CASE ~ (primary[p] /\ Executed(p))
  <2>1. /\ pc[p] = "cancel" /\ pc' = [pc EXCEPT ![p] = "barrier"]
        /\ UNCHANGED <<psets, dict, ack, log, comm, old, new, main, primary, asked, it, idx,
                       block, gathered>>
        /\ req' = (req /\ ~ primary[p])
    BY <1>2 DEF Cancel, commVars, dataVars
  <2>2. Kept
    BY <2>1, SameSets
  <2>3. req' \in BOOLEAN /\ (req' => req /\ ~ primary[p])
    BY <2>1, Zenon
  <2>4. /\ TypeOK' /\ SetsInv' /\ PlaceInv' /\ ItInv' /\ LogInv' /\ DataInv'
        /\ Stage' = Stage /\ Newest' = Newest /\ Lead' = Lead /\ Newest > 0
        /\ Newest \in Nat /\ Len(psets') = Len(psets)
        /\ Published' <=> Published
        /\ p # Lead => pc'[Lead] = pc[Lead] /\ (Canceled' <=> Canceled)
        /\ p = Lead => Stage = "steady" /\ pc'[Lead] = "barrier"
    BY <2>1, <2>2, <2>3, SameTypes, Winds
  <2>5. p = Lead => Len(psets) = Newest
    <3>1. SUFFICES ASSUME p = Lead
                   PROVE  Len(psets) = Newest
      OBVIOUS
    <3>2. IsMember(p) /\ MemberAt(p)
      BY <2>4, <3>1, Stages, MemberWhere DEF IsMember
    <3>3. main[p] = Newest /\ primary[p]
      BY <2>4, <3>1, <3>2 DEF MemberAt, Lead
    <3> QED
      BY <1>2, <3>3, Types DEF Executed
  <2>6. Canceled' <=> Canceled
    BY <2>4, <2>5 DEF Canceled
  <2>7. StageInv'
    <3>1. p = Lead => ~ req'
      <4>1. p = Lead => primary[p]
        <5>1. p = Lead => IsMember(p) /\ MemberAt(p)
          BY <2>4, Stages, MemberWhere DEF IsMember
        <5> QED
          BY <2>4, <5>1 DEF MemberAt, Lead
      <4> QED
        BY <2>3, <4>1
    <3>2. CASE p = Lead
      BY <2>4, <2>5, <3>1, <3>2 DEF StageInv
    <3>3. CASE p # Lead
      BY <2>1, <2>3, <2>4, <3>3 DEF IInv, StageInv
    <3> QED
      BY <3>2, <3>3
  <2>8. DictInv'
    BY <2>1, <2>2, <2>4, <2>6, SameNames
  <2>9. FinInv'
    BY <2>1, <2>2, <2>4, <2>6, SameFin
  <2> QED
    BY <2>4, <2>7, <2>8, <2>9 DEF IInv
<1> QED
  BY <1>1, <1>2

-----------------------------------------------------------------------------
(* The steps all processes of a communicator take together. *)

\* A collective operation on the newest communicator.
LEMMA Calls ==
  ASSUME IInv, NEW e \in Epochs, NEW l \in {"query", "dup", "lookup", "disconnect"},
         AllCall(e, l, comm)
  PROVE  /\ e = Newest /\ Newest > 0 /\ Newest \in Nat /\ Newest \in Epochs
         /\ Members(Newest) \subseteq Procs /\ Lead \in Members(Newest) /\ Lead \in Procs
         /\ \A p \in Members(Newest) : IsMember(p) /\ MemberAt(p) /\ pc[p] = l
         /\ Stage = CASE l = "query" -> "steady" [] l = "dup" -> "dup"
                      [] l = "lookup" -> "moving" [] l = "disconnect" -> "leaving"
<1>1. Root(e) \in Members(e) /\ Members(e) \subseteq Procs
  BY Ranks, Types DEF IInv
<1>2. pc[Root(e)] = l /\ comm[Root(e)] = e
  BY <1>1 DEF AllCall, AllAt
<1>3. IsMember(Root(e)) /\ Newest > 0 /\ MemberAt(Root(e)) /\ Newest \in Nat
  BY <1>1, <1>2, Where, Types, MemberWhere DEF IsMember
<1>4. e = Newest
  <2>1. ~ (Stage \in {"between", "over"})
    BY <1>1, <1>2, Where DEF Computing
  <2> QED
    BY <1>2, <1>3, <2>1 DEF MemberAt
<1>5. /\ Members(Newest) \subseteq Procs /\ Lead \in Members(Newest) /\ Lead \in Procs
      /\ Stayed(Lead)
      /\ \A p \in Members(Newest) : IsMember(p) /\ MemberAt(p) /\ pc[p] = l
  BY <1>3, <1>4, Stages, MemberWhere DEF AllCall, AllAt, IsMember
<1>6. l = "query" => Stage = "steady"
  BY <1>5, Where, MemberWhere DEF Computing, Redistribution
<1>7. /\ l = "dup" => Stage = "dup"
      /\ l = "lookup" => Stage = "moving"
      /\ l = "disconnect" => Stage = "leaving"
  BY <1>5, Where
<1> QED
  BY <1>3, <1>4, <1>5, <1>6, <1>7

\* Between two stages that are not settling, only members move.
Together ==
  /\ Kept /\ Newest > 0 /\ Stage # "settling" /\ Stage' # "settling"
  /\ UNCHANGED <<psets, dict, ack, req, log, asked, idx, block, gathered>>
  /\ \A q \in Procs : ~ IsMember(q) => SameAt(q)

\* All members move to a place of theirs: all are where they may be.
LEMMA TogetherPlace ==
  ASSUME IInv, Together,
         \A q \in Members(Newest) : MemberAt(q)' /\ main'[q] >= Newest
  PROVE  PlaceInv'
<1>1. /\ Newest' = Newest /\ Epochs' = Epochs /\ Newest \in Nat /\ Len(psets) \in Nat
      /\ Len(psets') = Len(psets) /\ Newest \in Epochs /\ Newest > 0
      /\ \A e \in Epochs : Members(e)' = Members(e) /\ Added(e)' = Added(e)
      /\ Newest <= Len(psets)
  BY KeptSets, Types, Stages DEF Together, Kept
<1>2. ASSUME NEW q \in Procs
      PROVE  PlaceOf(q)'
  <2>1. PlaceOf(q)
    BY DEF IInv, PlaceInv
  <2>2. /\ IsMember(q)' <=> IsMember(q)
        /\ ~ IsDeparting(q) /\ ~ IsDeparting(q)' /\ ~ IsLaunched(q) /\ ~ IsLaunched(q)'
    BY <1>1 DEF Together, IsMember, IsDeparting, IsLaunched
  <2>3. IsSpawned(q)' <=> IsSpawned(q)
    <3>1. Len(psets) = Newest + 1 => Newest + 1 \in Epochs
      BY Stages
    <3> QED
      BY <1>1, <3>1 DEF IsSpawned
  <2>4. \A e \in 1 .. Newest : e \in Epochs /\ e <= Newest /\ e \in Nat
    BY <1>1 DEF Epochs
  <2>5. CASE IsMember(q)
    <3>1. ~ IsSpawned(q) /\ q \in Members(Newest)
      BY <2>5, Apart DEF IsMember
    <3>2. main'[q] >= Newest /\ main'[q] \in Nat /\ MemberAt(q)'
      <4>1. main'[q] \in Nat
        BY <1>1, <3>1, Stages DEF MemberAt, IInv, StageInv
      <4> QED
        BY <3>1, <4>1
    <3>3. \A e \in 1 .. Newest : main'[q] >= e
      BY <1>1, <2>4, <3>2
    <3> QED
      BY <1>1, <2>2, <2>3, <2>5, <3>1, <3>2, <3>3 DEF PlaceOf
  <2>6. CASE ~ IsMember(q)
    <3>1. SameAt(q) /\ dict' = dict
      BY <2>6 DEF Together
    <3>2. IsSpawned(q) => SpawnedAt(q)'
      BY <1>1, <2>1, <3>1 DEF PlaceOf, SpawnedAt, SameAt
    <3>3. Gone(q) => Gone(q)'
      <4>1. Gone(q) => main[q] \in Epochs
        BY <1>1 DEF Gone, Epochs
      <4> QED
        BY <1>1, <3>1, <4>1 DEF Gone, SameAt
    <3>4. Unborn(q) => Unborn(q)'
      BY <1>1, <3>1 DEF Unborn, SameAt
    <3>5. \A e \in 1 .. Newest : q \in Members(e)' => main'[q] >= e
      BY <1>1, <2>1, <2>4, <3>1 DEF PlaceOf, SameAt
    <3> QED
      BY <1>1, <2>1, <2>2, <2>3, <2>6, <3>2, <3>3, <3>4, <3>5 DEF PlaceOf
  <2> QED
    BY <2>5, <2>6
<1> QED
  BY <1>2 DEF PlaceInv

\* They leave the sets, the names and the finalized operations alone.
LEMMA TogetherRuntime ==
  ASSUME IInv, Together, Published' <=> Published, Canceled' <=> Canceled
  PROVE  SetsInv' /\ DictInv' /\ FinInv'
<1>1. Kept /\ dict' = dict /\ psets' = psets /\ Newest' = Newest /\ SetsInv'
  BY KeptSets DEF Together
<1>2. DictInv'
  BY <1>1, SameNames
<1>3. FinInv'
  BY <1>1 DEF IInv, FinInv, Together
<1> QED
  BY <1>1, <1>2, <1>3

\* They hold what they held.
LEMMA TogetherData ==
  ASSUME IInv, Together, \A q \in Members(Newest) : Holds(q, Newest),
         Computing' => \A q \in Members(Newest) : pc'[q] \notin {"itcast", "gatherE", "gatherS"}
  PROVE  DataInv'
<1>1. /\ Newest' = Newest /\ Newest \in Epochs /\ Members(Newest)' = Members(Newest)
      /\ block' = block /\ gathered' = gathered /\ Stage' # "settling" /\ Kept
  BY KeptSets, Stages DEF Together
<1>2. ASSUME NEW q \in Members(Newest)
      PROVE  BlockOf(q)'
  <2>1. Holds(q, Newest)'
    BY <1>1, KeptSets DEF Holds
  <2> QED
    BY <1>1, <2>1 DEF BlockOf
<1> QED
  BY <1>1, <1>2 DEF IInv, DataInv, IsDeparting

\* The types of a step that moves many processes.
LEMMA TogetherTypes ==
  ASSUME IInv, Kept, dict' = dict, ack' \subseteq Epochs, req' \in BOOLEAN, asked' = asked,
         pc' \in [Procs -> Locations], comm' \in [Procs -> 0 .. Newest],
         old' \in [Procs -> 0 .. Newest], new' \in [Procs -> 0 .. Newest],
         main' \in [Procs -> 0 .. Len(psets)], primary' \in [Procs -> BOOLEAN],
         it' \in [Procs -> 0 .. Steps + 1], idx' \in [Procs -> Nat],
         block' = block, gathered' \in [Procs -> Seq(0 .. Size)]
  PROVE  TypeOK'
<1>1. TypeOK /\ Epochs' = Epochs /\ Len(psets') = Len(psets) /\ Len(log') = Len(log)
      /\ psets' \in Seq(Pset) /\ Newest = Len(log)
  BY KeptSets DEF Kept, IInv, Newest
<1> QED
  BY <1>1 DEF TypeOK, Pset

\* All ask for the operation and find it or not (dmr.h:131).
LEMMA QueryKeeps ==
  ASSUME IInv, NEW e \in Epochs, Query(e)
  PROVE  IInv'
<1>1. /\ e = Newest /\ Newest > 0 /\ Newest \in Nat /\ Newest \in Epochs
      /\ Members(Newest) \subseteq Procs /\ Lead \in Members(Newest) /\ Lead \in Procs
      /\ \A p \in Members(Newest) : IsMember(p) /\ MemberAt(p) /\ pc[p] = "query"
      /\ Stage = "steady"
  BY Calls DEF Query
<1>2. /\ Due = it[Lead] /\ Due < Steps /\ Computing
      /\ \A p \in Members(Newest) : it[p] = Due /\ Holds(p, Newest)
  BY <1>1, Types DEF IInv, ItInv, ItOf, Due, Computing, DataInv, BlockOf
<1> DEFINE found == Len(psets) > Newest
           l == IF found THEN "dup" ELSE "step"
           i == IF found THEN Due ELSE Due + 1
<1>3. /\ pc' = [p \in Procs |-> IF p \in Members(Newest) THEN l ELSE pc[p]]
      /\ it' = [p \in Procs |-> IF p \in Members(Newest) THEN i ELSE it[p]]
      /\ UNCHANGED <<psets, dict, ack, req, log, comm, old, new, main, primary, asked, idx,
                     block, gathered>>
  <2>1. UNCHANGED <<psets, dict, ack, req, log, comm, old, new, main, primary, asked, idx,
                    block, gathered>>
    BY DEF Query, runtimeVars, commVars, dataVars
  <2>2. CASE found
    <3>1. /\ Move(Members(Newest), [p \in Procs |-> "dup"]) /\ it' = it
      BY <1>1, <2>2 DEF Query
    <3>2. it = [p \in Procs |-> IF p \in Members(Newest) THEN i ELSE it[p]]
      BY <1>1, <1>2, <2>2, Types
    <3>3. pc' = [p \in Procs |-> IF p \in Members(Newest) THEN l ELSE pc[p]]
      BY <2>2, <3>1 DEF Move
    <3> QED
      BY <2>1, <3>1, <3>2, <3>3
  <2>3. CASE ~ found
    <3>1. /\ Move(Members(Newest), [p \in Procs |-> "step"])
          /\ it' = [p \in Procs |-> IF p \in Members(Newest) THEN it[p] + 1 ELSE it[p]]
      BY <1>1, <2>3 DEF Query
    <3>2. it' = [p \in Procs |-> IF p \in Members(Newest) THEN i ELSE it[p]]
      BY <1>1, <1>2, <2>3, <3>1
    <3>3. pc' = [p \in Procs |-> IF p \in Members(Newest) THEN l ELSE pc[p]]
      BY <2>3, <3>1 DEF Move
    <3> QED
      BY <2>1, <3>2, <3>3
  <2> QED
    BY <2>2, <2>3
<1>4. l \in {"dup", "step"} /\ (l = "dup" <=> found) /\ i \in 0 .. Steps + 1 /\ i <= Steps
      /\ (l = "dup" => i < Steps) /\ i \in Nat
  BY SMTT(30), <1>1, <1>2, Types
<1>5. found <=> Len(psets) = Newest + 1
  BY <1>1, Types
<1> HIDE DEF found, l, i
<1>6. Kept
  BY <1>3, SameSets
<1>7. /\ \A p \in Members(Newest) : pc'[p] = l /\ it'[p] = i
      /\ \A q \in Procs : ~ IsMember(q) => SameAt(q)
      /\ Newest' = Newest /\ Lead' = Lead /\ Len(psets') = Len(psets)
      /\ Members(Newest)' = Members(Newest)
  BY <1>1, <1>3, <1>6, KeptSets DEF SameAt, IsMember, Kept
<1>8. old[Lead] = 0
  BY <1>1 DEF MemberAt
<1>9. /\ Stage' = IF l = "dup" THEN "dup" ELSE "steady"
      /\ Computing' <=> l = "step"
  BY <1>1, <1>3, <1>4, <1>7, <1>8 DEF Stage, Computing
<1>10. Together
  BY <1>1, <1>3, <1>6, <1>7, <1>9 DEF Together
<1>11. SetsInv' /\ DictInv' /\ FinInv'
  <2>1. ~ Published /\ ~ Published' /\ ~ Canceled /\ ~ Canceled'
    BY <1>1, <1>4, <1>7, <1>9 DEF Published, Canceled
  <2> QED
    BY <1>10, <2>1, TogetherRuntime
<1>12. PlaceInv'
  <2>1. ASSUME NEW p \in Members(Newest)
        PROVE  MemberAt(p)' /\ main'[p] >= Newest
    <3>1. pc'[p] \in Places(p)'
      BY <1>4, <1>7, <1>9 DEF Places
    <3>2. main[p] = Newest /\ comm[p] = Newest /\ old[p] = 0
          /\ (primary[p] <=> p = Root(main[p]))
      BY <1>1 DEF MemberAt
    <3>3. Root(main[p])' = Root(main[p])
      BY <1>1, <1>3, <1>6, <3>2, KeptSets
    <3> QED
      BY <1>1, <1>3, <1>4, <1>7, <1>9, <3>1, <3>2, <3>3 DEF MemberAt
  <2> QED
    BY <1>10, <2>1, TogetherPlace
<1>13. TypeOK'
  <2>1. /\ TypeOK /\ Newest = Len(log)
    BY DEF IInv, Newest
  <2>2. pc' \in [Procs -> Locations] /\ it' \in [Procs -> 0 .. Steps + 1]
    BY <1>3, <1>4, <2>1 DEF TypeOK, Locations
  <2> QED
    BY <1>3, <1>6, <2>1, <2>2, TogetherTypes DEF TypeOK
<1>14. StageInv'
  BY <1>1, <1>3, <1>4, <1>5, <1>7, <1>9 DEF IInv, StageInv
<1>15. ItInv'
  <2>1. Computing' => Due' = i
    BY <1>1, <1>4, <1>7, <1>9 DEF Due
  <2>2. ASSUME NEW p \in Members(Newest)
        PROVE  ItOf(p)'
    BY <1>4, <1>7, <1>9, <2>1 DEF ItOf, Redistribution
  <2> QED
    BY <1>1, <1>4, <1>7, <2>1, <2>2 DEF ItInv
<1>16. LogInv'
  <2>1. \A p \in Members(Newest) : Taken(p) = 2 /\ (Computing' => Taken(p)' = 2)
    BY <1>1, <1>7, <1>9 DEF Taken
  <2>2. Intact(Newest)' <=> Intact(Newest)
    BY <1>1, <1>6, KeptSets
  <2> QED
    BY <1>1, <1>2, <1>3, <1>7, <2>1, <2>2 DEF IInv, LogInv
<1>17. DataInv'
  BY <1>2, <1>4, <1>7, <1>10, TogetherData
<1> QED
  BY <1>11, <1>12, <1>13, <1>14, <1>15, <1>16, <1>17 DEF IInv

\* All duplicate the communicator (dmr.h:136).
LEMMA DupKeeps ==
  ASSUME IInv, NEW e \in Epochs, Dup(e)
  PROVE  IInv'
<1>1. /\ e = Newest /\ Newest > 0 /\ Newest \in Nat /\ Newest \in Epochs
      /\ Members(Newest) \subseteq Procs /\ Lead \in Members(Newest) /\ Lead \in Procs
      /\ \A p \in Members(Newest) : IsMember(p) /\ MemberAt(p) /\ pc[p] = "dup"
      /\ Stage = "dup" /\ Len(psets) = Newest + 1 /\ ~ Computing
  BY Calls DEF Dup, IInv, StageInv, Computing
<1>2. \A p \in Members(Newest) : /\ comm[p] = Newest /\ main[p] = Newest
                                 /\ primary[p] <=> p = Lead
  BY <1>1 DEF MemberAt, Lead
<1>3. /\ pc' = [p \in Procs |-> IF p \in Members(Newest)
                                THEN IF p = Lead THEN "publish" ELSE "lookup" ELSE pc[p]]
      /\ old' = [p \in Procs |-> IF p \in Members(Newest) THEN Newest ELSE old[p]]
      /\ new' = [p \in Procs |-> IF p \in Members(Newest) THEN 0 ELSE new[p]]
      /\ UNCHANGED <<psets, dict, ack, req, log, comm, main, primary, asked, it, idx,
                     block, gathered>>
  BY <1>1, <1>2 DEF Dup, Move, runtimeVars, dataVars
<1>4. Kept
  BY <1>3, SameSets
<1>5. /\ \A p \in Members(Newest) : /\ pc'[p] = IF p = Lead THEN "publish" ELSE "lookup"
                                    /\ old'[p] = Newest
      /\ \A q \in Procs : ~ IsMember(q) => SameAt(q)
      /\ Newest' = Newest /\ Lead' = Lead /\ Len(psets') = Len(psets)
      /\ Members(Newest)' = Members(Newest)
  BY <1>1, <1>3, <1>4, KeptSets DEF SameAt, IsMember, Kept
<1>6. Stage' = "moving" /\ ~ Computing'
  BY <1>1, <1>5 DEF Stage, Computing
<1>7. Together
  BY <1>1, <1>3, <1>4, <1>5, <1>6 DEF Together
<1>8. SetsInv' /\ DictInv' /\ FinInv'
  <2>1. ~ Published /\ ~ Published' /\ ~ Canceled /\ ~ Canceled'
    BY <1>1, <1>5, <1>6 DEF Published, Canceled
  <2> QED
    BY <1>7, <2>1, TogetherRuntime
<1>9. PlaceInv'
  <2>1. ASSUME NEW p \in Members(Newest)
        PROVE  MemberAt(p)' /\ main'[p] >= Newest
    <3>1. pc'[p] \in Places(p)'
      BY <1>5, <1>6 DEF Places
    <3>2. Root(Newest)' = Root(Newest)
      BY <1>1, <1>4, KeptSets
    <3> QED
      BY <1>1, <1>2, <1>3, <1>5, <1>6, <3>1, <3>2 DEF MemberAt, Lead
  <2> QED
    BY <1>7, <2>1, TogetherPlace
<1>10. TypeOK'
  <2>1. /\ TypeOK /\ Newest = Len(log) /\ Newest \in 0 .. Newest /\ 0 \in 0 .. Newest
    BY <1>1 DEF IInv, Newest
  <2>2. /\ pc' \in [Procs -> Locations] /\ old' \in [Procs -> 0 .. Newest]
        /\ new' \in [Procs -> 0 .. Newest]
    BY <1>3, <2>1 DEF TypeOK, Locations
  <2> QED
    BY <1>3, <1>4, <2>1, <2>2, TogetherTypes DEF TypeOK
<1>11. StageInv'
  BY <1>1, <1>3, <1>5, <1>6 DEF IInv, StageInv
<1>12. ItInv'
  BY <1>1, <1>3, <1>5, <1>6 DEF IInv, ItInv, ItOf
<1>13. LogInv'
  BY <1>3, <1>6 DEF IInv, LogInv
<1>14. DataInv'
  <2>1. \A p \in Members(Newest) : Holds(p, Newest)
    BY <1>1 DEF IInv, DataInv, BlockOf
  <2> QED
    BY <1>6, <1>7, <2>1, TogetherData
<1> QED
  BY <1>8, <1>9, <1>10, <1>11, <1>12, <1>13, <1>14 DEF IInv

\* All find the name of the next set, and that name only (dmr.h:149).
LEMMA LookupKeeps ==
  ASSUME IInv, NEW e \in Epochs, Lookup(e)
  PROVE  IInv'
<1>1. /\ e = Newest /\ Newest > 0 /\ Newest \in Nat /\ Newest \in Epochs
      /\ Members(Newest) \subseteq Procs /\ Lead \in Members(Newest) /\ Lead \in Procs
      /\ \A p \in Members(Newest) : IsMember(p) /\ MemberAt(p) /\ pc[p] = "lookup"
      /\ Stage = "moving" /\ Len(psets) = Newest + 1 /\ ~ Computing /\ Published
      /\ Newest + 1 \in Epochs
  BY Calls, Stages DEF Lookup, IInv, StageInv, Computing, Published
<1>2. /\ dict[DeltaAdd(Newest + 1)] = Newest + 1
      /\ \A p \in Members(Newest) : comm[p] = Newest /\ old[p] = Newest
  BY <1>1 DEF MemberAt, IInv, DictInv
<1>3. /\ pc' = [p \in Procs |-> IF p \in Members(Newest) THEN "disconnect" ELSE pc[p]]
      /\ main' = [p \in Procs |-> IF p \in Members(Newest) THEN Newest + 1 ELSE main[p]]
      /\ primary' = [p \in Procs |-> IF p \in Members(Newest) THEN p = Root(Newest + 1)
                                     ELSE primary[p]]
      /\ UNCHANGED <<psets, dict, ack, req, log, comm, old, new, asked, it, idx,
                     block, gathered>>
  BY <1>1, <1>2 DEF Lookup, Move, runtimeVars, commVars, dataVars
<1>4. Kept
  BY <1>3, SameSets
<1>5. /\ \A p \in Members(Newest) : /\ pc'[p] = "disconnect" /\ main'[p] = Newest + 1
                                    /\ primary'[p] <=> p = Root(Newest + 1)
      /\ \A q \in Procs : ~ IsMember(q) => SameAt(q)
      /\ Newest' = Newest /\ Lead' = Lead /\ Len(psets') = Len(psets)
      /\ Members(Newest)' = Members(Newest)
  BY <1>1, <1>3, <1>4, KeptSets DEF SameAt, IsMember, Kept
<1>6. Stage' = "leaving" /\ ~ Computing'
  BY <1>1, <1>2, <1>3, <1>5 DEF Stage, Computing
<1>7. Together
  BY <1>1, <1>3, <1>4, <1>5, <1>6 DEF Together
<1>8. SetsInv' /\ DictInv' /\ FinInv'
  <2>1. Published' /\ ~ Canceled /\ ~ Canceled'
    BY <1>1, <1>5, <1>6 DEF Published, Canceled
  <2> QED
    BY <1>1, <1>7, <2>1, TogetherRuntime
<1>9. PlaceInv'
  <2>1. ASSUME NEW p \in Members(Newest)
        PROVE  MemberAt(p)' /\ main'[p] >= Newest
    <3>1. pc'[p] \in Places(p)'
      BY <1>5, <1>6 DEF Places
    <3>2. Root(main[p])' = Root(Newest + 1)
      BY <1>3, <1>5 DEF Root
    <3>3. (primary[p] <=> p = Root(main[p]))'
      BY <1>5, <3>2
    <3> QED
      BY <1>1, <1>2, <1>3, <1>5, <1>6, <3>1, <3>3 DEF MemberAt
  <2> QED
    BY <1>7, <2>1, TogetherPlace
<1>10. TypeOK'
  <2>1. /\ TypeOK /\ Newest = Len(log) /\ Newest + 1 \in 0 .. Len(psets)
    BY <1>1 DEF IInv, Newest
  <2>2. pc' \in [Procs -> Locations] /\ main' \in [Procs -> 0 .. Len(psets)]
    BY <1>3, <2>1 DEF TypeOK, Locations
  <2>3. primary' \in [Procs -> BOOLEAN]
    BY <1>3, <2>1 DEF TypeOK
  <2> QED
    BY <1>3, <1>4, <2>1, <2>2, <2>3, TogetherTypes DEF TypeOK
<1>11. StageInv'
  BY <1>1, <1>3, <1>5, <1>6 DEF IInv, StageInv
<1>12. ItInv'
  BY <1>1, <1>3, <1>5, <1>6 DEF IInv, ItInv, ItOf
<1>13. LogInv'
  BY <1>3, <1>6 DEF IInv, LogInv
<1>14. DataInv'
  <2>1. \A p \in Members(Newest) : Holds(p, Newest)
    BY <1>1 DEF IInv, DataInv, BlockOf
  <2> QED
    BY <1>6, <1>7, <2>1, TogetherData
<1> QED
  BY <1>8, <1>9, <1>10, <1>11, <1>12, <1>13, <1>14 DEF IInv

\* All leave the communicator (dmr.h:161).
LEMMA DisconnectKeeps ==
  ASSUME IInv, NEW e \in Epochs, Disconnect(e)
  PROVE  IInv'
<1>1. /\ e = Newest /\ Newest > 0 /\ Newest \in Nat /\ Newest \in Epochs
      /\ Members(Newest) \subseteq Procs /\ Lead \in Members(Newest) /\ Lead \in Procs
      /\ \A p \in Members(Newest) : IsMember(p) /\ MemberAt(p) /\ pc[p] = "disconnect"
      /\ Stage = "leaving" /\ Len(psets) = Newest + 1 /\ ~ Computing /\ Published
      /\ Newest + 1 \in Epochs
  BY Calls, Stages DEF Disconnect, IInv, StageInv, Computing, Published
<1>2. \A p \in Members(Newest) : /\ main[p] = Newest + 1 /\ old[p] = Newest
                                 /\ primary[p] <=> p = Root(Newest + 1)
  BY <1>1 DEF MemberAt
<1>3. \A p \in Members(Newest) : /\ Included(p) <=> p \in Members(Newest + 1)
                                 /\ ~ Included(p) => AfterSwitch(p) = "gatherS"
  <2>1. ASSUME NEW p \in Members(Newest), p \notin Members(Newest + 1)
        PROVE  psets[Newest + 1].removed # {} /\ Added(Newest + 1) = {}
    <3>1. /\ psets[Newest + 1].removed = Members((Newest + 1) - 1) \ Members(Newest + 1)
          /\ Added(Newest + 1) = {} <=> psets[Newest + 1].removed # {}
      BY <1>1 DEF IInv, SetsInv, IsMainSet
    <3>2. (Newest + 1) - 1 = Newest
      BY <1>1
    <3> QED
      BY <2>1, <3>1, <3>2
  <2> QED
    BY <1>2, <2>1 DEF Included, AfterSwitch, Added
<1>4. /\ pc' = [p \in Procs |-> IF p \in Members(Newest)
                                THEN IF p \in Members(Newest + 1) THEN "recreate" ELSE "gatherS"
                                ELSE pc[p]]
      /\ comm' = [p \in Procs |-> IF p \in Members(Newest) THEN 0 ELSE comm[p]]
      /\ UNCHANGED <<psets, dict, ack, req, log, old, new, main, primary, asked, it, idx,
                     block, gathered>>
  BY <1>1, <1>3 DEF Disconnect, Move, runtimeVars, dataVars
<1>5. Kept
  BY <1>4, SameSets
<1>6. /\ \A p \in Members(Newest) :
           /\ pc'[p] = IF p \in Members(Newest + 1) THEN "recreate" ELSE "gatherS"
           /\ comm'[p] = 0
      /\ \A q \in Procs : ~ IsMember(q) => SameAt(q)
      /\ Newest' = Newest /\ Lead' = Lead /\ Len(psets') = Len(psets)
      /\ Members(Newest)' = Members(Newest) /\ Members(Newest + 1)' = Members(Newest + 1)
      /\ Root(Newest + 1)' = Root(Newest + 1)
  BY <1>1, <1>4, <1>5, KeptSets DEF SameAt, IsMember, Kept
<1>7. Stage' = "between" /\ ~ Computing'
  BY <1>1, <1>2, <1>4, <1>6 DEF Stage, Computing
<1>8. Together
  BY <1>1, <1>4, <1>5, <1>6, <1>7 DEF Together
<1>9. SetsInv' /\ DictInv' /\ FinInv'
  <2>1. Published' /\ ~ Canceled /\ ~ Canceled'
    BY <1>1, <1>6, <1>7 DEF Published, Canceled
  <2> QED
    BY <1>1, <1>8, <2>1, TogetherRuntime
<1>10. PlaceInv'
  <2>1. ASSUME NEW p \in Members(Newest)
        PROVE  MemberAt(p)' /\ main'[p] >= Newest
    <3>1. pc'[p] \in Places(p)'
      BY <1>6, <1>7 DEF Places
    <3>2. Root(main[p])' = Root(Newest + 1)
      BY <1>2, <1>4 DEF Root
    <3>3. (primary[p] <=> p = Root(main[p]))'
      BY <1>2, <1>4, <3>2
    <3> QED
      BY <1>1, <1>2, <1>4, <1>6, <1>7, <3>1, <3>3 DEF MemberAt
  <2> QED
    BY <1>8, <2>1, TogetherPlace
<1>11. TypeOK'
  <2>1. /\ TypeOK /\ Newest = Len(log) /\ 0 \in 0 .. Newest
    BY <1>1 DEF IInv, Newest
  <2>2. pc' \in [Procs -> Locations] /\ comm' \in [Procs -> 0 .. Newest]
    BY <1>4, <2>1 DEF TypeOK, Locations
  <2> QED
    BY <1>4, <1>5, <2>1, <2>2, TogetherTypes DEF TypeOK
<1>12. StageInv'
  BY <1>1, <1>4, <1>6, <1>7 DEF IInv, StageInv
<1>13. ItInv'
  BY <1>1, <1>4, <1>6, <1>7 DEF IInv, ItInv, ItOf
<1>14. LogInv'
  BY <1>4, <1>7 DEF IInv, LogInv
<1>15. DataInv'
  <2>1. \A p \in Members(Newest) : Holds(p, Newest)
    BY <1>1 DEF IInv, DataInv, BlockOf
  <2> QED
    BY <1>7, <1>8, <2>1, TogetherData
<1> QED
  BY <1>9, <1>10, <1>11, <1>12, <1>13, <1>14, <1>15 DEF IInv

\* The processes of the main set end together.
LEMMA FinishMembers ==
  ASSUME IInv, NEW e \in Epochs, AllAt(Members(e), "barrier"), \A p \in Members(e) : main[p] = e,
         Move(Members(e), [p \in Procs |-> "exit"]),
         comm' = [p \in Procs |-> IF p \in Members(e) THEN 0 ELSE comm[p]],
         UNCHANGED <<runtimeVars, log, old, new, main, primary, asked, it, idx, dataVars>>
  PROVE  IInv'
<1>1. /\ Members(e) \subseteq Procs /\ Root(e) \in Members(e)
      /\ \A p \in Members(e) : pc[p] = "barrier" /\ main[p] = e
  BY Ranks, Types DEF AllAt, IInv
<1>2. /\ e = Newest /\ Newest > 0 /\ Newest \in Nat /\ Newest \in Epochs
      /\ Lead \in Members(Newest) /\ Lead \in Procs /\ Stayed(Lead) /\ Computing
      /\ \A p \in Members(Newest) : IsMember(p) /\ MemberAt(p)
  <2>1. IsMember(Root(e)) /\ Computing /\ Newest > 0
    BY <1>1, Where DEF Gone, Computing
  <2>2. e = Newest
    BY <1>1, <2>1, MemberWhere DEF MemberAt, Computing
  <2> QED
    BY <1>1, <2>1, <2>2, Types, Stages, MemberWhere DEF IsMember
<1>3. /\ Stage = "steady" /\ ~ req /\ ~ Published
      /\ \A p \in Members(Newest) : /\ old[p] = 0 /\ Holds(p, Newest)
                                    /\ primary[p] <=> p = Root(Newest)
  <2>1. Stage = "steady"
    BY <1>1, <1>2, MemberWhere DEF Computing, Redistribution
  <2>2. ~ req
    BY <1>1, <1>2 DEF IInv, StageInv
  <2> QED
    BY <1>1, <1>2, <2>1, <2>2 DEF MemberAt, IInv, DataInv, BlockOf, Published
<1>4. /\ pc' = [p \in Procs |-> IF p \in Members(Newest) THEN "exit" ELSE pc[p]]
      /\ comm' = [p \in Procs |-> IF p \in Members(Newest) THEN 0 ELSE comm[p]]
      /\ UNCHANGED <<psets, dict, ack, req, log, old, new, main, primary, asked, it, idx,
                     block, gathered>>
  BY <1>2 DEF Move, runtimeVars, dataVars
<1>5. Kept
  BY <1>4, SameSets
<1>6. /\ \A p \in Members(Newest) : pc'[p] = "exit" /\ comm'[p] = 0
      /\ \A q \in Procs : ~ IsMember(q) => SameAt(q)
      /\ Newest' = Newest /\ Lead' = Lead /\ Len(psets') = Len(psets)
      /\ Members(Newest)' = Members(Newest)
  BY <1>1, <1>2, <1>4, <1>5, KeptSets DEF SameAt, IsMember, Kept
<1>7. Stage' = "over" /\ ~ Computing'
  BY <1>1, <1>2, <1>3, <1>4, <1>6 DEF Stage, Computing
<1>8. Together
  BY <1>2, <1>3, <1>4, <1>5, <1>6, <1>7 DEF Together
<1>9. SetsInv' /\ DictInv' /\ FinInv'
  <2>1. ~ Published' /\ (Canceled' <=> Canceled)
    BY <1>1, <1>2, <1>3, <1>6, <1>7 DEF Published, Canceled
  <2> QED
    BY <1>3, <1>8, <2>1, TogetherRuntime
<1>10. PlaceInv'
  <2>1. ASSUME NEW p \in Members(Newest)
        PROVE  MemberAt(p)' /\ main'[p] >= Newest
    <3>1. pc'[p] \in Places(p)'
      BY <1>6, <1>7 DEF Places
    <3>2. Root(main[p])' = Root(Newest)
      BY <1>1, <1>2, <1>4 DEF Root
    <3>3. (primary[p] <=> p = Root(main[p]))'
      BY <1>3, <1>4, <3>2
    <3> QED
      BY <1>1, <1>2, <1>3, <1>4, <1>6, <1>7, <3>1, <3>3 DEF MemberAt
  <2> QED
    BY <1>8, <2>1, TogetherPlace
<1>11. TypeOK'
  <2>1. /\ TypeOK /\ Newest = Len(log) /\ 0 \in 0 .. Newest
    BY <1>2 DEF IInv, Newest
  <2>2. pc' \in [Procs -> Locations] /\ comm' \in [Procs -> 0 .. Newest]
    BY <1>4, <2>1 DEF TypeOK, Locations
  <2> QED
    BY <1>4, <1>5, <2>1, <2>2, TogetherTypes DEF TypeOK
<1>12. StageInv'
  BY <1>2, <1>3, <1>4, <1>6, <1>7 DEF IInv, StageInv
<1>13. ItInv'
  BY <1>2, <1>4, <1>6, <1>7 DEF IInv, ItInv, ItOf
<1>14. LogInv'
  BY <1>4, <1>7 DEF IInv, LogInv
<1>15. DataInv'
  BY <1>3, <1>7, <1>8, TogetherData
<1> QED
  BY <1>9, <1>10, <1>11, <1>12, <1>13, <1>14, <1>15 DEF IInv

\* Only processes that are on no communicator move.
LEMMA AsideKeeps ==
  ASSUME IInv, TypeOK', Newest > 0,
         UNCHANGED <<psets, dict, req, log, old, asked, it, idx, block, gathered>>,
         \A q \in Procs : IsMember(q) \/ IsDeparting(q) => SameAt(q),
         \A q \in Procs : SameAt(q) \/ PlaceOf(q)'
  PROVE  IInv'
<1>1. Kept
  BY SameSets
<1>2. /\ Newest' = Newest /\ Lead' = Lead /\ Len(psets') = Len(psets) /\ Newest \in Nat
      /\ Members(Newest)' = Members(Newest) /\ Members(Newest) \subseteq Procs
      /\ Intact(Newest)' <=> Intact(Newest)
      /\ SameAt(Lead)
      /\ \A q \in Members(Newest) : q \in Procs /\ IsMember(q) /\ SameAt(q)
  <2>1. \A q \in Members(Newest) : q \in Procs /\ IsMember(q)
    BY Stages, Types DEF IsMember
  <2> QED
    BY <1>1, <2>1, KeptSets, Stages, Types DEF Kept
<1>3. pc'[Lead] = pc[Lead] /\ it'[Lead] = it[Lead]
  BY <1>2 DEF SameAt
<1>4. Stage' = Stage
  BY <1>1, <1>3, SameStage
<1>5. /\ Due' = Due
      /\ Published' <=> Published
      /\ Canceled' <=> Canceled
      /\ Computing' <=> Computing
  BY <1>2, <1>3, <1>4 DEF Due, Published, Canceled, Computing
<1>6. StageInv' /\ DictInv' /\ FinInv'
  BY <1>1, <1>3, <1>4, <1>5, SameRuntime
<1>7. PlaceInv'
  BY <1>1, <1>4, SamePlace DEF PlaceInv
<1>8. ItInv'
  BY <1>1, <1>2, <1>4, <1>5, SameIt DEF IInv, ItInv
<1>9. LogInv'
  <2>1. \A q \in Members(Newest) : Taken(q)' = Taken(q)
    BY <1>2 DEF SameAt, Taken
  <2> QED
    BY <1>2, <1>5, <2>1 DEF IInv, LogInv
<1>10. DataInv'
  <2>1. \A q \in Members(Newest) : BlockOf(q)'
    BY <1>1, <1>2, <1>4, SameBlock
  <2>2. ASSUME NEW q \in Procs, IsDeparting(q)', pc'[q] = "gatherS"
        PROVE  Holds(q, Newest - 1)'
    <3>1. IsDeparting(q) /\ Newest - 1 \in Epochs
      BY <1>1, <1>4, <2>2, SameClass, Stages DEF IsDeparting
    <3>2. Holds(q, Newest - 1)
      BY <2>2, <3>1 DEF IInv, DataInv, SameAt
    <3> QED
      BY <1>1, <1>2, <3>1, <3>2, KeptSets DEF Holds
  <2>3. gathered' \in [Procs -> Array \cup {<<>>}]
    BY Types
  <2>4. Stage = "settling" /\ pc[Lead] \in {"scatterE", "scatterS"} /\ Intact(Newest)
          => gathered[Lead] = Whole
    BY DEF IInv, DataInv
  <2> QED
    BY <1>2, <1>3, <1>4, <2>1, <2>2, <2>3, <2>4 DEF DataInv
<1> QED
  BY <1>1, <1>6, <1>7, <1>8, <1>9, <1>10, KeptSets DEF IInv

\* The processes that an operation has removed end together.
LEMMA FinishRemoved ==
  ASSUME IInv, NEW e \in Epochs, NEW ps, ps = psets[e].removed,
         AllAt(ps, "barrier"), \A p \in ps : main[p] = e,
         Move(ps, [p \in Procs |-> "exit"]),
         comm' = [p \in Procs |-> IF p \in ps THEN 0 ELSE comm[p]],
         UNCHANGED <<runtimeVars, log, old, new, main, primary, asked, it, idx, dataVars>>
  PROVE  IInv'
<1>1. \A p \in ps : pc[p] = "barrier" /\ main[p] = e
  BY DEF AllAt
<1>2. ps \subseteq Procs /\ ps \cap Members(e) = {} /\ ps # {}
  <2>1. e \in 1 .. Len(psets) /\ psets[e] \in Pset
    BY Types DEF Epochs
  <2>2. e > 1 => ps = Members(e - 1) \ Members(e)
    BY DEF IInv, SetsInv, IsMainSet
  <2>3. e = 1 => ps = {}
    BY DEF IInv, SetsInv
  <2>4. e = 1 \/ e > 1
    BY <2>1
  <2> QED
    BY <2>1, <2>2, <2>3, <2>4 DEF Pset, AllAt
<1>3. \A p \in ps : Gone(p) /\ ~ IsMember(p)
  <2>1. ASSUME NEW p \in ps, IsMember(p), Computing
        PROVE  FALSE
    <3>1. main[p] = Newest
      BY <1>2, <2>1, MemberWhere DEF MemberAt, Computing
    <3> QED
      BY <1>1, <1>2, <2>1, <3>1 DEF IsMember
  <2> QED
    BY <1>1, <1>2, <2>1, Where
<1>4. /\ pc' = [p \in Procs |-> IF p \in ps THEN "exit" ELSE pc[p]]
      /\ comm' = comm
      /\ UNCHANGED <<psets, dict, ack, req, log, old, new, main, primary, asked, it, idx,
                     block, gathered>>
  <2>1. \A p \in ps : comm[p] = 0
    BY <1>3 DEF Gone
  <2>2. comm' = comm
    BY <2>1, Types
  <2> QED
    BY <1>2, <2>2 DEF Move, runtimeVars, dataVars
<1>5. Kept /\ Newest \in Nat /\ Len(psets) \in Nat /\ Newest <= Len(psets)
  BY <1>4, SameSets, Types
<1>6. Newest > 0
  BY <1>2, <1>3, <1>5 DEF Gone
<1>7. \A q \in Procs : q \notin ps => SameAt(q)
  BY <1>4 DEF SameAt
<1>8. \A q \in Procs : IsMember(q) \/ IsDeparting(q) => q \notin ps
  <2>1. \A q \in ps : PlaceOf(q) /\ pc[q] = "barrier"
    BY <1>1, <1>2 DEF IInv, PlaceInv
  <2> QED
    BY <1>3, <2>1 DEF PlaceOf, DepartingAt
<1>9. TypeOK'
  <2>1. TypeOK /\ Newest = Len(log)
    BY DEF IInv, Newest
  <2>2. pc' \in [Procs -> Locations]
    BY <1>4, <2>1 DEF TypeOK, Locations
  <2> QED
    BY <1>4, <1>5, <2>1, <2>2, TogetherTypes DEF TypeOK
<1>10. ASSUME NEW q \in ps
       PROVE  PlaceOf(q)'
  <2>1. PlaceOf(q) /\ q \in Procs /\ Gone(q) /\ pc'[q] = "exit" /\ pc[q] = "barrier"
    BY <1>1, <1>2, <1>3, <1>4 DEF IInv, PlaceInv
  <2>2. ~ IsMember(q) /\ ~ IsSpawned(q) /\ ~ IsDeparting(q) /\ ~ IsLaunched(q)
    BY <1>3, <1>6, <2>1 DEF PlaceOf, SpawnedAt, DepartingAt, IsLaunched
  <2>3. /\ Newest' = Newest /\ Members(Newest)' = Members(Newest)
        /\ \A d \in Epochs : Members(d)' = Members(d) /\ Added(d)' = Added(d)
        /\ Newest \in Epochs
    BY <1>5, <1>6, KeptSets, Stages
  <2>4. Stage' = Stage
    <3>1. SameAt(Lead)
      BY <1>6, <1>7, <1>8, Stages DEF IsMember
    <3> QED
      BY <1>4, <1>5, <3>1, SameStage DEF SameAt
  <2>5. ~ IsMember(q)' /\ ~ IsSpawned(q)' /\ ~ IsDeparting(q)' /\ ~ IsLaunched(q)'
    BY <1>5, <2>2, <2>4, SameClass
  <2>6. main[q] \in Epochs /\ \A d \in 1 .. Newest : d \in Epochs
    BY <1>5, <2>1 DEF Gone, Epochs
  <2>7. Gone(q)'
    BY <1>4, <2>1, <2>3, <2>6 DEF Gone
  <2> QED
    BY <1>4, <2>1, <2>3, <2>5, <2>6, <2>7 DEF PlaceOf
<1> QED
  BY <1>4, <1>6, <1>7, <1>8, <1>9, <1>10, AsideKeeps

\* All of a set, or those removed together, end (dmr.h:286).
LEMMA FinishKeeps ==
  ASSUME IInv, NEW e \in Epochs, Finish(e)
  PROVE  IInv'
<1>1. PICK ps \in {Members(e), psets[e].removed} :
        /\ AllAt(ps, "barrier") /\ \A p \in ps : main[p] = e
        /\ Move(ps, [p \in Procs |-> "exit"])
        /\ comm' = [p \in Procs |-> IF p \in ps THEN 0 ELSE comm[p]]
        /\ UNCHANGED <<runtimeVars, log, old, new, main, primary, asked, it, idx, dataVars>>
  BY DEF Finish
<1>2. CASE ps = Members(e)
  BY <1>1, <1>2, FinishMembers
<1>3. CASE ps = psets[e].removed
  BY <1>1, <1>3, FinishRemoved
<1> QED
  BY <1>2, <1>3

\* The spawned processes learn the name of their set, or end (dmr.h:43).
LEMMA JoinKeeps ==
  ASSUME IInv, NEW e \in Epochs, Join(e)
  PROVE  IInv'
<1> DEFINE ps == Added(e)
           over == dict[e] = Finalized
<1>1. /\ ps # {} /\ \A p \in ps : pc[p] = "waiting"
      /\ dict[e] # 0
      /\ main' = [p \in Procs |-> IF p \in ps /\ ~ over THEN dict[e] ELSE main[p]]
      /\ primary' = [p \in Procs |-> IF p \in ps /\ ~ over THEN p = Root(dict[e])
                                     ELSE primary[p]]
      /\ ack' = IF over /\ \E p \in ps : primary[p] THEN ack \cup {e} ELSE ack
      /\ pc' = [p \in Procs |-> IF p \in ps THEN IF over THEN "exit" ELSE "init" ELSE pc[p]]
      /\ UNCHANGED <<psets, dict, req, log, comm, old, new, asked, it, idx, block, gathered>>
  BY DEF Join, AllAt, Added, Move, commVars, dataVars
<1>2. /\ ps \subseteq Procs /\ ps \subseteq Members(e)
      /\ \A p \in ps : IsSpawned(p) /\ ~ IsMember(p) /\ ~ IsDeparting(p) /\ PlaceOf(p)
      /\ Newest > 0 /\ Newest \in Nat /\ Len(psets) = Newest + 1 /\ Newest + 1 \in Epochs
      /\ Newest \in Epochs
  <2>1. ps \subseteq Members(e) /\ Members(e) \subseteq Procs
    BY Ranks, Types DEF IInv, SetsInv, IsMainSet
  <2>2. \A p \in ps : IsSpawned(p)
    BY <1>1, <2>1, Where
  <2> QED
    BY <1>1, <2>1, <2>2, Apart, Types, Stages DEF IsSpawned, IInv, PlaceInv
<1>3. e = Newest + 1
  <2>1. PICK p \in ps : p \in Added(Newest + 1)
    BY <1>1, <1>2 DEF IsSpawned
  <2>2. e \in Nat /\ e <= Newest + 1 /\ e > 0
    BY <1>2 DEF Epochs
  <2>3. e \in 1 .. (Newest + 1) - 1 => Added(Newest + 1) \cap Members(e) = {}
    BY <1>2 DEF IInv, SetsInv, IsMainSet
  <2> QED
    BY <1>2, <2>1, <2>2, <2>3
<1>4. ~ over => dict[e] = Newest + 1
  <2>1. Published => dict[Newest + 1] = Newest + 1
    BY <1>1, <1>3 DEF IInv, DictInv, DeltaAdd, Added
  <2>2. ~ Published => dict[Newest + 1] \in {0, Finalized}
    BY <1>2 DEF IInv, DictInv
  <2> QED
    BY <1>1, <1>3, <2>1, <2>2
<1>5. Root(Newest + 1) \notin ps
  BY <1>2, <1>3 DEF IInv, SetsInv, IsMainSet
<1> HIDE DEF ps, over
<1>6. Kept
  BY <1>1, SameSets
<1>7. /\ \A q \in Procs : q \notin ps => SameAt(q)
      /\ \A q \in ps : /\ comm'[q] = comm[q] /\ old'[q] = old[q]
                       /\ pc'[q] = IF over THEN "exit" ELSE "init"
                       /\ over => main'[q] = main[q]
                       /\ ~ over => main'[q] = Newest + 1 /\ (primary'[q] <=> q = Root(Newest + 1))
  BY <1>1, <1>2, <1>4 DEF SameAt
<1>8. Stage' = Stage /\ Newest' = Newest
  <2>1. SameAt(Lead)
    BY <1>2, <1>7, Stages DEF IsMember
  <2> QED
    BY <1>1, <1>6, <2>1, SameStage, KeptSets DEF SameAt
<1>9. ASSUME NEW q \in ps
      PROVE  PlaceOf(q)'
  <2>1. PlaceOf(q) /\ SpawnedAt(q) /\ comm[q] = 0 /\ old[q] = 0 /\ main[q] = 0
    BY <1>1, <1>2 DEF PlaceOf, SpawnedAt
  <2>2. ~ IsMember(q)' /\ ~ IsDeparting(q)' /\ ~ IsLaunched(q)' /\ IsSpawned(q)'
    BY <1>2, <1>6, <1>8, SameClass DEF IsLaunched
  <2>3. SpawnedAt(q)'
    <3>1. CASE over
      BY <1>1, <1>3, <1>7, <1>8, <2>1, <3>1 DEF SpawnedAt, over
    <3>2. CASE ~ over
      <4>1. main'[q] = Newest + 1 /\ pc'[q] = "init" /\ ~ primary'[q]
        BY <1>5, <1>7, <3>2
      <4> QED
        BY <1>1, <1>3, <1>4, <1>7, <1>8, <2>1, <3>2, <4>1 DEF SpawnedAt
    <3> QED
      BY <3>1, <3>2
  <2>4. \A d \in 1 .. Newest : q \notin Members(d)'
    <3>1. \A d \in 1 .. Newest : d \in Epochs /\ d \in 1 .. (Newest + 1) - 1
      BY <1>2 DEF Epochs
    <3>2. \A d \in 1 .. Newest : Added(Newest + 1) \cap Members(d) = {}
      BY <1>2, <3>1 DEF IInv, SetsInv, IsMainSet
    <3>3. q \in Added(Newest + 1)
      BY <1>3 DEF ps
    <3> QED
      BY <1>6, <3>1, <3>2, <3>3, KeptSets
  <2> QED
    BY <1>8, <2>2, <2>3, <2>4 DEF PlaceOf
<1>10. TypeOK'
  <2>1. TypeOK /\ Newest = Len(log)
    BY DEF IInv, Newest
  <2>2. pc' \in [Procs -> Locations]
    BY <1>1, <2>1 DEF TypeOK, Locations
  <2>3. main' \in [Procs -> 0 .. Len(psets)]
    <3>1. ~ over => dict[e] \in 0 .. Len(psets)
      BY <1>2, <1>4
    <3> QED
      BY <1>1, <2>1, <3>1 DEF TypeOK
  <2>4. primary' \in [Procs -> BOOLEAN]
    BY <1>1, <2>1 DEF TypeOK
  <2>5. ack' \subseteq Epochs
    BY <1>1, <2>1 DEF TypeOK
  <2> QED
    BY <1>1, <1>6, <2>1, <2>2, <2>3, <2>4, <2>5, TogetherTypes DEF TypeOK
<1> QED
  BY <1>1, <1>2, <1>7, <1>9, <1>10, AsideKeeps

-----------------------------------------------------------------------------
(* The steps that the processes of the last communicator take together. *)

\* A call on the old communicator is one of all who were on it, in the stage after.
LEMMA OldCalls ==
  ASSUME IInv, NEW e \in Epochs, NEW l \in {"gatherE", "gatherS", "leaveold"},
         AllCall(e, l, old)
  PROVE  /\ e = Newest - 1 /\ Stage = "settling" /\ Newest > 1 /\ Newest \in Nat
         /\ Newest \in Epochs /\ Computing /\ Len(psets) = Newest
         /\ Members(e) \subseteq Procs /\ Members(Newest) \subseteq Procs
         /\ Lead \in Members(e) /\ Lead \in Members(Newest) /\ Lead \in Procs
         /\ \A p \in Members(Newest) : IsMember(p) /\ MemberAt(p) /\ (Stayed(p) <=> p \in Members(e))
         /\ \A p \in Members(e) :
              /\ pc[p] = l /\ old[p] = Newest - 1 /\ main[p] = Newest
              /\ p \notin Members(Newest) => IsDeparting(p) /\ DepartingAt(p)
         /\ \A p \in Procs : IsDeparting(p) <=> p \in Members(e) \ Members(Newest)
<1>1. Root(e) \in Members(e) /\ Members(e) \subseteq Procs
      /\ \A p \in Members(e) : pc[p] = l /\ old[p] = e
  BY Ranks, Types DEF IInv, AllCall, AllAt
<1>2. \A p \in Procs : PlaceOf(p)
  BY DEF IInv, PlaceInv
<1>3. Stage = "settling" /\ e = Newest - 1
  <2>1. CASE IsMember(Root(e)) /\ Stage = "settling" /\ Stayed(Root(e))
    BY <1>1, <2>1, MemberWhere DEF MemberAt
  <2>2. CASE IsDeparting(Root(e))
    BY <1>1, <1>2, <2>2 DEF PlaceOf, DepartingAt, IsDeparting
  <2>3. CASE IsMember(Root(e)) /\ Stage = "between"
    <3>1. e = Newest /\ Newest \in Nat /\ Newest > 0
      BY <1>1, <2>3, MemberWhere, Types DEF MemberAt, IsMember
    <3>2. Newest + 1 \in Epochs
      BY <2>3, Stages DEF IInv, StageInv
    <3> DEFINE r == Root(Newest + 1)
    <3>3. r \in Members(Newest + 1) /\ r \in Procs
      BY <3>2, Ranks, Types DEF IInv
    <3>4. r \in Members(Newest)
      <4>1. /\ r \notin Added(Newest + 1) /\ (Newest + 1) - 1 = Newest
            /\ Members(Newest + 1)
                 = (Members((Newest + 1) - 1) \ psets[Newest + 1].removed) \cup Added(Newest + 1)
        BY <3>1, <3>2 DEF IInv, SetsInv, IsMainSet
      <4> QED
        BY <3>3, <4>1
    <3>5. pc[r] = "recreate"
      BY <2>3, <3>1, <3>3, <3>4, MemberWhere DEF IsMember
    <3> QED
      BY <1>1, <3>1, <3>4, <3>5
  <2> QED
    BY <1>1, <2>1, <2>2, <2>3, Where
<1>4. /\ Newest > 1 /\ Newest \in Nat /\ Newest \in Epochs /\ Computing /\ Len(psets) = Newest
      /\ Members(Newest) \subseteq Procs /\ Lead \in Members(Newest) /\ Lead \in Procs
      /\ Stayed(Lead) /\ e \in 1 .. Newest - 1
  BY SMTT(30), <1>3, Stages, Types DEF Computing
<1>5. /\ Added(Newest) \cap Members(e) = {}
      /\ Members(Newest) = (Members(e) \ psets[Newest].removed) \cup Added(Newest)
  BY <1>3, <1>4 DEF IInv, SetsInv, IsMainSet
<1>6. \A p \in Members(Newest) : IsMember(p) /\ MemberAt(p) /\ (Stayed(p) <=> p \in Members(e))
  BY <1>2, <1>4, <1>5 DEF PlaceOf, IsMember, Stayed
<1>7. \A p \in Procs : IsDeparting(p) <=> p \in Members(e) \ Members(Newest)
  BY <1>3 DEF IsDeparting
<1>8. ASSUME NEW p \in Members(e)
      PROVE  /\ main[p] = Newest
             /\ p \notin Members(Newest) => IsDeparting(p) /\ DepartingAt(p)
  <2>1. CASE p \in Members(Newest)
    BY <1>3, <1>6, <2>1 DEF MemberAt
  <2>2. CASE p \notin Members(Newest)
    BY <1>1, <1>2, <1>7, <2>2 DEF PlaceOf, DepartingAt
  <2> QED
    BY <2>1, <2>2
<1> QED
  BY <1>1, <1>3, <1>4, <1>6, <1>7, <1>8

\* All of the old communicator gather the vector (sleep.c:18).
LEMMA GatherKeeps ==
  ASSUME IInv, NEW e \in Epochs, NEW l \in {"gatherE", "gatherS"}, Gather(e, l)
  PROVE  IInv'
<1>1. /\ e = Newest - 1 /\ Stage = "settling" /\ Newest > 1 /\ Newest \in Nat
      /\ Newest \in Epochs /\ Computing /\ Len(psets) = Newest
      /\ Members(e) \subseteq Procs /\ Members(Newest) \subseteq Procs
      /\ Lead \in Members(e) /\ Lead \in Members(Newest) /\ Lead \in Procs
      /\ \A p \in Members(Newest) : IsMember(p) /\ MemberAt(p) /\ (Stayed(p) <=> p \in Members(e))
      /\ \A p \in Members(e) :
           /\ pc[p] = l /\ old[p] = Newest - 1 /\ main[p] = Newest
           /\ p \notin Members(Newest) => IsDeparting(p) /\ DepartingAt(p)
      /\ \A p \in Procs : IsDeparting(p) <=> p \in Members(e) \ Members(Newest)
  BY OldCalls DEF Gather
<1>2. \A p \in Members(e) : Included(p) <=> p \in Members(Newest)
  BY <1>1 DEF Included
<1>3. /\ l = "gatherE" => Added(Newest) # {}
      /\ l = "gatherS" => Added(Newest) = {}
      /\ l = "gatherE" => \A p \in Members(e) : p \in Members(Newest)
      /\ \A p \in Members(Newest) : Stayed(p) => it[p] + 1 = Due /\ new[p] = Newest
                                                /\ (Taken(p) = 1 /\ idx[p] = 1)
                                                /\ Holds(p, e)
  <2>1. pc[Lead] = l /\ l \in Redistribution
    <3>1. pc[Lead] = l /\ Stayed(Lead)
      BY <1>1
    <3> QED
      BY <1>1, <3>1, MemberWhere
  <2>2. (l = "gatherE" => Added(Newest) # {}) /\ (l = "gatherS" => Added(Newest) = {})
    BY <2>1 DEF Redistribution
  <2>3. l = "gatherE" => \A p \in Members(e) : p \in Members(Newest)
    <3>1. Added(Newest) = {} <=> psets[Newest].removed # {}
      BY <1>1 DEF IInv, SetsInv, IsMainSet
    <3>2. psets[Newest].removed = Members(e) \ Members(Newest)
      BY <1>1 DEF IInv, SetsInv, IsMainSet
    <3> QED
      BY <2>2, <3>1, <3>2
  <2>4. ASSUME NEW p \in Members(Newest), Stayed(p)
        PROVE  /\ it[p] + 1 = Due /\ new[p] = Newest
               /\ Taken(p) = 1 /\ idx[p] = 1 /\ Holds(p, e)
    <3>1. pc[p] = l /\ MemberAt(p)
      BY <1>1, <2>4
    <3>2. Taken(p) = 1 /\ idx[p] = 1
      BY <1>1, <3>1 DEF Taken, IInv, LogInv
    <3> QED
      BY <1>1, <2>1, <2>4, <3>1, <3>2 DEF IInv, ItInv, ItOf, MemberAt, DataInv, BlockOf
  <2> QED
    BY <2>2, <2>3, <2>4
<1> DEFINE k == [p \in Procs |-> IF l = "gatherE" THEN "scatterE"
                                 ELSE IF p \in Members(Newest) THEN "scatterS" ELSE "finop"]
<1>4. /\ pc' = [p \in Procs |-> IF p \in Members(e) THEN k[p] ELSE pc[p]]
      /\ gathered' = [gathered EXCEPT ![Root(e)] = Collected(e)]
      /\ UNCHANGED <<psets, dict, ack, req, log, comm, old, new, main, primary, asked, it, idx,
                     block>>
  BY <1>1, <1>2 DEF Gather, Move, runtimeVars, commVars
<1>5. /\ \A p \in Members(e) : p \in Members(Newest) => k[p] \in {"scatterE", "scatterS"}
      /\ \A p \in Members(e) : p \in Members(Newest) => k[p] \in Redistribution
      /\ \A p \in Members(e) : p \notin Members(Newest) => k[p] = "finop"
      /\ k \in [Procs -> Locations]
  BY <1>1, <1>3 DEF Redistribution, Locations
<1> HIDE DEF k
<1>6. Kept
  BY <1>4, SameSets
<1>7. /\ \A p \in Members(e) : pc'[p] = k[p]
      /\ \A q \in Procs : q \notin Members(e) => SameAt(q)
  BY <1>1, <1>4 DEF SameAt
<1>8. /\ Stage' = Stage /\ Due' = Due
      /\ Canceled' <=> Canceled
      /\ Newest' = Newest /\ Lead' = Lead
      /\ \A p : Stayed(p)' <=> Stayed(p)
      /\ Redistribution' = Redistribution /\ Computing'
      /\ Members(Newest)' = Members(Newest)
      /\ Intact(Newest)' <=> Intact(Newest)
  BY <1>1, <1>4, <1>6, Settling, KeptSets
<1>9. /\ \A q : /\ IsMember(q)' <=> IsMember(q)
                /\ IsSpawned(q)' <=> IsSpawned(q)
                /\ IsDeparting(q)' <=> IsDeparting(q)
                /\ IsLaunched(q)' <=> IsLaunched(q)
  BY <1>6, <1>8, SameClass
<1>10. Collected(e) \in Array /\ (Intact(e) => Collected(e) = Whole)
  <2>1. \A p \in Members(e) : Holds(p, e)
    <3>1. ASSUME NEW p \in Members(e), p \notin Members(Newest)
          PROVE  Holds(p, e)
      <4>1. IsDeparting(p) /\ pc[p] = "gatherS" /\ p \in Procs
        BY <1>1, <1>3, <3>1
      <4> QED
        BY <1>1, <4>1 DEF IInv, DataInv
    <3> QED
      BY <1>1, <1>3, <3>1
  <2> QED
    BY <2>1, CollectedHolds, Types DEF IInv
<1>11. TypeOK'
  <2>1. TypeOK /\ Newest = Len(log)
    BY DEF IInv, Newest
  <2>2. pc' \in [Procs -> Locations]
    BY <1>4, <1>5, <2>1 DEF TypeOK
  <2>3. gathered' \in [Procs -> Seq(0 .. Size)]
    <3>1. Collected(e) \in Seq(0 .. Size)
      BY <1>10, ListType, Types DEF Array
    <3> QED
      BY <1>4, <2>1, <3>1 DEF TypeOK
  <2> QED
    BY <1>4, <1>6, <2>1, <2>2, <2>3, TogetherTypes DEF TypeOK
<1>12. PlaceInv'
  <2>1. ASSUME NEW p \in Procs
        PROVE  PlaceOf(p)'
    <3>1. CASE p \notin Members(e)
      BY <1>4, <1>6, <1>7, <1>8, <3>1, SamePlace
    <3>2. CASE p \in Members(e) /\ p \in Members(Newest)
      <4>1. IsMember(p) /\ MemberAt(p) /\ Stayed(p) /\ PlaceOf(p)
        BY <1>1, <3>2 DEF IInv, PlaceInv
      <4>2. ~ IsSpawned(p) /\ ~ IsDeparting(p) /\ ~ IsLaunched(p)
        BY <4>1, Apart
      <4>3. pc'[p] \in Places(p)'
        BY <1>1, <1>5, <1>7, <1>8, <3>2, <4>1 DEF Places
      <4>4. Root(main[p])' = Root(main[p])
        BY <1>4 DEF Root
      <4>5. new'[p] = Newest
        BY <1>3, <1>4, <3>2, <4>1
      <4>6. MemberAt(p)'
        BY <1>1, <1>4, <1>8, <4>1, <4>3, <4>4, <4>5 DEF MemberAt
      <4>7. \A d \in 1 .. Newest : p \in Members(d)' => main'[p] >= d
        BY <1>4, <4>1 DEF PlaceOf, Members
      <4> QED
        BY <1>8, <1>9, <4>1, <4>2, <4>6, <4>7 DEF PlaceOf
    <3>3. CASE p \in Members(e) /\ p \notin Members(Newest)
      <4>1. IsDeparting(p) /\ DepartingAt(p) /\ PlaceOf(p)
        BY <1>1, <3>3 DEF IInv, PlaceInv
      <4>2. ~ IsSpawned(p) /\ ~ IsMember(p) /\ ~ IsLaunched(p)
        BY <4>1, Apart
      <4>3. DepartingAt(p)'
        BY <1>4, <1>5, <1>7, <1>8, <3>3, <4>1 DEF DepartingAt
      <4>4. \A d \in 1 .. Newest : p \in Members(d)' => main'[p] >= d
        BY <1>4, <4>1 DEF PlaceOf, Members
      <4> QED
        BY <1>8, <1>9, <4>1, <4>2, <4>3, <4>4 DEF PlaceOf
    <3> QED
      BY <3>1, <3>2, <3>3
  <2> QED
    BY <2>1 DEF PlaceInv
<1>13. StageInv' /\ DictInv'
  BY <1>1, <1>4, <1>6, SettlingRuntime
<1>14. FinInv'
  <2>1. pc'[Lead] # "leaveold" /\ pc[Lead] # "leaveold"
    BY <1>1, <1>5, <1>7
  <2> QED
    BY <1>4, <1>6, <1>8, <2>1, SameFin
<1>15. ItInv'
  <2>1. ASSUME NEW p \in Members(Newest)
        PROVE  ItOf(p)'
    <3>1. CASE p \in Members(e)
      BY <1>1, <1>3, <1>4, <1>5, <1>7, <1>8, <3>1 DEF ItOf
    <3>2. CASE p \notin Members(e)
      BY <1>1, <1>6, <1>7, <1>8, <3>2, SameIt
    <3> QED
      BY <3>1, <3>2
  <2>2. Due' <= Steps
    BY <1>1, <1>8 DEF IInv, ItInv
  <2> QED
    BY <1>1, <1>8, <2>1, <2>2 DEF ItInv
<1>16. LogInv'
  <2>1. \A p \in Members(Newest) : Taken(p)' = Taken(p)
    <3>1. \A p \in Members(Newest) : p \in Members(e) => Taken(p)' = 1 /\ Taken(p) = 1
      BY <1>1, <1>3, <1>5, <1>7 DEF Taken
    <3>2. \A p \in Members(Newest) : p \notin Members(e) => Taken(p)' = Taken(p)
      BY <1>1, <1>7 DEF SameAt, Taken
    <3> QED
      BY <3>1, <3>2
  <2> QED
    BY <1>1, <1>4, <1>8, <2>1 DEF IInv, LogInv
<1>17. DataInv'
  <2>1. \A p \in Members(Newest) : BlockOf(p)'
    <3>1. ASSUME NEW p \in Members(Newest), p \in Members(e)
          PROVE  BlockOf(p)'
      BY <1>1, <1>5, <1>7, <1>8, <3>1 DEF BlockOf
    <3>2. ASSUME NEW p \in Members(Newest), p \notin Members(e)
          PROVE  BlockOf(p)'
      BY <1>1, <1>6, <1>7, <1>8, <3>2, SameBlock
    <3> QED
      BY <3>1, <3>2
  <2>2. \A p \in Procs : ~ (IsDeparting(p)' /\ pc'[p] = "gatherS")
    BY <1>1, <1>5, <1>7, <1>9
  <2>3. gathered' \in [Procs -> Array \cup {<<>>}]
    BY <1>4, <1>10, Types
  <2>4. Intact(Newest) => gathered'[Lead] = Whole
    <3>1. SUFFICES ASSUME Intact(Newest)
                   PROVE  gathered'[Lead] = Whole
      OBVIOUS
    <3>2. Intact(e)
      BY <1>1, <3>1, IntactBefore, Types DEF IInv
    <3>3. Root(e) = Lead
      BY <3>1, <3>2 DEF Intact, Lead
    <3> QED
      BY <1>1, <1>4, <1>10, <3>2, <3>3, Types
  <2> QED
    BY <1>1, <1>8, <2>1, <2>2, <2>3, <2>4 DEF DataInv
<1>18. SetsInv'
  BY <1>6, KeptSets
<1> QED
  BY <1>11, <1>12, <1>13, <1>14, <1>15, <1>16, <1>17, <1>18 DEF IInv

\* All of the old communicator leave it, which ends the redistribution.
LEMMA LeaveOldKeeps ==
  ASSUME IInv, NEW e \in Epochs, LeaveOld(e)
  PROVE  IInv'
<1>1. /\ e = Newest - 1 /\ Stage = "settling" /\ Newest > 1 /\ Newest \in Nat
      /\ Newest \in Epochs /\ Computing /\ Len(psets) = Newest
      /\ Members(e) \subseteq Procs /\ Members(Newest) \subseteq Procs
      /\ Lead \in Members(e) /\ Lead \in Members(Newest) /\ Lead \in Procs
      /\ \A p \in Members(Newest) : IsMember(p) /\ MemberAt(p) /\ (Stayed(p) <=> p \in Members(e))
      /\ \A p \in Members(e) :
           /\ pc[p] = "leaveold" /\ old[p] = Newest - 1 /\ main[p] = Newest
           /\ p \notin Members(Newest) => IsDeparting(p) /\ DepartingAt(p)
      /\ \A p \in Procs : IsDeparting(p) <=> p \in Members(e) \ Members(Newest)
  BY OldCalls DEF LeaveOld
<1>2. \A p \in Members(e) : Included(p) <=> p \in Members(Newest)
  BY <1>1 DEF Included
<1>3. /\ Due = it[Lead] + 1 /\ Due <= Steps /\ Due \in Nat
      /\ \A p \in Members(Newest) : Stayed(p) => /\ it[p] + 1 = Due /\ Holds(p, Newest)
                                                /\ Taken(p) = 2 /\ idx[p] = 2
  <2>1. Due = it[Lead] + 1 /\ Due <= Steps /\ Due \in Nat
    BY <1>1, Types DEF Due, IInv, ItInv
  <2>2. ASSUME NEW p \in Members(Newest), Stayed(p)
        PROVE  it[p] + 1 = Due /\ Holds(p, Newest) /\ Taken(p) = 2 /\ idx[p] = 2
    <3>1. pc[p] = "leaveold" /\ Taken(p) = 2
      BY <1>1, <2>2 DEF Taken
    <3> QED
      BY <1>1, <3>1 DEF IInv, ItInv, ItOf, LogInv, DataInv, BlockOf, Redistribution
  <2> QED
    BY <2>1, <2>2
<1>4. /\ pc' = [p \in Procs |-> IF p \in Members(e)
                                THEN IF p \in Members(Newest) THEN "step" ELSE "cancel"
                                ELSE pc[p]]
      /\ old' = [p \in Procs |-> IF p \in Members(e) THEN 0 ELSE old[p]]
      /\ it' = [p \in Procs |-> IF p \in Members(e) /\ p \in Members(Newest) THEN Due ELSE it[p]]
      /\ UNCHANGED <<psets, dict, ack, req, log, comm, new, main, primary, asked, idx,
                     block, gathered>>
  <2>1. it' = [p \in Procs |-> IF p \in Members(e) /\ p \in Members(Newest) THEN it[p] + 1
                               ELSE it[p]]
    BY <1>1, <1>2 DEF LeaveOld
  <2>2. it' = [p \in Procs |-> IF p \in Members(e) /\ p \in Members(Newest) THEN Due ELSE it[p]]
    BY <1>1, <1>3, <2>1
  <2> QED
    BY <1>1, <1>2, <2>2 DEF LeaveOld, Move, runtimeVars, dataVars
<1>5. Kept
  BY <1>4, SameSets
<1>6. /\ \A p \in Members(e) : /\ pc'[p] = IF p \in Members(Newest) THEN "step" ELSE "cancel"
                               /\ old'[p] = 0
                               /\ p \in Members(Newest) => it'[p] = Due
      /\ \A q \in Procs : q \notin Members(e) => SameAt(q)
      /\ Newest' = Newest /\ Lead' = Lead /\ Len(psets') = Len(psets)
      /\ Members(Newest)' = Members(Newest)
      /\ Intact(Newest)' <=> Intact(Newest)
      /\ \A p : Stayed(p)' <=> Stayed(p)
  BY <1>1, <1>4, <1>5, KeptSets DEF SameAt, Kept
<1>7. Stage' = "steady" /\ Computing'
  BY <1>1, <1>6 DEF Stage, Computing
<1>8. Due' = Due
  BY <1>1, <1>6, <1>7 DEF Due
<1>9. \A p \in Members(Newest) : p \notin Members(e) =>
        /\ pc[p] \in {"itrecv", "exprecv", "step", "query", "cancel", "barrier"}
        /\ SameAt(p) /\ ~ Stayed(p) /\ old[p] = 0
  BY <1>1, <1>6, MemberWhere DEF MemberAt
<1>10. TypeOK'
  <2>1. TypeOK /\ Newest = Len(log) /\ Due \in 0 .. Steps + 1 /\ 0 \in 0 .. Newest
    BY <1>1, <1>3, Types DEF IInv, Newest
  <2>2. pc' \in [Procs -> Locations] /\ old' \in [Procs -> 0 .. Newest]
        /\ it' \in [Procs -> 0 .. Steps + 1]
    BY <1>4, <2>1 DEF TypeOK, Locations
  <2> QED
    BY <1>4, <1>5, <2>1, <2>2, TogetherTypes DEF TypeOK
<1>11. PlaceInv'
  <2>1. ASSUME NEW p \in Procs
        PROVE  PlaceOf(p)'
    <3>1. PlaceOf(p)
      BY DEF IInv, PlaceInv
    <3>2. /\ ~ IsSpawned(p) /\ ~ IsLaunched(p) /\ ~ IsSpawned(p)' /\ ~ IsLaunched(p)'
          /\ ~ IsDeparting(p)' /\ (IsMember(p)' <=> p \in Members(Newest))
      BY <1>1, <1>6, <1>7 DEF IsSpawned, IsLaunched, IsDeparting, IsMember
    <3>3. \A d \in 1 .. Newest : p \in Members(d)' => main'[p] >= d
      BY <1>4, <3>1 DEF PlaceOf, Members
    <3>4. CASE p \in Members(Newest)
      <4>1. MemberAt(p)
        BY <1>1, <3>4
      <4>2. pc'[p] \in Places(p)'
        <5>1. CASE p \in Members(e)
          BY <1>6, <1>7, <3>4, <5>1 DEF Places
        <5>2. CASE p \notin Members(e)
          BY <1>6, <1>7, <1>9, <3>4, <5>2 DEF Places, SameAt
        <5> QED
          BY <5>1, <5>2
      <4>3. old'[p] = 0
        BY <1>6, <1>9, <3>4 DEF SameAt
      <4>4. Root(main[p])' = Root(main[p])
        BY <1>4 DEF Root
      <4>5. MemberAt(p)'
        BY <1>1, <1>4, <1>6, <1>7, <4>1, <4>2, <4>3, <4>4 DEF MemberAt
      <4> QED
        BY <1>6, <3>2, <3>3, <3>4, <4>5 DEF PlaceOf
    <3>5. CASE p \in Members(e) /\ p \notin Members(Newest)
      <4>1. DepartingAt(p) /\ main[p] = Newest
        BY <1>1, <3>5
      <4>2. Members(main[p])' = Members(Newest)
        BY <1>4, <4>1 DEF Members
      <4>3. Gone(p)'
        BY <1>1, <1>4, <1>6, <3>5, <4>1, <4>2 DEF Gone, DepartingAt
      <4> QED
        BY <1>6, <3>2, <3>3, <3>5, <4>3 DEF PlaceOf
    <3>6. CASE p \notin Members(e) /\ p \notin Members(Newest)
      <4>1. SameAt(p) /\ (Gone(p) \/ Unborn(p))
        BY <1>1, <1>6, <3>1, <3>2, <3>6 DEF PlaceOf, IsMember
      <4>2. Gone(p) => Gone(p)'
        BY <1>4, <1>6, <4>1 DEF Gone, SameAt, Members
      <4>3. Unborn(p) => Unborn(p)'
        BY <1>4, <4>1 DEF Unborn, SameAt, Members, Epochs
      <4> QED
        BY <1>6, <3>2, <3>3, <3>6, <4>1, <4>2, <4>3 DEF PlaceOf
    <3> QED
      BY <3>4, <3>5, <3>6
  <2> QED
    BY <2>1 DEF PlaceInv
<1>12. ~ Published /\ ~ Published' /\ ~ Canceled /\ ~ Canceled'
  BY <1>1, <1>6, <1>7 DEF Published, Canceled
<1>13. StageInv'
  <2>1. ~ req
    BY <1>1 DEF IInv, StageInv
  <2> QED
    BY <1>1, <1>4, <1>6, <1>7, <2>1 DEF StageInv
<1>14. DictInv'
  BY <1>4, <1>5, <1>12, SameNames
<1>15. FinInv'
  BY <1>1, <1>4, <1>6, <1>7, <1>12 DEF IInv, FinInv
<1>16. ItInv'
  <2>1. ASSUME NEW p \in Members(Newest)
        PROVE  ItOf(p)'
    <3>1. CASE p \in Members(e)
      BY <1>3, <1>6, <1>7, <1>8, <3>1, Types DEF ItOf, Redistribution
    <3>2. CASE p \notin Members(e)
      <4>1. ItOf(p)
        BY <1>1 DEF IInv, ItInv
      <4> QED
        BY <1>1, <1>7, <1>8, <1>9, <3>2, <4>1 DEF ItOf, SameAt, Redistribution
    <3> QED
      BY <3>1, <3>2
  <2> QED
    BY <1>1, <1>3, <1>6, <1>8, <2>1 DEF ItInv
<1>17. LogInv'
  <2>1. \A p \in Members(Newest) : Taken(p)' = Taken(p)
    <3>1. \A p \in Members(Newest) : p \in Members(e) => Taken(p)' = 2 /\ Taken(p) = 2
      BY <1>1, <1>3, <1>6 DEF Taken
    <3>2. \A p \in Members(Newest) : p \notin Members(e) => Taken(p)' = Taken(p)
      BY <1>9 DEF SameAt, Taken
    <3> QED
      BY <3>1, <3>2
  <2> QED
    BY <1>1, <1>4, <1>6, <1>8, <2>1 DEF IInv, LogInv
<1>18. DataInv'
  <2>1. \A p \in Members(Newest) : BlockOf(p)'
    <3>1. ASSUME NEW p \in Members(Newest), p \in Members(e)
          PROVE  BlockOf(p)'
      <4>1. Holds(p, Newest)'
        BY <1>1, <1>3, <1>4, <1>5, <1>6, <3>1, KeptSets DEF Holds
      <4> QED
        BY <1>6, <1>7, <3>1, <4>1 DEF BlockOf
    <3>2. ASSUME NEW p \in Members(Newest), p \notin Members(e)
          PROVE  BlockOf(p)'
      <4>1. BlockOf(p) /\ pc'[p] = pc[p] /\ pc[p] \notin {"itcast", "gatherE", "gatherS"}
        BY <1>1, <1>9, <3>2 DEF IInv, DataInv, SameAt
      <4>2. Holds(p, Newest) => Holds(p, Newest)'
        BY <1>1, <1>4, <1>5, <1>6, KeptSets DEF Holds
      <4> QED
        BY <1>1, <1>7, <4>1, <4>2 DEF BlockOf
    <3> QED
      BY <3>1, <3>2
  <2>2. \A p \in Procs : ~ IsDeparting(p)'
    BY <1>7 DEF IsDeparting
  <2>3. gathered' \in [Procs -> Array \cup {<<>>}]
    BY <1>4, Types
  <2> QED
    BY <1>6, <1>7, <2>1, <2>2, <2>3 DEF DataInv
<1>19. SetsInv'
  BY <1>5, KeptSets
<1> QED
  BY <1>10, <1>11, <1>13, <1>14, <1>15, <1>16, <1>17, <1>18, <1>19 DEF IInv

-----------------------------------------------------------------------------
(* A new communicator. *)

\* What the processes of set e do to create their communicator.
LEMMA Creates ==
  ASSUME IInv, NEW e \in Epochs, CreateComm(e)
  PROVE  /\ \A p \in Members(e) : pc[p] \in {"init", "recreate"} /\ main[p] = e
         /\ e = Newest + 1
         /\ log' = Append(log, <<>>) /\ Newest' = Newest + 1 /\ log' \in Seq(Seq(Message))
         /\ \A d \in 1 .. Newest : log'[d] = log[d]
         /\ log'[Newest + 1] = <<>>
         /\ comm' = [p \in Procs |-> IF p \in Members(e) THEN e ELSE comm[p]]
         /\ idx' = [p \in Procs |-> IF p \in Members(e) THEN 0 ELSE idx[p]]
         /\ new' = [p \in Procs |-> IF p \in Members(e) /\ pc[p] = "init" THEN e ELSE new[p]]
         /\ block' = [p \in Procs |-> IF p \in Members(e) /\ p \in Orig /\ pc[p] = "init"
                                      THEN Initial(p, e) ELSE block[p]]
         /\ pc' = [p \in Procs |-> IF p \in Members(e)
                                   THEN IF pc[p] = "recreate" THEN "itcast"
                                        ELSE IF p \in Orig THEN "step" ELSE "itrecv"
                                   ELSE pc[p]]
         /\ UNCHANGED <<psets, dict, ack, req, old, main, primary, asked, it, gathered>>
         /\ Newest > 0 => Stage = "between"
<1>1. /\ \A p \in Members(e) : pc[p] \in {"init", "recreate"} /\ main[p] = e
      /\ log' = Append(log, <<>>)
      /\ comm' = [p \in Procs |-> IF p \in Members(e) THEN e ELSE comm[p]]
      /\ idx' = [p \in Procs |-> IF p \in Members(e) THEN 0 ELSE idx[p]]
      /\ new' = [p \in Procs |-> IF p \in Members(e) /\ pc[p] = "init" THEN e ELSE new[p]]
      /\ block' = [p \in Procs |-> IF p \in Members(e) /\ p \in Orig /\ pc[p] = "init"
                                   THEN Initial(p, e) ELSE block[p]]
      /\ pc' = [p \in Procs |-> IF p \in Members(e) THEN AfterCreate[p] ELSE pc[p]]
      /\ UNCHANGED <<psets, dict, ack, req, old, main, primary, asked, it, gathered>>
  BY DEF CreateComm, CreateFromGroup, Move, runtimeVars
<1>2. /\ Root(e) \in Members(e) /\ Members(e) \subseteq Procs /\ SetsInv
      /\ Newest \in Nat /\ Len(psets) \in Nat /\ Len(psets) \in {Newest, Newest + 1}
  BY Ranks, Types DEF IInv
<1>3. e = Newest + 1 /\ (Newest > 0 => Stage = "between")
  <2>1. CASE Newest = 0
    <3>1. Len(psets) = 1
      BY <2>1, Stages
    <3> QED
      BY <2>1, <3>1 DEF Epochs
  <2>2. CASE Newest > 0
    <3>1. CASE pc[Root(e)] = "recreate"
      <4>1. IsMember(Root(e)) /\ Stage = "between" /\ MemberAt(Root(e))
        BY <1>2, <3>1, Where, MemberWhere
      <4> QED
        BY <1>1, <1>2, <4>1 DEF MemberAt
    <3>2. CASE pc[Root(e)] = "init"
      <4>1. IsSpawned(Root(e)) /\ PlaceOf(Root(e))
        BY <1>2, <2>2, <3>2, Where DEF IsLaunched, IInv, PlaceInv
      <4>2. main[Root(e)] = Newest + 1
        BY <3>2, <4>1 DEF PlaceOf, SpawnedAt
      <4>3. Newest + 1 \in Epochs /\ Root(e) \in Added(Newest + 1) /\ e = Newest + 1 /\ e > 1
        BY <1>1, <1>2, <2>2, <4>1, <4>2, Stages DEF IsSpawned
      <4>4. Root(e) \notin Added(e)
        BY <1>2, <4>3 DEF SetsInv, IsMainSet
      <4> QED
        BY <4>3, <4>4
    <3> QED
      BY <1>1, <1>2, <3>1, <3>2
  <2> QED
    BY <1>2, <2>1, <2>2
<1>4. /\ Newest' = Newest + 1 /\ log' \in Seq(Seq(Message))
      /\ \A d \in 1 .. Newest : log'[d] = log[d]
      /\ log'[Newest + 1] = <<>>
  <2>1. <<>> \in Seq(Message) /\ log \in Seq(Seq(Message))
    BY Types
  <2> QED
    BY <1>1, <2>1 DEF Newest
<1>5. pc' = [p \in Procs |-> IF p \in Members(e)
                             THEN IF pc[p] = "recreate" THEN "itcast"
                                  ELSE IF p \in Orig THEN "step" ELSE "itrecv"
                             ELSE pc[p]]
  BY <1>1 DEF AfterCreate
<1> QED
  BY <1>1, <1>3, <1>4, <1>5

\* The sets stay, and what a process has of them does.
LEMMA CreateFrame ==
  ASSUME IInv, NEW e \in Epochs, CreateComm(e)
  PROVE  /\ SetsInv' /\ Epochs' = Epochs /\ Len(psets') = Len(psets)
         /\ Lead' = Root(e) /\ Root(e) \in Members(e) /\ Members(e) \subseteq Procs
         /\ Members(Newest)' = Members(e)
         /\ Newest \in Nat /\ Len(psets) = Newest + 1
         /\ \A d : /\ Members(d)' = Members(d) /\ Added(d)' = Added(d) /\ Share(d)' = Share(d)
                   /\ \A p : Initial(p, d)' = Initial(p, d)
                   /\ Intact(d)' <=> Intact(d)
         /\ \A p : Stayed(p)' <=> p \notin Added(e)
         /\ \A p \in Procs \ Members(e) :
              /\ pc'[p] = pc[p] /\ comm'[p] = comm[p] /\ block'[p] = block[p]
              /\ Gone(p) => Gone(p)'
              /\ Unborn(p) => Unborn(p)'
<1>1. /\ e = Newest + 1 /\ Newest' = Newest + 1 /\ psets' = psets
      /\ UNCHANGED <<old, main, primary>>
      /\ \A p \in Procs \ Members(e) :
           pc'[p] = pc[p] /\ comm'[p] = comm[p] /\ block'[p] = block[p]
  BY Creates
<1>2. Newest \in Nat /\ Len(psets) = Newest + 1
  <2>1. Newest \in Nat /\ Len(psets) \in {Newest, Newest + 1} /\ e <= Len(psets)
    BY Types DEF Epochs
  <2> QED
    BY <1>1, <2>1
<1>3. /\ Epochs' = Epochs
      /\ \A d : /\ Members(d)' = Members(d) /\ Added(d)' = Added(d) /\ Share(d)' = Share(d)
                /\ Root(d)' = Root(d) /\ Number(d)' = Number(d)
                /\ \A p : Initial(p, d)' = Initial(p, d)
                /\ Intact(d)' <=> Intact(d)
                /\ IsMainSet(d)' <=> IsMainSet(d)
  BY <1>1 DEF Epochs, Members, Added, Share, Root, Number, Initial, Rank, Intact, Exact, IsMainSet
<1>4. SetsInv'
  BY <1>1, <1>2, <1>3 DEF IInv, SetsInv, Orig
<1>5. Lead' = Root(e) /\ Members(Newest)' = Members(e) /\ \A p : Stayed(p)' <=> p \notin Added(e)
  BY <1>1 DEF Lead, Root, Members, Stayed, Added
<1>6. Root(e) \in Members(e) /\ Members(e) \subseteq Procs
  BY Ranks, Types DEF IInv
<1>7. ASSUME NEW p \in Procs \ Members(e)
      PROVE  /\ Gone(p) => Gone(p)'
             /\ Unborn(p) => Unborn(p)'
  <2>1. Gone(p) => Gone(p)'
    <3>1. Gone(p) => main[p] \in 1 .. Newest'
      BY <1>1, <1>2 DEF Gone
    <3> QED
      BY <1>1, <3>1 DEF Gone, Members
  <2>2. Unborn(p) => Unborn(p)'
    BY <1>1 DEF Unborn, Members, Epochs
  <2> QED
    BY <2>1, <2>2
<1> QED
  BY <1>1, <1>2, <1>3, <1>4, <1>5, <1>6, <1>7

\* The new communicator keeps every type.
LEMMA CreateTypes ==
  ASSUME IInv, NEW e \in Epochs, CreateComm(e),
         \A p \in Members(e) : Initial(p, e) \in Seq(0 .. Size)
  PROVE  TypeOK'
<1>1. /\ psets' = psets /\ Len(psets) = Newest + 1 /\ Newest \in Nat /\ Newest' = Newest + 1
      /\ e = Newest + 1 /\ Epochs' = Epochs /\ TypeOK /\ Newest = Len(log)
      /\ Len(log') = Len(log) + 1
  BY Creates, CreateFrame DEF IInv, Newest
<1>2. /\ Len(log) \in Nat /\ 0 .. Len(log) \subseteq 0 .. Len(log')
      /\ e \in 0 .. Len(log') /\ Len(log') <= Len(psets)
  BY <1>1
<1>3. /\ pc' \in [Procs -> Locations]
      /\ comm' \in [Procs -> 0 .. Len(log')] /\ old' \in [Procs -> 0 .. Len(log')]
      /\ new' \in [Procs -> 0 .. Len(log')] /\ idx' \in [Procs -> Nat]
      /\ block' \in [Procs -> Seq(0 .. Size)]
  <2>1. pc' \in [Procs -> Locations]
    <3>1. pc \in [Procs -> Locations] /\ {"itcast", "step", "itrecv"} \subseteq Locations
      BY <1>1 DEF TypeOK, Locations
    <3>2. pc' = [p \in Procs |-> IF p \in Members(e)
                                 THEN IF pc[p] = "recreate" THEN "itcast"
                                      ELSE IF p \in Orig THEN "step" ELSE "itrecv"
                                 ELSE pc[p]]
      BY Creates
    <3> QED
      BY <3>1, <3>2
  <2>2. comm' \in [Procs -> 0 .. Len(log')]
    <3>1. comm \in [Procs -> 0 .. Len(log)]
      BY <1>1 DEF TypeOK
    <3>2. comm' = [p \in Procs |-> IF p \in Members(e) THEN e ELSE comm[p]]
      BY Creates
    <3> QED
      BY <1>2, <3>1, <3>2
  <2>3. old' \in [Procs -> 0 .. Len(log')]
    BY <1>1, <1>2, Creates DEF TypeOK
  <2>4. new' \in [Procs -> 0 .. Len(log')]
    <3>1. new \in [Procs -> 0 .. Len(log)]
      BY <1>1 DEF TypeOK
    <3>2. new' = [p \in Procs |-> IF p \in Members(e) /\ pc[p] = "init" THEN e ELSE new[p]]
      BY Creates
    <3> QED
      BY <1>2, <3>1, <3>2
  <2>5. idx' \in [Procs -> Nat]
    <3>1. idx \in [Procs -> Nat]
      BY <1>1 DEF TypeOK
    <3>2. idx' = [p \in Procs |-> IF p \in Members(e) THEN 0 ELSE idx[p]]
      BY Creates
    <3> QED
      BY <3>1, <3>2
  <2>6. block' \in [Procs -> Seq(0 .. Size)]
    <3>1. block \in [Procs -> Seq(0 .. Size)]
      BY <1>1 DEF TypeOK
    <3>2. block' = [p \in Procs |-> IF p \in Members(e) /\ p \in Orig /\ pc[p] = "init"
                                    THEN Initial(p, e) ELSE block[p]]
      BY Creates
    <3> QED
      BY <3>1, <3>2
  <2> QED
    BY <2>1, <2>2, <2>3, <2>4, <2>5, <2>6
<1>4. UNCHANGED <<psets, dict, ack, req, main, primary, asked, it, gathered>>
  BY Creates
<1> QED
  BY <1>1, <1>2, <1>3, <1>4 DEF TypeOK

\* The first communicator.
LEMMA CreateFirst ==
  ASSUME IInv, NEW e \in Epochs, CreateComm(e), Newest = 0
  PROVE  IInv'
<1>1. /\ e = 1 /\ Newest' = 1 /\ Len(psets) = 1 /\ Members(1) = Orig /\ Stage = "start"
      /\ SetsInv' /\ Epochs' = Epochs /\ Len(psets') = 1 /\ Lead' = Root(1)
      /\ Root(1) \in Orig /\ Orig \subseteq Procs /\ Members(Newest)' = Orig /\ 1 \in Epochs
  BY Creates, CreateFrame, Stages
<1>2. \A p \in Orig : /\ IsLaunched(p) /\ pc[p] = "init" /\ old[p] = 0 /\ main[p] = 1
                      /\ primary[p] <=> p = Root(1)
                      /\ it[p] = 0
  BY <1>1 DEF IsLaunched, Launched, IInv, PlaceInv, PlaceOf, ItInv
<1>3. /\ UNCHANGED <<psets, dict, ack, req, old, main, primary, asked, it, gathered>>
      /\ \A p \in Orig : pc'[p] = "step" /\ comm'[p] = 1 /\ block'[p] = Initial(p, 1)
  BY <1>1, <1>2, Creates
<1>4. Stage' = "steady" /\ Computing' /\ Due' = 0 /\ pc'[Lead'] = "step"
  BY <1>1, <1>2, <1>3 DEF Stage, Computing, Due
<1>5. /\ \A p \in Orig : Initial(p, 1) \in [1 .. Share(1) -> 0 .. Size]
      /\ Share(1) \in Nat
  <2>1. SetsInv /\ psets \in Seq(Pset) /\ Size \in Nat
    BY Types DEF IInv
  <2>2. Share(1) \in Nat /\ \A p \in Members(1) : \A i \in 1 .. Share(1) :
              Rank(p, 1) * Share(1) + i \in 1 .. Size
    BY <1>1, <2>1, Shares
  <2>3. \A p \in Members(1) : Initial(p, 1) = [i \in 1 .. Share(1) |-> Rank(p, 1) * Share(1) + i]
    BY DEF Initial
  <2>4. 1 .. Size \subseteq 0 .. Size
    BY <2>1
  <2> QED
    BY <1>1, <2>2, <2>3, <2>4
<1>6. TypeOK'
  <2>1. \A p \in Members(e) : Initial(p, e) \in Seq(0 .. Size)
    BY <1>1, <1>5, ListType
  <2> QED
    BY <2>1, CreateTypes
<1>7. PlaceInv'
  <2>1. ASSUME NEW p \in Procs
        PROVE  PlaceOf(p)'
    <3>1. /\ IsMember(p)' <=> p \in Orig
          /\ ~ IsSpawned(p)' /\ ~ IsDeparting(p)' /\ ~ IsLaunched(p)'
      BY <1>1, <1>4 DEF IsMember, IsSpawned, IsDeparting, IsLaunched
    <3>2. CASE p \in Orig
      <4>1. pc'[p] \in Places(p)'
        BY <1>3, <1>4, <3>2 DEF Places
      <4>2. Root(main[p])' = Root(1)
        BY <1>2, <1>3, <3>2 DEF Root
      <4>3. MemberAt(p)'
        BY <1>1, <1>2, <1>3, <1>4, <3>2, <4>1, <4>2 DEF MemberAt
      <4>4. \A d \in 1 .. Newest' : main'[p] >= d
        BY <1>1, <1>2, <1>3, <3>2
      <4> QED
        BY <3>1, <3>2, <4>3, <4>4 DEF PlaceOf
    <3>3. CASE p \notin Orig
      <4>1. Unborn(p)
        BY <1>1, <3>3 DEF IInv, PlaceInv, PlaceOf, IsMember, IsSpawned, IsDeparting, IsLaunched, Gone
      <4>2. Unborn(p)'
        BY <1>1, <3>3, <4>1, CreateFrame
      <4>3. \A d \in 1 .. Newest' : p \notin Members(d)'
        BY <1>1, <4>2 DEF Unborn
      <4> QED
        BY <3>1, <3>3, <4>2, <4>3 DEF PlaceOf
    <3> QED
      BY <3>2, <3>3
  <2> QED
    BY <2>1 DEF PlaceInv
<1>8. ~ Published' /\ ~ Canceled' /\ ~ Published /\ ~ Canceled
  BY <1>1, <1>4 DEF Published, Canceled
<1>9. StageInv'
  <2>1. ~ req
    BY <1>1 DEF IInv, StageInv
  <2> QED
    BY <1>1, <1>3, <1>4, <2>1 DEF StageInv
<1>10. DictInv'
  <2>1. dict[1] = 0 /\ dict[0] <= 0 /\ dict \in [0 .. MaxPsets -> Nat]
        /\ \A d \in 2 .. MaxPsets : dict[d] = 0
    BY <1>1, <1>8 DEF IInv, DictInv
  <2>2. dict'[0] <= 1
    <3>1. 0 \in 0 .. MaxPsets
      BY Types
    <3>2. dict[0] \in Nat
      BY <2>1, <3>1
    <3> QED
      BY <1>3, <2>1, <3>2
  <2> QED
    BY <1>1, <1>3, <1>8, <2>1, <2>2 DEF DictInv
<1>11. FinInv'
  BY <1>1 DEF FinInv
<1>12. ItInv'
  <2>1. Steps \in Nat
    BY Types
  <2>2. \A p \in Orig : ItOf(p)'
    BY <1>2, <1>3, <1>4, <2>1 DEF ItOf, Redistribution
  <2> QED
    BY <1>1, <1>4, <2>1, <2>2 DEF ItInv
<1>13. LogInv'
  BY <1>1, Creates DEF LogInv
<1>14. DataInv'
  <2>1. \A p \in Orig : BlockOf(p)'
    <3>1. ASSUME NEW p \in Orig
          PROVE  Holds(p, Newest)'
      <4>1. /\ Share(Newest)' = Share(1)
            /\ Initial(p, Newest)' = Initial(p, 1)
        BY <1>1, <1>3 DEF Share, Number, Initial, Rank
      <4> QED
        BY <1>3, <1>5, <4>1 DEF Holds
    <3> QED
      BY <1>3, <1>4, <3>1 DEF BlockOf
  <2>2. gathered' \in [Procs -> Array \cup {<<>>}]
    BY <1>3, Types
  <2> QED
    BY <1>1, <1>4, <2>1, <2>2 DEF DataInv, IsDeparting
<1> QED
  BY <1>1, <1>6, <1>7, <1>9, <1>10, <1>11, <1>12, <1>13, <1>14 DEF IInv

\* The processes that build the next communicator, and those that leave.
LEMMA CreateMembers ==
  ASSUME IInv, NEW e \in Epochs, CreateComm(e), Newest > 0
  PROVE  /\ Stage = "between" /\ e = Newest + 1 /\ Newest' = e /\ Len(psets) = e
         /\ Newest \in Epochs /\ Newest \in Nat /\ e \in Nat
         /\ Root(e) \in Members(Newest) /\ Root(e) \in Members(e) /\ Root(e) \notin Added(e)
         /\ Members(e) \subseteq Procs /\ Members(Newest) \subseteq Procs
         /\ Added(e) \subseteq Members(e)
         /\ \A p \in Members(e) \ Added(e) : p \in Members(Newest)
         /\ \A p \in Members(Newest) :
              /\ p \notin Added(e) /\ comm[p] = 0 /\ old[p] = Newest /\ main[p] = e
              /\ primary[p] <=> p = Root(e)
              /\ pc[p] = IF p \in Members(e) THEN "recreate" ELSE "gatherS"
              /\ it[p] < Steps /\ Holds(p, Newest)
         /\ \A p \in Added(e) :
              /\ pc[p] = "init" /\ p \notin Orig /\ main[p] = e /\ old[p] = 0
              /\ ~ primary[p]
<1>1. /\ e = Newest + 1 /\ Newest' = Newest + 1 /\ Stage = "between"
      /\ \A p \in Members(e) : pc[p] \in {"init", "recreate"} /\ main[p] = e
  BY Creates
<1>2. Newest \in Nat /\ Len(psets) = Newest + 1 /\ Root(e) \in Members(e)
      /\ Members(e) \subseteq Procs
  BY CreateFrame
<1>3. /\ Newest \in Epochs /\ Members(Newest) \subseteq Procs /\ Members(1) = Orig
      /\ SetsInv /\ e > 1 /\ 1 \in 1 .. e - 1 /\ Newest \in 1 .. e - 1 /\ e - 1 = Newest
  BY <1>1, <1>2, Stages DEF IInv
<1>4. /\ Added(e) \subseteq Members(e) /\ Root(e) \notin Added(e)
      /\ Added(e) \cap Members(1) = {} /\ Added(e) \cap Members(Newest) = {}
      /\ psets[e].removed = Members(Newest) \ Members(e)
      /\ Members(e) = (Members(Newest) \ psets[e].removed) \cup Added(e)
  BY <1>3 DEF SetsInv, IsMainSet
<1>5. ASSUME NEW p \in Members(Newest)
      PROVE  /\ comm[p] = 0 /\ old[p] = Newest /\ main[p] = e
             /\ primary[p] <=> p = Root(e)
             /\ pc[p] = IF p \in Members(e) THEN "recreate" ELSE "gatherS"
             /\ it[p] < Steps /\ Holds(p, Newest)
  <2>1. IsMember(p) /\ p \in Procs
    BY <1>3 DEF IsMember
  <2>2. MemberAt(p) /\ pc[p] = IF p \in Members(e) THEN "recreate" ELSE "gatherS"
    BY <1>1, <2>1, MemberWhere
  <2>3. comm[p] = 0 /\ old[p] = Newest /\ main[p] = e
    BY <1>1, <2>2 DEF MemberAt
  <2>4. primary[p] <=> p = Root(e)
    BY <2>2, <2>3 DEF MemberAt
  <2>5. it[p] < Steps
    BY <1>1 DEF IInv, ItInv, ItOf
  <2>6. Holds(p, Newest)
    BY <1>1 DEF IInv, DataInv, BlockOf, Computing
  <2> QED
    BY <2>2, <2>3, <2>4, <2>5, <2>6
<1>6. ASSUME NEW p \in Added(e)
      PROVE  /\ pc[p] = "init" /\ p \notin Orig /\ main[p] = e /\ old[p] = 0
             /\ ~ primary[p]
  <2>1. IsSpawned(p) /\ p \in Procs /\ PlaceOf(p)
    BY <1>1, <1>2, <1>4 DEF IsSpawned, IInv, PlaceInv
  <2>2. SpawnedAt(p)
    BY <2>1 DEF PlaceOf
  <2>3. pc[p] \in {"init", "recreate"}
    BY <1>1, <1>4
  <2> QED
    BY <1>1, <1>3, <1>4, <2>2, <2>3 DEF SpawnedAt
<1>7. \A p \in Members(e) \ Added(e) : p \in Members(Newest)
  BY <1>4
<1> QED
  BY <1>1, <1>2, <1>3, <1>4, <1>5, <1>6, <1>7

\* Every later one: who stays has the broadcast of the step before it, who was
\* spawned waits for it, and who was removed still gathers.
LEMMA CreateNext ==
  ASSUME IInv, NEW e \in Epochs, CreateComm(e), Newest > 0
  PROVE  IInv'
<1>1. /\ Stage = "between" /\ e = Newest + 1 /\ Newest' = e /\ Len(psets) = e
      /\ Newest \in Epochs /\ Newest \in Nat /\ e \in Nat
      /\ Root(e) \in Members(Newest) /\ Root(e) \in Members(e) /\ Root(e) \notin Added(e)
      /\ Members(e) \subseteq Procs /\ Members(Newest) \subseteq Procs
      /\ Added(e) \subseteq Members(e)
      /\ \A p \in Members(e) \ Added(e) : p \in Members(Newest)
  BY CreateMembers
<1>2. \A p \in Members(Newest) :
        /\ p \notin Added(e) /\ comm[p] = 0 /\ old[p] = Newest /\ main[p] = e
        /\ primary[p] <=> p = Root(e)
        /\ pc[p] = IF p \in Members(e) THEN "recreate" ELSE "gatherS"
        /\ it[p] < Steps /\ Holds(p, Newest)
  BY CreateMembers
<1>3. \A p \in Added(e) : /\ pc[p] = "init" /\ p \notin Orig /\ main[p] = e /\ old[p] = 0
                          /\ ~ primary[p]
  BY CreateMembers
<1>4. /\ SetsInv' /\ Epochs' = Epochs /\ Len(psets') = e
      /\ Lead' = Root(e) /\ Members(Newest)' = Members(e)
      /\ \A p : Stayed(p)' <=> p \notin Added(e)
      /\ \A d : Members(d)' = Members(d) /\ Added(d)' = Added(d)
      /\ \A p \in Procs \ Members(e) :
           /\ pc'[p] = pc[p] /\ comm'[p] = comm[p] /\ block'[p] = block[p]
           /\ Gone(p) => Gone(p)'
           /\ Unborn(p) => Unborn(p)'
  BY <1>1, CreateFrame
<1>5. /\ UNCHANGED <<psets, dict, ack, req, old, main, primary, asked, it, gathered>>
      /\ log' \in Seq(Seq(Message)) /\ log'[e] = <<>>
  BY <1>1, Creates
<1>6. \A p \in Members(e) :
        /\ comm'[p] = e /\ idx'[p] = 0 /\ block'[p] = block[p] /\ main'[p] = e
        /\ pc'[p] = IF p \in Added(e) THEN "itrecv" ELSE "itcast"
        /\ old'[p] = IF p \in Added(e) THEN 0 ELSE Newest
        /\ primary'[p] <=> p = Root(e)
        /\ p \in Added(e) \/ p \in Members(Newest)
  <2>1. ASSUME NEW p \in Members(e)
        PROVE  /\ comm'[p] = e /\ idx'[p] = 0 /\ block'[p] = block[p]
               /\ pc'[p] = IF p \in Added(e) THEN "itrecv" ELSE "itcast"
               /\ pc[p] = IF p \in Added(e) THEN "init" ELSE "recreate"
    <3>1. p \in Procs /\ pc[p] = (IF p \in Added(e) THEN "init" ELSE "recreate")
          /\ (pc[p] = "init" => p \notin Orig)
      BY <1>1, <1>2, <1>3
    <3>2. /\ comm' = [q \in Procs |-> IF q \in Members(e) THEN e ELSE comm[q]]
          /\ idx' = [q \in Procs |-> IF q \in Members(e) THEN 0 ELSE idx[q]]
          /\ block' = [q \in Procs |-> IF q \in Members(e) /\ q \in Orig /\ pc[q] = "init"
                                       THEN Initial(q, e) ELSE block[q]]
          /\ pc' = [q \in Procs |-> IF q \in Members(e)
                                    THEN IF pc[q] = "recreate" THEN "itcast"
                                         ELSE IF q \in Orig THEN "step" ELSE "itrecv"
                                    ELSE pc[q]]
      BY Creates
    <3> QED
      BY <3>1, <3>2
  <2>2. UNCHANGED <<old, main, primary>>
    BY <1>5
  <2> QED
    BY <1>1, <1>2, <1>3, <2>1, <2>2
<1>7. Stage' = "settling"
  <2>1. old'[Root(e)] = Newest /\ Newest # 0 /\ Newest' # 0 /\ Newest # Newest'
    BY <1>1, <1>6
  <2> QED
    BY <1>4, <2>1 DEF Stage
<1>8. Computing' /\ Due' = it[Root(e)] + 1 /\ pc'[Lead'] = "itcast" /\ Due' <= Steps
  <2>1. it[Root(e)] \in Nat /\ it[Root(e)] < Steps /\ Steps \in Nat
    BY <1>1, <1>2, Types
  <2> QED
    BY <1>1, <1>4, <1>5, <1>6, <1>7, <2>1 DEF Computing, Due
<1>9. TypeOK'
  <2>1. ASSUME NEW p \in Members(e)
        PROVE  Initial(p, e) \in Seq(0 .. Size)
    <3>1. SetsInv /\ psets \in Seq(Pset) /\ Size \in Nat
      BY Types DEF IInv
    <3>2. Share(e) \in Nat /\ \A i \in 1 .. Share(e) : Rank(p, e) * Share(e) + i \in 1 .. Size
      BY <3>1, Shares
    <3>3. Initial(p, e) = [i \in 1 .. Share(e) |-> Rank(p, e) * Share(e) + i]
      BY DEF Initial
    <3>4. 1 .. Size \subseteq 0 .. Size
      BY <3>1
    <3>5. Initial(p, e) \in [1 .. Share(e) -> 0 .. Size]
      BY <3>2, <3>3, <3>4
    <3> QED
      BY <3>2, <3>5, ListType
  <2> QED
    BY <2>1, CreateTypes
<1>10. PlaceInv'
  <2>1. ASSUME NEW p \in Procs
        PROVE  PlaceOf(p)'
    <3>1. /\ IsMember(p)' <=> p \in Members(e)
          /\ ~ IsSpawned(p)' /\ ~ IsLaunched(p)'
          /\ IsDeparting(p)' <=> p \in Members(Newest) \ Members(e)
      <4>1. Newest' > 0 /\ Newest' - 1 = Newest /\ Len(psets') # Newest' + 1
        BY <1>1, <1>4
      <4>2. Members(Newest - 1)' = Members(Newest)
        BY <1>5, <4>1 DEF Members
      <4> QED
        BY <1>4, <1>7, <4>1, <4>2 DEF IsMember, IsSpawned, IsDeparting, IsLaunched
    <3>2. PlaceOf(p)
      BY DEF IInv, PlaceInv
    <3>3. CASE p \in Members(e)
      <4>1. pc'[p] \in Places(p)'
        BY <1>4, <1>6, <1>7, <3>3 DEF Places
      <4>2. Root(main[p])' = Root(e)
        BY <1>5, <1>6, <3>3 DEF Root
      <4>3. comm'[p] = Newest' /\ main'[p] = Newest'
            /\ old'[p] = (IF Stayed(p)' THEN Newest' - 1 ELSE 0)
        BY <1>1, <1>4, <1>6, <3>3
      <4>4. Stayed(p)' => pc'[p] = "itcast"
        BY <1>4, <1>6, <3>3
      <4>5. primary'[p] <=> p = Root(main[p])'
        BY <1>6, <3>3, <4>2
      <4>6. MemberAt(p)'
        BY <1>7, <4>1, <4>3, <4>4, <4>5 DEF MemberAt
      <4>7. \A d \in 1 .. Newest' : main'[p] >= d
        BY <1>1, <1>6, <3>3
      <4> QED
        BY <3>1, <3>3, <4>6, <4>7 DEF PlaceOf
    <3>4. CASE p \notin Members(e) /\ p \in Members(Newest)
      <4>1. /\ comm'[p] = 0 /\ old'[p] = Newest' - 1 /\ main'[p] = Newest'
            /\ pc'[p] = "gatherS"
        <5>1. /\ comm[p] = 0 /\ old[p] = Newest /\ main[p] = e /\ pc[p] = "gatherS"
          BY <1>2, <3>4
        <5>2. comm'[p] = comm[p] /\ pc'[p] = pc[p] /\ old' = old /\ main' = main
          BY <1>4, <1>5, <3>4
        <5>3. Newest' - 1 = Newest /\ Newest' = e
          BY <1>1
        <5> QED
          BY <5>1, <5>2, <5>3
      <4>2. ~ primary'[p]
        BY <1>1, <1>2, <1>5, <3>4
      <4>3. DepartingAt(p)'
        BY <4>1, <4>2 DEF DepartingAt
      <4>4. \A d \in 1 .. Newest' : main'[p] >= d
        BY <1>1, <4>1
      <4> QED
        BY <3>1, <3>4, <4>3, <4>4 DEF PlaceOf
    <3>5. CASE p \notin Members(e) /\ p \notin Members(Newest)
      <4>1. ~ IsMember(p) /\ ~ IsSpawned(p) /\ ~ IsDeparting(p) /\ ~ IsLaunched(p)
        BY <1>1, <3>5 DEF IsMember, IsSpawned, IsDeparting, IsLaunched
      <4>2. Gone(p)' \/ Unborn(p)'
        BY <1>4, <3>2, <3>5, <4>1 DEF PlaceOf
      <4>3. \A d \in 1 .. Newest' : p \in Members(d)' => main'[p] >= d
        <5>1. \A d \in 1 .. Newest' : d = e \/ d \in 1 .. Newest
          BY <1>1
        <5>2. \A d \in 1 .. Newest : p \in Members(d) => main[p] >= d
          BY <3>2 DEF PlaceOf
        <5> QED
          BY <1>4, <1>5, <3>5, <5>1, <5>2
      <4> QED
        BY <3>1, <3>5, <4>2, <4>3 DEF PlaceOf
    <3> QED
      BY <3>3, <3>4, <3>5
  <2> QED
    BY <2>1 DEF PlaceInv
<1>11. StageInv'
  <2>1. ~ req
    BY <1>1 DEF IInv, StageInv
  <2>2. Newest' # 0 /\ Newest' # 1 /\ Len(psets') = Newest' /\ ~ req'
    BY <1>1, <1>4, <1>5, <2>1
  <2> QED
    BY <1>7, <2>2 DEF StageInv
<1>12. Published /\ ~ Canceled /\ ~ Published' /\ ~ Canceled'
  <2>1. Len(psets') # Newest' + 1
    BY <1>1, <1>4
  <2> QED
    BY <1>1, <1>7, <2>1 DEF Published, Canceled
<1>13. DictInv'
  <2>1. /\ dict \in [0 .. MaxPsets -> Nat]
        /\ \A d \in Len(psets) + 1 .. MaxPsets : dict[d] = 0
        /\ \A d \in 1 .. Newest : dict[d] \in {0, d}
        /\ dict[0] <= Newest + 1
        /\ dict[DeltaAdd(e)] = e
        /\ Added(e) = {} => dict[e] = 0
    BY <1>1, <1>12 DEF IInv, DictInv
  <2>2. dict[e] \in {0, e}
    BY <2>1 DEF DeltaAdd, Added
  <2>3. \A d \in 1 .. Newest' : dict'[d] \in {0, d}
    <3>1. \A d \in 1 .. Newest' : d = e \/ d \in 1 .. Newest
      BY <1>1
    <3> QED
      BY <1>5, <2>1, <2>2, <3>1
  <2>4. dict'[0] <= Newest' /\ dict' \in [0 .. MaxPsets -> Nat]
        /\ \A d \in Len(psets') + 1 .. MaxPsets : dict'[d] = 0
    BY <1>1, <1>4, <1>5, <2>1
  <2>5. Len(psets') # Newest' + 1
    BY <1>1, <1>4
  <2> QED
    BY <1>12, <2>3, <2>4, <2>5 DEF DictInv
<1>14. FinInv'
  <2>1. \A d \in 2 .. Newest - 1 : psets[d].fin = 1
    BY DEF IInv, FinInv
  <2>2. Newest > 1 => psets[Newest].fin = 1
    BY <1>1 DEF IInv, FinInv
  <2>3. psets[e].fin = 0
    BY <1>1, <1>12 DEF IInv, FinInv
  <2>4. \A d \in 2 .. Newest' - 1 : psets'[d].fin = 1
    <3>1. \A d \in 2 .. Newest' - 1 : d \in 2 .. Newest - 1 \/ (d = Newest /\ Newest > 1)
      BY <1>1
    <3> QED
      BY <1>5, <2>1, <2>2, <3>1
  <2>5. psets'[Newest'].fin = 0
    BY <1>1, <1>5, <2>3
  <2>6. Len(psets') # Newest' + 1
    BY <1>1, <1>4
  <2> QED
    BY <1>7, <1>8, <2>4, <2>5, <2>6 DEF FinInv
<1>15. ItInv'
  <2>1. ASSUME NEW p \in Members(e)
        PROVE  ItOf(p)'
    <3>1. pc'[p] \in {"itcast", "itrecv"} /\ (pc'[p] = "itcast" => it'[p] < Steps)
      BY <1>1, <1>2, <1>5, <1>6
    <3> QED
      BY <1>7, <3>1 DEF ItOf, Redistribution
  <2>2. Newest' # 0
    BY <1>1
  <2> QED
    BY <1>4, <1>8, <2>1, <2>2 DEF ItInv
<1>16. LogInv'
  <2>1. log'[Newest'] = <<>> /\ Len(log'[Newest']) = 0 /\ idx'[Lead'] = 0
    BY <1>1, <1>4, <1>5, <1>6
  <2>2. \A p \in Members(e) : idx'[p] = 0 /\ Taken(p)' = 0
    BY <1>6 DEF Taken
  <2>3. log' \in Seq(Seq(Message))
    BY <1>5
  <2> QED
    BY <1>4, <2>1, <2>2, <2>3 DEF LogInv
<1>17. DataInv'
  <2>1. ASSUME NEW p \in Members(Newest), block'[p] = block[p]
        PROVE  Holds(p, Newest - 1)'
    <3>1. /\ Share(Newest - 1)' = Share(Newest)
          /\ Initial(p, Newest - 1)' = Initial(p, Newest)
          /\ Intact(Newest - 1)' <=> Intact(Newest)
      <4>1. Newest' - 1 = Newest /\ psets' = psets
        BY <1>1, <1>5
      <4>2. Intact(Newest - 1)' <=> Intact(Newest)
        BY <4>1 DEF Intact, Root, Exact
      <4>3. Share(Newest - 1)' = Share(Newest)
        BY <4>1 DEF Share, Number
      <4>4. Initial(p, Newest - 1)' = Initial(p, Newest)
        <5>1. Rank(p, Newest - 1)' = Rank(p, Newest)
          BY <4>1 DEF Rank
        <5>2. \A i : i \in 1 .. Share(Newest - 1)' =>
                (Rank(p, Newest - 1)' * Share(Newest - 1)') + i
                  = (Rank(p, Newest) * Share(Newest)) + i
          BY <4>3, <5>1
        <5> QED
          BY <4>3, <5>1, <5>2, Zenon DEF Initial
      <4> QED
        BY <4>2, <4>3, <4>4
    <3>2. Holds(p, Newest)
      BY <1>2
    <3> QED
      BY <2>1, <3>1, <3>2 DEF Holds
  <2>2. ASSUME NEW p \in Members(e)
        PROVE  BlockOf(p)'
    <3>1. CASE p \in Added(e)
      BY <1>6, <1>8, <3>1 DEF BlockOf
    <3>2. CASE p \notin Added(e)
      <4>1. Holds(p, Newest - 1)'
        BY <1>6, <2>1, <3>2
      <4> QED
        BY <1>6, <1>8, <3>2, <4>1 DEF BlockOf
    <3> QED
      BY <3>1, <3>2
  <2>3. ASSUME NEW p \in Procs, IsDeparting(p)'
        PROVE  Holds(p, Newest - 1)'
    <3>1. Members(Newest - 1)' = Members(Newest)
      <4>1. Newest' - 1 = Newest /\ psets' = psets
        BY <1>1, <1>5
      <4> QED
        BY <4>1 DEF Members
    <3>2. p \in Members(Newest) \ Members(e)
      BY <1>4, <2>3, <3>1 DEF IsDeparting
    <3> QED
      BY <1>4, <2>1, <3>2
  <2>4. gathered' \in [Procs -> Array \cup {<<>>}]
    BY <1>5, Types
  <2> QED
    BY <1>4, <1>8, <2>2, <2>3, <2>4 DEF DataInv
<1> QED
  BY <1>4, <1>9, <1>10, <1>11, <1>13, <1>14, <1>15, <1>16, <1>17 DEF IInv

\* A communicator is made, the first or the next one.
LEMMA CreateCommKeeps ==
  ASSUME IInv, NEW e \in Epochs, CreateComm(e)
  PROVE  IInv'
<1>1. Newest \in Nat
  BY Types
<1>2. Newest = 0 \/ Newest > 0
  BY <1>1
<1> QED
  BY <1>2, CreateFirst, CreateNext

-----------------------------------------------------------------------------
(* The runtime executes an operation. *)

\* One listing after another of other elements.
LEMMA Behind ==
  ASSUME NEW S, NEW a \in Seq(S), NEW b \in Seq(S), a # <<>>,
         IsInjective(a), IsInjective(b), ToSet(a) \cap ToSet(b) = {}
  PROVE  /\ a \o b \in Seq(S) /\ a \o b # <<>> /\ IsInjective(a \o b)
         /\ ToSet(a \o b) = ToSet(a) \cup ToSet(b)
         /\ Len(a \o b) = Len(a) + Len(b) /\ Head(a \o b) = Head(a) /\ Head(a) \in ToSet(a)
<1> DEFINE c == a \o b
           m == Len(a)
           n == Len(b)
<1>1. /\ c \in Seq(S) /\ Len(c) = m + n /\ m \in Nat /\ n \in Nat /\ m > 0
      /\ DOMAIN a = 1 .. m /\ DOMAIN b = 1 .. n /\ DOMAIN c = 1 .. m + n
      /\ Head(a) = a[1]
  OBVIOUS
<1>2. /\ \A i \in 1 .. m : c[i] = a[i]
      /\ \A j \in 1 .. n : c[m + j] = b[j]
  OBVIOUS
<1>3. Head(c) = c[1] /\ c # <<>>
  OBVIOUS
<1> HIDE DEF c, m, n
<1>4. \A k \in 1 .. m + n : k \in 1 .. m \/ (k - m \in 1 .. n /\ m + (k - m) = k)
  BY <1>1
<1>5. \A k \in 1 .. m + n : \/ k \in 1 .. m /\ c[k] = a[k]
                            \/ k - m \in 1 .. n /\ c[k] = b[k - m]
  <2>1. ASSUME NEW k \in 1 .. m + n
        PROVE  \/ k \in 1 .. m /\ c[k] = a[k]
               \/ k - m \in 1 .. n /\ c[k] = b[k - m]
    <3>1. CASE k \in 1 .. m
      BY <1>2, <3>1
    <3>2. CASE k - m \in 1 .. n /\ m + (k - m) = k
      <4>1. c[m + (k - m)] = b[k - m]
        BY <1>2, <3>2
      <4> QED
        BY <3>2, <4>1
    <3> QED
      BY <1>4, <3>1, <3>2
  <2> QED
    BY <2>1
<1>6. ToSet(c) \subseteq ToSet(a) \cup ToSet(b)
  BY <1>1, <1>5 DEF ToSet
<1>7. ToSet(a) \subseteq ToSet(c)
  <2>1. \A i \in 1 .. m : i \in 1 .. m + n
    BY <1>1
  <2> QED
    BY <1>1, <1>2, <2>1 DEF ToSet
<1>8. ToSet(b) \subseteq ToSet(c)
  <2>1. ASSUME NEW x \in ToSet(b)
        PROVE  x \in ToSet(c)
    <3>1. PICK j \in 1 .. n : x = b[j]
      BY <1>1 DEF ToSet
    <3>2. m + j \in 1 .. m + n /\ c[m + j] = x
      BY <1>1, <1>2, <3>1
    <3> QED
      BY <1>1, <3>2 DEF ToSet
  <2> QED
    BY <2>1
<1>9. IsInjective(c)
  <2>1. SUFFICES ASSUME NEW k \in 1 .. m + n, NEW l \in 1 .. m + n, c[k] = c[l]
                 PROVE  k = l
    BY <1>1 DEF IsInjective
  <2>2. /\ \A i, j \in 1 .. m : a[i] = a[j] => i = j
        /\ \A i, j \in 1 .. n : b[i] = b[j] => i = j
        /\ \A i \in 1 .. m : \A j \in 1 .. n : a[i] # b[j]
    <3>1. \A i, j \in 1 .. m : a[i] = a[j] => i = j
      BY <1>1 DEF IsInjective
    <3>2. \A i, j \in 1 .. n : b[i] = b[j] => i = j
      BY <1>1 DEF IsInjective
    <3>3. \A i \in 1 .. m : a[i] \in ToSet(a)
      BY <1>1, Zenon DEF ToSet
    <3>4. \A j \in 1 .. n : b[j] \in ToSet(b)
      BY <1>1, Zenon DEF ToSet
    <3>5. ASSUME NEW i \in 1 .. m, NEW j \in 1 .. n
          PROVE  a[i] # b[j]
      BY <3>3, <3>4, Zenon
    <3> QED
      BY <3>1, <3>2, <3>5
  <2>3. k - m = l - m => k = l
    BY <1>1
  <2> QED
    BY <1>5, <2>1, <2>2, <2>3
<1>10. 1 \in 1 .. m /\ c[1] = a[1] /\ Head(a) \in ToSet(a)
  <2>1. 1 \in 1 .. m
    BY <1>1
  <2> QED
    BY <1>1, <1>2, <2>1 DEF ToSet
<1>11. ToSet(c) = ToSet(a) \cup ToSet(b)
  BY <1>6, <1>7, <1>8
<1>12. /\ c \in Seq(S) /\ c # <<>> /\ IsInjective(c) /\ ToSet(c) = ToSet(a) \cup ToSet(b)
       /\ Len(c) = m + n /\ Head(c) = Head(a) /\ Head(a) \in ToSet(a)
  BY <1>1, <1>3, <1>9, <1>10, <1>11
<1> QED
  BY <1>12 DEF c, m, n

\* A process that was not used is in no set.
LEMMA FreshOnes ==
  ASSUME IInv
  PROVE  /\ Fresh \subseteq Procs /\ \A p \in Fresh : Unborn(p) /\ pc[p] = "off"
         /\ \A e \in Epochs : Fresh \cap Members(e) = {}
         /\ 1 \notin Fresh
<1>1. Fresh \subseteq Procs /\ \A p \in Fresh : Unborn(p) /\ pc[p] = "off"
  BY Where DEF Fresh
<1>2. \A e \in Epochs : Fresh \cap Members(e) = {}
  BY <1>1 DEF Unborn
<1>3. 1 \in Members(1) /\ 1 \in Epochs
  <2>1. Cardinality(Procs) \in Nat
    BY ProcsAssumption, FS_CardinalityType
  <2>2. 1 \in Orig
    BY <2>1, ProcsAssumption, OrigAssumption DEF Orig
  <2> QED
    BY <2>2, Stages
<1> QED
  BY <1>1, <1>2, <1>3

\* What the runtime makes of set e.
IsGrant(g, e) ==
  /\ g \in Pset /\ g.fin = 0
  /\ g.members # <<>> /\ IsInjective(g.members) /\ Len(g.members) \in Sizes
  /\ g.added \subseteq Fresh /\ g.added \subseteq ToSet(g.members)
  /\ Head(g.members) \notin g.added
  /\ g.removed = Members(e) \ ToSet(g.members)
  /\ ToSet(g.members) = (Members(e) \ g.removed) \cup g.added
  /\ g.added = {} <=> g.removed # {}
  /\ 1 \in ToSet(g.members) => Head(g.members) = 1

\* A larger set.
LEMMA GrantsLarger ==
  ASSUME IInv, NEW e \in Epochs, NEW n \in Sizes, Number(e) < n,
         NEW add, add = Unused(n - Number(e)), Cardinality(add) = n - Number(e),
         NEW s \in Ordered(add, [q \in add |-> q])
  PROVE  IsGrant(NewPset(psets[e].members \o s, add, {}), e)
<1> DEFINE ms == psets[e].members
           g == NewPset(ms \o s, add, {})
<1>1. psets \in Seq(Pset) /\ SetsInv /\ e \in Nat /\ psets[e] \in Pset
  BY Types DEF IInv, Epochs
<1>2. /\ Number(e) \in Nat /\ Number(e) > 0 /\ Members(e) \subseteq Procs /\ ms \in Seq(Procs)
      /\ ms # <<>> /\ IsInjective(ms) /\ n \in Nat /\ (1 \in Members(e) => Root(e) = 1)
  BY <1>1, Ranks, SizesAssumption DEF SetsInv, IsMainSet, Pset
<1>3. /\ add \subseteq Fresh /\ add \subseteq Procs /\ IsFiniteSet(add) /\ add # {}
      /\ add \cap Members(e) = {} /\ 1 \notin add
  <2>1. add \subseteq Fresh
    BY DEF Unused
  <2>2. add \subseteq Procs /\ add \cap Members(e) = {} /\ 1 \notin add
    BY <2>1, FreshOnes
  <2>3. IsFiniteSet(add)
    BY <2>2, ProcsAssumption, FS_Subset
  <2>4. n - Number(e) # 0
    BY <1>2
  <2> QED
    BY <2>1, <2>2, <2>3, <2>4, FS_EmptySet
<1>4. s \in Seq(add) /\ IsInjective(s) /\ ToSet(s) = add /\ Len(s) = n - Number(e)
  <2>1. \A q \in add : [r \in add |-> r][q] \in Int
    <3>1. Cardinality(Procs) \in Nat
      BY ProcsAssumption, FS_CardinalityType
    <3>2. \A q \in Procs : q \in Int
      BY <3>1, ProcsAssumption
    <3> QED
      BY <1>3, <3>2
  <2>2. \A q \in add : q \in Int
    BY <2>1
  <2> QED
    BY <1>3, <2>1, Listing
<1>5. s \in Seq(Procs)
  BY <1>3, <1>4
<1>6. ms \in Seq(Procs) /\ s \in Seq(Procs) /\ ToSet(ms) \cap ToSet(s) = {} /\ ToSet(ms) = Members(e)
  BY <1>2, <1>3, <1>4, <1>5 DEF Members
<1>7. /\ ms \o s \in Seq(Procs) /\ ms \o s # <<>> /\ IsInjective(ms \o s)
      /\ ToSet(ms \o s) = Members(e) \cup add
      /\ Len(ms \o s) = Len(ms) + Len(s) /\ Head(ms \o s) = Head(ms) /\ Head(ms) \in Members(e)
  <2> HIDE DEF ms
  <2> QED
    BY SMTT(30), <1>2, <1>4, <1>6, Behind
<1>8. Len(ms \o s) = n
  BY <1>2, <1>4, <1>7 DEF Number
<1>9. 1 \in Members(e) \cup add => Head(ms \o s) = 1
  BY <1>2, <1>3, <1>7 DEF Root
<1>10. /\ g.members = ms \o s /\ g.added = add /\ g.removed = {} /\ g.fin = 0
       /\ g \in Pset
  BY <1>3, <1>7 DEF NewPset, Pset
<1> HIDE DEF ms, g
<1>11. IsGrant(g, e)
  BY <1>3, <1>7, <1>8, <1>9, <1>10 DEF IsGrant
<1> QED
  BY <1>11 DEF g, ms

\* A smaller one.
LEMMA GrantsSmaller ==
  ASSUME IInv, NEW e \in Epochs, NEW sub \in SUBSET Members(e), sub # {},
         Cardinality(Members(e) \ sub) \in Sizes,
         NEW s \in Ordered(Members(e) \ sub, [q \in Members(e) |-> Rank(q, e)])
  PROVE  IsGrant(NewPset(s, {}, sub), e)
<1> DEFINE stay == Members(e) \ sub
           key == [q \in Members(e) |-> Rank(q, e)]
           g == NewPset(s, {}, sub)
<1>1. psets \in Seq(Pset) /\ SetsInv
  BY Types DEF IInv
<1>2. /\ Members(e) \subseteq Procs /\ (1 \in Members(e) => Root(e) = 1)
      /\ \A p \in Members(e) : Rank(p, e) \in Nat /\ (Rank(p, e) = 0 <=> p = Root(e))
  <2>1. Number(e) \in Nat
    BY <1>1, Ranks
  <2> QED
    BY <1>1, <2>1, Ranks DEF SetsInv, IsMainSet
<1>3. IsFiniteSet(stay) /\ stay # {} /\ stay \subseteq Members(e) /\ Members(e) \ stay = sub
  <2>1. IsFiniteSet(stay)
    BY <1>2, ProcsAssumption, FS_Subset
  <2>2. Cardinality(stay) # 0
    BY SizesAssumption
  <2> QED
    BY <2>1, <2>2, FS_EmptySet
<1>4. \A p \in stay : key[p] = Rank(p, e) /\ key[p] \in Int
  BY <1>2, <1>3
<1> HIDE DEF stay, key
<1>5. /\ s \in Seq(stay) /\ IsInjective(s) /\ ToSet(s) = stay /\ Len(s) = Cardinality(stay)
      /\ s # <<>> /\ \A x \in stay : key[Head(s)] <= key[x]
  <2>1. s \in Ordered(stay, key)
    BY DEF stay, key
  <2> QED
    BY <1>3, <1>4, <2>1, Listing
<1>6. s \in Seq(Procs) /\ Head(s) \in stay
  BY <1>2, <1>3, <1>5
<1>7. 1 \in stay => Head(s) = 1
  <2>1. SUFFICES ASSUME 1 \in stay
                 PROVE  Head(s) = 1
    OBVIOUS
  <2>2. Root(e) = 1 /\ 1 \in Members(e) /\ Head(s) \in Members(e)
    BY <1>2, <1>3, <1>6, <2>1
  <2>3. key[1] = 0 /\ key[Head(s)] <= key[1] /\ key[Head(s)] = Rank(Head(s), e)
    BY <1>2, <1>4, <1>5, <1>6, <2>1, <2>2
  <2>4. Rank(Head(s), e) = 0
    BY <1>2, <2>2, <2>3
  <2> QED
    BY <1>2, <2>2, <2>4
<1>8. Len(s) \in Sizes /\ stay = (Members(e) \ sub) \cup {}
  BY <1>5 DEF stay
<1>9. /\ g.members = s /\ g.added = {} /\ g.removed = sub /\ g.fin = 0
      /\ g \in Pset
  BY <1>2, <1>6 DEF NewPset, Pset
<1> HIDE DEF g
<1>10. IsGrant(g, e)
  BY <1>3, <1>5, <1>7, <1>8, <1>9 DEF IsGrant
<1> QED
  BY <1>10 DEF g

\* The runtime keeps its rules, whichever operation it chooses.
LEMMA GrantsAre ==
  ASSUME IInv, NEW g \in Grants
  PROVE  IsGrant(g, Len(psets))
<1> DEFINE e == Len(psets)
           Add(n) == Unused(n - Number(e))
           Larger(n) == {NewPset(psets[e].members \o s, Add(n), {}) :
                           s \in Ordered(Add(n), [q \in Add(n) |-> q])}
           Smaller(sub) == {NewPset(s, {}, sub) :
                              s \in Ordered(Members(e) \ sub, [q \in Members(e) |-> Rank(q, e)])}
           L == {n \in Sizes : Number(e) < n /\ Cardinality(Add(n)) = n - Number(e)}
           S == {sub \in SUBSET Members(e) :
                   sub # {} /\ Cardinality(Members(e) \ sub) \in Sizes}
<1>1. e \in Epochs
  BY Types DEF Epochs
<1>2. g \in (UNION {Larger(n) : n \in L}) \cup (UNION {Smaller(sub) : sub \in S})
  BY Zenon DEF Grants, Number
<1>3. ASSUME NEW n \in L, g \in Larger(n)
      PROVE  IsGrant(g, e)
  <2>1. n \in Sizes /\ Number(e) < n /\ Cardinality(Add(n)) = n - Number(e)
    BY DEF L
  <2>2. PICK s \in Ordered(Add(n), [q \in Add(n) |-> q]) :
          g = NewPset(psets[e].members \o s, Add(n), {})
    BY <1>3
  <2>3. Add(n) = Unused(n - Number(e))
    OBVIOUS
  <2> HIDE DEF e, Add
  <2> QED
    BY <1>1, <2>1, <2>2, <2>3, GrantsLarger
<1>4. ASSUME NEW sub \in S, g \in Smaller(sub)
      PROVE  IsGrant(g, e)
  <2>1. PICK s \in Ordered(Members(e) \ sub, [q \in Members(e) |-> Rank(q, e)]) :
          g = NewPset(s, {}, sub)
    BY <1>4
  <2>2. sub \in SUBSET Members(e) /\ sub # {} /\ Cardinality(Members(e) \ sub) \in Sizes
    BY DEF S
  <2> HIDE DEF e
  <2> QED
    BY <1>1, <2>1, <2>2, GrantsSmaller
<1> HIDE DEF Larger, Smaller, L, S
<1>5. (\E n \in L : g \in Larger(n)) \/ (\E sub \in S : g \in Smaller(sub))
  <2> DEFINE A == {Larger(n) : n \in L}
             B == {Smaller(sub) : sub \in S}
  <2>1. /\ \A H \in A : \E n \in L : H = Larger(n)
        /\ \A H \in B : \E sub \in S : H = Smaller(sub)
    OBVIOUS
  <2>2. g \in (UNION A) \cup (UNION B)
    BY <1>2
  <2> HIDE DEF A, B
  <2>3. (\E H \in A : g \in H) \/ (\E H \in B : g \in H)
    BY <2>2
  <2> QED
    BY <2>1, <2>3, Zenon
<1> QED
  BY <1>3, <1>4, <1>5

\* What is executed, and when.
LEMMA Executes ==
  ASSUME IInv, Execute
  PROVE  /\ Stage = "steady" /\ Newest > 0 /\ Newest \in Nat /\ Len(psets) = Newest
         /\ Newest < MaxPsets /\ pc[Lead] \in {"step", "query", "cancel"} /\ asked[Lead]
         /\ ~ req' /\ UNCHANGED <<dict, ack, log, comm, old, new, main, asked, it, idx, block, gathered>>
         /\ \E g : /\ IsGrant(g, Newest) /\ psets' = Append(psets, g)
                   /\ pc' = [q \in Procs |-> IF q \in g.added THEN "waiting" ELSE pc[q]]
                   /\ \A q \in Procs \ g.added : primary'[q] = primary[q]
                   /\ primary' \in [Procs -> BOOLEAN]
<1>1. /\ req /\ Len(psets) < MaxPsets /\ req' = FALSE
      /\ UNCHANGED <<dict, ack, log, comm, old, new, main, asked, it, idx, block, gathered>>
  BY DEF Execute, commVars, dataVars
<1>2. PICK g \in Grants :
        /\ psets' = Append(psets, g)
        /\ pc' = [q \in Procs |-> IF q \in g.added THEN "waiting" ELSE pc[q]]
        /\ primary' = [q \in Procs |-> IF q \in g.added THEN \A r \in g.added : q <= r
                                       ELSE primary[q]]
  BY DEF Execute
<1>3. Stage = "steady" /\ Len(psets) = Newest /\ pc[Lead] \in {"step", "query", "cancel"}
      /\ asked[Lead]
  BY <1>1 DEF IInv, StageInv
<1>4. Newest > 0 /\ Newest \in Nat
  BY <1>3, Types, Stages
<1>5. IsGrant(g, Newest)
  BY <1>3, GrantsAre
<1>6. \A q \in Procs \ g.added : primary'[q] = primary[q]
  BY <1>2
<1>7. primary' \in [Procs -> BOOLEAN]
  <2>1. primary \in [Procs -> BOOLEAN]
    BY Types
  <2>2. ASSUME NEW q \in Procs
        PROVE  (IF q \in g.added THEN \A r \in g.added : q <= r ELSE primary[q]) \in BOOLEAN
    <3>1. (\A r \in g.added : q <= r) \in BOOLEAN
      OBVIOUS
    <3>2. primary[q] \in BOOLEAN
      BY <2>1
    <3> QED
      BY <3>1, <3>2, Zenon
  <2> QED
    BY <1>2, <2>2, Zenon
<1> QED
  BY <1>1, <1>2, <1>3, <1>4, <1>5, <1>6, <1>7

\* The earlier sets stay as they are, the new one is a main set.
LEMMA ExecuteSets ==
  ASSUME IInv, Newest > 0, Len(psets) = Newest, Newest < MaxPsets, log' = log,
         NEW g, IsGrant(g, Newest), psets' = Append(psets, g)
  PROVE  /\ SetsInv' /\ psets' \in Seq(Pset) /\ Len(psets') = Newest + 1 /\ Newest' = Newest
         /\ Epochs' = Epochs \cup {Newest + 1} /\ Epochs = 1 .. Newest
         /\ \A e \in Epochs :
              /\ psets'[e] = psets[e] /\ Members(e)' = Members(e) /\ Root(e)' = Root(e)
              /\ Added(e)' = Added(e) /\ Share(e)' = Share(e)
              /\ Intact(e)' <=> Intact(e)
              /\ \A p : Initial(p, e)' = Initial(p, e)
         /\ psets'[Newest + 1] = g /\ Members(Newest + 1)' = ToSet(g.members)
         /\ Added(Newest + 1)' = g.added
<1>1. /\ psets \in Seq(Pset) /\ Newest \in Nat /\ SetsInv /\ g \in Pset /\ Epochs = 1 .. Newest
      /\ MaxPsets \in Nat
  BY Types DEF IInv, IsGrant, Epochs
<1>2. /\ psets' \in Seq(Pset) /\ Len(psets') = Newest + 1 /\ psets'[Newest + 1] = g
      /\ \A e \in Epochs : psets'[e] = psets[e]
  BY <1>1
<1>3. Newest' = Newest /\ Epochs' = Epochs \cup {Newest + 1}
  <2>1. Epochs' = 1 .. Newest + 1
    BY <1>2 DEF Epochs
  <2> QED
    BY <1>1, <2>1 DEF Newest
<1>4. ASSUME NEW e \in Epochs
      PROVE  /\ Members(e)' = Members(e) /\ Root(e)' = Root(e) /\ Added(e)' = Added(e)
             /\ Number(e)' = Number(e) /\ Share(e)' = Share(e)
             /\ Intact(e)' <=> Intact(e)
             /\ \A p : Initial(p, e)' = Initial(p, e)
  <2>1. psets'[e] = psets[e]
    BY <1>2
  <2>2. Members(e)' = Members(e) /\ Root(e)' = Root(e) /\ Added(e)' = Added(e)
        /\ Number(e)' = Number(e)
    BY <2>1 DEF Members, Root, Added, Number
  <2>3. Share(e)' = Share(e) /\ (Intact(e)' <=> Intact(e))
    BY <2>2 DEF Share, Intact, Exact
  <2>4. \A p : Rank(p, e)' = Rank(p, e)
    BY <2>1 DEF Rank
  <2>5. \A p : Initial(p, e)' = Initial(p, e)
    BY <2>3, <2>4 DEF Initial
  <2> QED
    BY <2>2, <2>3, <2>5
<1>5. ASSUME NEW e \in Epochs
      PROVE  IsMainSet(e)'
  <2>1. e \in Nat /\ e > 0 /\ \A d \in 1 .. e - 1 : d \in Epochs
    BY <1>1
  <2>2. e > 1 => e - 1 \in Epochs
    BY <1>1
  <2>3. IsMainSet(e) /\ psets'[e] = psets[e]
    BY <1>1, <1>2 DEF SetsInv
  <2>4. \A d \in 1 .. e - 1 : Added(e)' \cap Members(d)' = {}
    BY <1>4, <2>1, <2>3 DEF IsMainSet
  <2>5. e > 1 =>
          /\ Root(e)' \notin Added(e)'
          /\ psets'[e].removed = Members(e - 1)' \ Members(e)'
          /\ Members(e)' = (Members(e - 1)' \ psets'[e].removed) \cup Added(e)'
          /\ Added(e)' = {} <=> psets'[e].removed # {}
    BY <1>4, <2>2, <2>3 DEF IsMainSet
  <2>6. /\ psets'[e].members # <<>> /\ IsInjective(psets'[e].members) /\ Number(e)' \in Sizes
        /\ Added(e)' \subseteq Members(e)'
        /\ 1 \in Members(e)' => Root(e)' = 1
    BY <1>4, <2>3 DEF IsMainSet
  <2> QED
    BY <2>4, <2>5, <2>6 DEF IsMainSet
<1>6. /\ Members(Newest + 1)' = ToSet(g.members) /\ Added(Newest + 1)' = g.added
      /\ Root(Newest + 1)' = Head(g.members) /\ Number(Newest + 1)' = Len(g.members)
  <2>1. Newest' = Newest
    BY <1>3
  <2> QED
    BY <1>2, <2>1 DEF Members, Added, Root, Number
<1>7. \A e \in Epochs' : IsMainSet(e)'
  <2> DEFINE n == Newest + 1
  <2>1. /\ psets'[n] = g /\ n > 1 /\ n - 1 = Newest /\ n - 1 \in Epochs
        /\ n \in Nat /\ \A d \in 1 .. n - 1 : d \in Epochs
    BY <1>1, <1>2
  <2>2. ASSUME NEW e, e = n
        PROVE  IsMainSet(e)'
    <3>1. /\ Members(e)' = ToSet(g.members) /\ Added(e)' = g.added
          /\ Root(e)' = Head(g.members) /\ Number(e)' = Len(g.members) /\ psets'[e] = g
      BY <2>1, <2>2 DEF Members, Added, Root, Number
    <3>2. \A d \in 1 .. e - 1 : Added(e)' \cap Members(d)' = {}
      <4>1. g.added \subseteq Fresh
        BY DEF IsGrant
      <4> QED
        BY <1>4, <2>1, <2>2, <3>1, <4>1, FreshOnes
    <3>3. Members(e - 1)' = Members(Newest)
      BY <1>4, <2>1, <2>2
    <3>4. /\ Root(e)' \notin Added(e)'
          /\ psets'[e].removed = Members(e - 1)' \ Members(e)'
          /\ Members(e)' = (Members(e - 1)' \ psets'[e].removed) \cup Added(e)'
          /\ Added(e)' = {} <=> psets'[e].removed # {}
      BY <3>1, <3>3 DEF IsGrant
    <3>5. /\ psets'[e].members # <<>> /\ IsInjective(psets'[e].members) /\ Number(e)' \in Sizes
          /\ Added(e)' \subseteq Members(e)'
          /\ 1 \in Members(e)' => Root(e)' = 1
      BY <3>1 DEF IsGrant
    <3> QED
      BY <3>2, <3>4, <3>5 DEF IsMainSet
  <2>3. \A e \in Epochs' : e \in Epochs \/ e = n
    BY <1>3
  <2> QED
    BY <1>5, <2>2, <2>3
<1>8. SetsInv'
  <2>1. 1 \in Epochs
    BY <1>1
  <2>2. psets'[1] = psets[1] /\ Added(1)' = Added(1)
    BY <1>2, <1>4, <2>1
  <2>3. /\ psets'[1].members = [i \in Orig |-> i] /\ Added(1)' = {} /\ psets'[1].removed = {}
        /\ Orig' = Orig
    BY <1>1, <2>2 DEF SetsInv, Orig
  <2> QED
    BY <1>1, <1>2, <1>3, <1>7, <2>3 DEF SetsInv
<1> QED
  BY <1>1, <1>2, <1>3, <1>4, <1>6, <1>8

\* The runtime executes an operation, wherever the processes are.
LEMMA ExecuteKeeps ==
  ASSUME IInv, Execute
  PROVE  IInv'
<1>1. /\ Stage = "steady" /\ Newest > 0 /\ Newest \in Nat /\ Len(psets) = Newest
      /\ Newest < MaxPsets /\ pc[Lead] \in {"step", "query", "cancel"} /\ asked[Lead]
      /\ ~ req' /\ UNCHANGED <<dict, ack, log, comm, old, new, main, asked, it, idx, block, gathered>>
  BY Executes
<1>2. PICK g : /\ IsGrant(g, Newest) /\ psets' = Append(psets, g)
               /\ pc' = [q \in Procs |-> IF q \in g.added THEN "waiting" ELSE pc[q]]
               /\ \A q \in Procs \ g.added : primary'[q] = primary[q]
               /\ primary' \in [Procs -> BOOLEAN]
  BY Executes
<1>3. /\ SetsInv' /\ psets' \in Seq(Pset) /\ Len(psets') = Newest + 1 /\ Newest' = Newest
      /\ Epochs' = Epochs \cup {Newest + 1} /\ Epochs = 1 .. Newest
      /\ \A e \in Epochs :
           /\ psets'[e] = psets[e] /\ Members(e)' = Members(e) /\ Root(e)' = Root(e)
           /\ Added(e)' = Added(e) /\ Share(e)' = Share(e)
           /\ Intact(e)' <=> Intact(e)
           /\ \A p : Initial(p, e)' = Initial(p, e)
      /\ psets'[Newest + 1] = g /\ Members(Newest + 1)' = ToSet(g.members)
      /\ Added(Newest + 1)' = g.added
  BY <1>1, <1>2, ExecuteSets
<1>4. /\ Newest \in Epochs /\ Lead \in Members(Newest) /\ Members(Newest) \subseteq Procs
      /\ g.added \subseteq Procs /\ \A p \in g.added : Unborn(p) /\ pc[p] = "off"
      /\ \A e \in Epochs : g.added \cap Members(e) = {}
  BY <1>1, <1>2, FreshOnes, Stages DEF IsGrant
<1>5. /\ \A p \in g.added : pc'[p] = "waiting"
      /\ \A p \in Procs \ g.added : pc'[p] = pc[p] /\ primary'[p] = primary[p]
      /\ \A p \in Members(Newest) : p \in Procs \ g.added
  BY <1>2, <1>4
<1>6. /\ Members(Newest)' = Members(Newest) /\ Lead' = Lead /\ Added(Newest)' = Added(Newest)
      /\ Share(Newest)' = Share(Newest)
      /\ Intact(Newest)' <=> Intact(Newest)
  <2>1. psets'[Newest'] = psets[Newest] /\ Newest' = Newest
    BY <1>3, <1>4
  <2>2. Members(Newest)' = Members(Newest) /\ Lead' = Lead /\ Added(Newest)' = Added(Newest)
        /\ Share(Newest)' = Share(Newest)
    BY <2>1 DEF Members, Lead, Root, Added, Share, Number
  <2>3. Intact(Newest)' <=> Intact(Newest)
    BY <2>1 DEF Intact, Root, Exact
  <2> QED
    BY <2>2, <2>3
<1>7. /\ Stage' = "steady" /\ Computing' /\ Computing /\ pc'[Lead'] = pc[Lead] /\ Due' = Due
      /\ \A p : Stayed(p)' <=> Stayed(p)
      /\ Redistribution' = Redistribution
  <2>1. pc'[Lead] = pc[Lead]
    BY <1>4, <1>5
  <2>2. Stage' = "steady" /\ pc'[Lead'] = pc[Lead]
    BY <1>1, <1>3, <1>6, <2>1 DEF Stage
  <2>3. Due' = Due
    BY <1>1, <1>6, <2>1, <2>2 DEF Due
  <2> QED
    BY <1>1, <1>3, <1>6, <2>2, <2>3 DEF Computing, Stayed, Redistribution
<1>8. ~ Published' /\ ~ Published /\ ~ Canceled' /\ ~ Canceled
  BY <1>1, <1>7 DEF Published, Canceled
<1>9. TypeOK'
  <2>1. TypeOK /\ Len(log) = Newest
    BY DEF IInv, Newest
  <2>2. 0 .. Len(psets) \subseteq 0 .. Len(psets') /\ Len(log') <= Len(psets')
    BY <1>1, <1>3, <2>1
  <2>3. pc' \in [Procs -> Locations]
    <3>1. pc \in [Procs -> Locations] /\ "waiting" \in Locations
      BY <2>1 DEF TypeOK, Locations
    <3> QED
      BY <1>2, <3>1
  <2>4. /\ dict' \in [0 .. MaxPsets -> Epochs' \cup {0, Finalized}] /\ ack' \subseteq Epochs'
        /\ main' \in [Procs -> 0 .. Len(psets')]
    <3>1. /\ dict \in [0 .. MaxPsets -> Epochs \cup {0, Finalized}] /\ ack \subseteq Epochs
          /\ main \in [Procs -> 0 .. Len(psets)]
      BY <2>1 DEF TypeOK
    <3>2. Epochs \subseteq Epochs' /\ dict' = dict /\ ack' = ack /\ main' = main
      BY <1>1, <1>3
    <3> QED
      BY <2>2, <3>1, <3>2
  <2>5. req' \in BOOLEAN
    BY <1>2 DEF Execute
  <2>6. /\ comm' \in [Procs -> 0 .. Len(log')] /\ old' \in [Procs -> 0 .. Len(log')]
        /\ new' \in [Procs -> 0 .. Len(log')] /\ asked' \in [Procs -> BOOLEAN]
        /\ it' \in [Procs -> 0 .. Steps + 1] /\ idx' \in [Procs -> Nat]
        /\ block' \in [Procs -> Seq(0 .. Size)] /\ gathered' \in [Procs -> Seq(0 .. Size)]
    BY <1>1, <2>1 DEF TypeOK
  <2> QED
    BY <1>2, <1>3, <2>2, <2>3, <2>4, <2>5, <2>6 DEF TypeOK, Pset
<1>10. PlaceInv'
  <2>1. ASSUME NEW p \in Procs
        PROVE  PlaceOf(p)'
    <3>1. /\ IsMember(p)' <=> p \in Members(Newest)
          /\ IsSpawned(p)' <=> p \in g.added
          /\ ~ IsDeparting(p)' /\ ~ IsLaunched(p)'
      <4>1. Added(Newest + 1)' = g.added
        BY <1>3
      <4>2. IsSpawned(p)' <=> p \in Added(Newest + 1)'
        BY <1>1, <1>3 DEF IsSpawned
      <4> QED
        BY <1>1, <1>3, <1>6, <1>7, <4>1, <4>2 DEF IsMember, IsDeparting, IsLaunched
    <3>2. PlaceOf(p)
      BY DEF IInv, PlaceInv
    <3>3. ~ IsSpawned(p) /\ ~ IsDeparting(p) /\ ~ IsLaunched(p)
          /\ (IsMember(p) <=> p \in Members(Newest))
      BY <1>1 DEF IsMember, IsSpawned, IsDeparting, IsLaunched
    <3>4. \A d \in 1 .. Newest' : p \in Members(d)' => main'[p] >= d
      <4>1. \A d \in 1 .. Newest : p \in Members(d) => main[p] >= d
        BY <3>2 DEF PlaceOf
      <4> QED
        BY <1>1, <1>3, <4>1
    <3>5. CASE p \in Members(Newest)
      <4>1. MemberAt(p) /\ p \notin g.added /\ pc'[p] = pc[p] /\ primary'[p] = primary[p]
        BY <1>5, <3>2, <3>3, <3>5 DEF PlaceOf
      <4>2. main[p] = Newest /\ main' = main
        BY <1>1, <4>1 DEF MemberAt
      <4>3. Root(main[p])' = Root(main[p])
        <5>1. psets'[Newest] = psets[Newest]
          BY <1>3, <1>4
        <5> QED
          BY <4>2, <5>1 DEF Root
      <4>4. pc'[p] \in Places(p)'
        <5>1. pc[p] \in Places(p)
          BY <4>1 DEF MemberAt
        <5> QED
          BY <1>1, <1>6, <1>7, <4>1, <5>1 DEF Places
      <4>5. /\ comm'[p] = Newest' /\ main'[p] = Newest' /\ old'[p] = 0
            /\ primary'[p] <=> p = Root(main[p])'
        BY <1>1, <1>3, <4>1, <4>2, <4>3 DEF MemberAt
      <4>6. MemberAt(p)'
        BY <1>7, <4>4, <4>5 DEF MemberAt
      <4> QED
        BY <3>1, <3>4, <3>5, <4>1, <4>6 DEF PlaceOf
    <3>6. CASE p \in g.added
      <4>1. Unborn(p) /\ pc'[p] = "waiting" /\ p \notin Members(Newest)
        BY <1>4, <1>5, <3>6
      <4>2. SpawnedAt(p)'
        BY <1>1, <4>1 DEF SpawnedAt, Unborn
      <4> QED
        BY <3>1, <3>4, <3>6, <4>1, <4>2 DEF PlaceOf
    <3>7. CASE p \notin Members(Newest) /\ p \notin g.added
      <4>1. Gone(p) \/ Unborn(p)
        BY <3>2, <3>3, <3>7 DEF PlaceOf
      <4>2. pc'[p] = pc[p] /\ primary'[p] = primary[p]
        BY <1>5, <3>7
      <4>3. Gone(p) => Gone(p)'
        <5>1. SUFFICES ASSUME Gone(p)
                       PROVE  Gone(p)'
          OBVIOUS
        <5>2. main[p] \in Epochs /\ main' = main
          BY <1>1, <1>3, <5>1 DEF Gone
        <5>3. psets'[main[p]] = psets[main[p]]
          BY <1>3, <5>2
        <5>4. Members(main[p])' = Members(main[p])
          BY <5>2, <5>3 DEF Members
        <5> QED
          BY <1>1, <1>3, <4>2, <5>1, <5>4 DEF Gone
      <4>4. Unborn(p) => Unborn(p)'
        <5>1. SUFFICES ASSUME Unborn(p)
                       PROVE  Unborn(p)'
          OBVIOUS
        <5>2. p \notin ToSet(g.members)
          BY <1>2, <3>7 DEF IsGrant
        <5>3. p \notin Members(Newest + 1)'
          BY <1>3, <5>2
        <5>4. \A e \in Epochs' : p \notin Members(e)'
          <6>1. ASSUME NEW e \in Epochs'
                PROVE  p \notin Members(e)'
            <7>1. CASE e \in Epochs
              BY <1>3, <5>1, <7>1 DEF Unborn
            <7>2. CASE e = Newest + 1
              BY <1>3, <5>2, <7>2 DEF Members
            <7> QED
              BY <1>3, <7>1, <7>2
          <6> QED
            BY <6>1
        <5> QED
          BY <1>1, <4>2, <5>1, <5>4 DEF Unborn
      <4> QED
        BY <3>1, <3>4, <3>7, <4>1, <4>3, <4>4 DEF PlaceOf
    <3> QED
      BY <3>5, <3>6, <3>7
  <2> QED
    BY <2>1 DEF PlaceInv
<1>11. StageInv'
  <2>1. Newest' # 0 /\ Len(psets') = Newest' + 1 /\ asked'[Lead']
    BY <1>1, <1>3, <1>6
  <2> QED
    BY <1>1, <1>7, <2>1 DEF StageInv
<1>12. DictInv'
  <2>1. /\ dict \in [0 .. MaxPsets -> Nat]
        /\ \A d \in Newest + 1 .. MaxPsets : dict[d] = 0
        /\ \A d \in 1 .. Newest : dict[d] \in {0, d}
        /\ dict[0] <= Newest
    BY <1>1, <1>8 DEF IInv, DictInv
  <2>2. MaxPsets \in Nat /\ Newest + 1 \in Newest + 1 .. MaxPsets
    BY <1>1, Types
  <2>3. dict'[Newest' + 1] = 0 /\ dict' = dict /\ Len(psets') = Newest' + 1 /\ Newest' = Newest
    BY <1>1, <1>3, <2>1, <2>2
  <2>4. \A d \in Len(psets') + 1 .. MaxPsets : d \in Newest + 1 .. MaxPsets
    BY <1>1, <2>2, <2>3
  <2> QED
    BY <1>8, <2>1, <2>3, <2>4 DEF DictInv
<1>13. FinInv'
  <2>1. /\ \A d \in 2 .. Newest - 1 : psets[d].fin = 1
        /\ Newest > 1 => psets[Newest].fin = 1
    BY <1>1 DEF IInv, FinInv
  <2>2. \A d \in 2 .. Newest - 1 : d \in Epochs
    BY <1>1, <1>3
  <2>3. psets'[Newest + 1].fin = 0
    BY <1>2, <1>3 DEF IsGrant
  <2> QED
    BY <1>1, <1>3, <1>4, <1>7, <1>8, <2>1, <2>2, <2>3 DEF FinInv
<1>14. ItInv'
  <2>1. ASSUME NEW p \in Members(Newest)
        PROVE  ItOf(p)'
    <3>1. ItOf(p) /\ pc'[p] = pc[p] /\ it' = it
      BY <1>1, <1>5 DEF IInv, ItInv
    <3> QED
      BY <1>1, <1>7, <3>1 DEF ItOf
  <2>2. Due <= Steps
    BY <1>7 DEF IInv, ItInv
  <2> QED
    BY <1>1, <1>3, <1>6, <1>7, <2>1, <2>2 DEF ItInv
<1>15. LogInv'
  <2>1. \A p \in Members(Newest) : Taken(p)' = Taken(p)
    BY <1>5 DEF Taken
  <2>2. LogInv /\ log' = log /\ idx' = idx /\ Newest' = Newest
    BY <1>1, <1>3 DEF IInv
  <2>3. ASSUME Newest > 1
        PROVE  LET l == log[Newest] IN
               /\ Len(l) = idx[Lead]
               /\ Len(l) > 0 => l[1].kind = "it"
               /\ Len(l) > 1 => l[2].kind = "data" /\ (Intact(Newest)' => l[2].val = Whole)
               /\ \A p \in Members(Newest) :
                    /\ idx[p] = Taken(p)'
                    /\ Taken(p)' = 0 /\ Len(l) > 0 => l[1].val + 1 = Due
    <3> DEFINE l == log[Newest]
    <3>1. /\ Len(l) = idx[Lead]
          /\ Len(l) > 0 => l[1].kind = "it"
          /\ Len(l) > 1 => l[2].kind = "data" /\ (Intact(Newest) => l[2].val = Whole)
          /\ \A p \in Members(Newest) :
               /\ idx[p] = Taken(p)
               /\ Taken(p) = 0 /\ Len(l) > 0 => l[1].val + 1 = Due
      BY <1>7, <2>2, <2>3 DEF LogInv
    <3>2. Intact(Newest)' <=> Intact(Newest)
      BY <1>6
    <3> HIDE DEF l
    <3>3. Len(l) > 1 => l[2].kind = "data" /\ (Intact(Newest)' => l[2].val = Whole)
      BY <3>1, <3>2
    <3>4. \A p \in Members(Newest) :
               /\ idx[p] = Taken(p)'
               /\ Taken(p)' = 0 /\ Len(l) > 0 => l[1].val + 1 = Due
      BY <2>1, <3>1
    <3> QED
      BY <3>1, <3>3, <3>4 DEF l
  <2>4. Members(Newest)' = Members(Newest) /\ Lead' = Lead /\ Due' = Due
    BY <1>6, <1>7
  <2> QED
    BY <2>2, <2>3, <2>4 DEF LogInv
<1>16. DataInv'
  <2>1. ASSUME NEW p \in Members(Newest)
        PROVE  BlockOf(p)'
    <3>1. BlockOf(p) /\ pc'[p] = pc[p] /\ block' = block
      BY <1>1, <1>5 DEF IInv, DataInv
    <3>2. pc[p] \notin {"itcast", "gatherE", "gatherS"}
      <4>1. IsMember(p) /\ p \in Procs
        BY <1>1, <1>4 DEF IsMember
      <4> QED
        BY <1>1, <4>1, MemberWhere
    <3>3. Holds(p, Newest) => Holds(p, Newest)'
      <4>1. /\ Share(Newest)' = Share(Newest) /\ Initial(p, Newest)' = Initial(p, Newest)
            /\ Intact(Newest)' <=> Intact(Newest)
            /\ block'[p] = block[p]
        <5>1. psets'[Newest'] = psets[Newest] /\ Newest' = Newest
          BY <1>3, <1>4
        <5>2. Rank(p, Newest)' = Rank(p, Newest)
          BY <5>1 DEF Rank
        <5>3. Initial(p, Newest)' = Initial(p, Newest)
          BY <5>1, <5>2 DEF Initial, Share, Number
        <5> QED
          BY <1>6, <3>1, <5>3
      <4> QED
        BY <4>1 DEF Holds
    <3> QED
      BY <1>7, <3>1, <3>2, <3>3 DEF BlockOf
  <2>2. \A p : ~ IsDeparting(p)'
    BY <1>7 DEF IsDeparting
  <2>3. gathered' \in [Procs -> Array \cup {<<>>}]
    BY <1>1, Types
  <2> QED
    BY <1>6, <1>7, <2>1, <2>2, <2>3 DEF DataInv
<1> QED
  BY <1>3, <1>9, <1>10, <1>11, <1>12, <1>13, <1>14, <1>15, <1>16 DEF IInv

-----------------------------------------------------------------------------
(* The invariant. *)

\* The invariant holds at the start.
LEMMA Starts ==
  ASSUME Init
  PROVE  IInv
<1>1. /\ psets = << NewPset([i \in Orig |-> i], {}, {}) >> /\ log = <<>> /\ ack = {} /\ req = FALSE
      /\ dict = [d \in 0 .. MaxPsets |-> 0]
      /\ pc = [p \in Procs |-> IF p \in Orig THEN "init" ELSE "off"]
      /\ comm = [p \in Procs |-> 0] /\ old = [p \in Procs |-> 0] /\ new = [p \in Procs |-> 0]
      /\ main = [p \in Procs |-> IF p \in Orig THEN 1 ELSE 0]
      /\ primary = [p \in Procs |-> p = 1]
      /\ asked = [p \in Procs |-> FALSE] /\ it = [p \in Procs |-> 0] /\ idx = [p \in Procs |-> 0]
      /\ block = [p \in Procs |-> <<>>] /\ gathered = [p \in Procs |-> <<>>]
  BY DEF Init
<1>2. /\ Cardinality(Procs) \in Nat /\ NumOrig \in Nat /\ NumOrig > 0 /\ 1 \in Orig
      /\ Orig \subseteq Procs /\ NumOrig \in Sizes
      /\ MaxPsets \in Nat /\ MaxPsets > 0 /\ Steps \in Nat /\ Size \in Nat
  <2>1. Cardinality(Procs) \in Nat
    BY ProcsAssumption, FS_CardinalityType
  <2> QED
    BY <2>1, ProcsAssumption, OrigAssumption, SizesAssumption, NumbersAssumption DEF Orig
<1>3. /\ [i \in Orig |-> i] \in Seq(Procs) /\ Len([i \in Orig |-> i]) = NumOrig
      /\ Head([i \in Orig |-> i]) = 1
  BY <1>2 DEF Orig
<1>4. /\ Len(psets) = 1 /\ psets \in Seq(Pset) /\ Epochs = 1 .. 1
      /\ psets[1].members = [i \in Orig |-> i] /\ Added(1) = {} /\ psets[1].removed = {}
  <2> DEFINE g == NewPset([i \in Orig |-> i], {}, {})
  <2>1. /\ g \in Pset /\ g.members = [i \in Orig |-> i] /\ g.added = {} /\ g.removed = {}
    BY <1>3 DEF NewPset, Pset
  <2>2. psets = <<g>>
    BY <1>1
  <2> HIDE DEF g
  <2>3. Len(psets) = 1 /\ psets \in Seq(Pset) /\ psets[1] = g
    BY <2>1, <2>2
  <2> QED
    BY <2>1, <2>3 DEF Epochs, Added
<1>5. Newest = 0 /\ Len(log) = 0 /\ log \in Seq(Seq(Message)) /\ Stage = "start"
  BY <1>1 DEF Newest, Stage
<1>6. Members(1) = Orig /\ Root(1) = 1 /\ Number(1) = NumOrig
  BY <1>3, <1>4 DEF Members, ToSet, Root, Number
<1>7. SetsInv
  <2>1. IsMainSet(1)
    <3>1. psets[1].members # <<>> /\ IsInjective(psets[1].members)
      <4>1. IsInjective([i \in Orig |-> i])
        BY DEF IsInjective
      <4>2. [i \in Orig |-> i] # <<>>
        BY <1>2, <1>3
      <4> QED
        BY <1>4, <4>1, <4>2
    <3>2. \A d \in 1 .. 1 - 1 : FALSE
      OBVIOUS
    <3> QED
      BY <1>2, <1>4, <1>6, <3>1, <3>2 DEF IsMainSet
  <2>2. \A e \in Epochs : e = 1
    BY <1>4
  <2> QED
    BY <1>2, <1>4, <1>5, <2>1, <2>2 DEF SetsInv
<1>8. TypeOK
  <2>1. 0 \in 0 .. Len(log) /\ {0, 1} \subseteq 0 .. Len(psets) /\ Len(log) <= Len(psets)
        /\ 0 \in 0 .. Steps + 1 /\ <<>> \in Seq(0 .. Size)
    BY <1>2, <1>4, <1>5
  <2>2. {"init", "off"} \subseteq Locations
    BY DEF Locations
  <2>3. dict \in [0 .. MaxPsets -> Epochs \cup {0, Finalized}] /\ ack \subseteq Epochs
        /\ req \in BOOLEAN /\ pc \in [Procs -> Locations]
    BY <1>1, <2>2
  <2>4. /\ comm \in [Procs -> 0 .. Len(log)] /\ old \in [Procs -> 0 .. Len(log)]
        /\ new \in [Procs -> 0 .. Len(log)] /\ main \in [Procs -> 0 .. Len(psets)]
        /\ asked \in [Procs -> BOOLEAN] /\ it \in [Procs -> 0 .. Steps + 1]
        /\ idx \in [Procs -> Nat] /\ block \in [Procs -> Seq(0 .. Size)]
        /\ gathered \in [Procs -> Seq(0 .. Size)]
    BY <1>1, <2>1
  <2>5. primary \in [Procs -> BOOLEAN]
    BY <1>1, Zenon
  <2> QED
    BY <1>4, <2>1, <2>3, <2>4, <2>5 DEF TypeOK, Pset
<1>9. PlaceInv
  <2>1. ASSUME NEW p \in Procs
        PROVE  PlaceOf(p)
    <3>1. ~ IsMember(p) /\ ~ IsSpawned(p) /\ ~ IsDeparting(p) /\ (IsLaunched(p) <=> p \in Orig)
      BY <1>5 DEF IsMember, IsSpawned, IsDeparting, IsLaunched
    <3>2. IsLaunched(p) => Launched(p)
      BY <1>1, <1>6, <3>1 DEF Launched
    <3>3. p \notin Orig => Unborn(p)
      BY <1>1, <1>4, <1>6 DEF Unborn
    <3>4. \A e \in 1 .. Newest : FALSE
      BY <1>5
    <3> QED
      BY <3>1, <3>2, <3>3, <3>4 DEF PlaceOf
  <2> QED
    BY <2>1 DEF PlaceInv
<1>10. StageInv
  BY <1>1, <1>4, <1>5 DEF StageInv
<1>11. DictInv
  <2>1. ~ Published /\ ~ Canceled /\ Newest + 1 = 1 /\ 1 \in 0 .. MaxPsets /\ 0 \in 0 .. MaxPsets
    BY <1>2, <1>5 DEF Published, Canceled
  <2>2. \A d \in 0 .. MaxPsets : dict[d] = 0
    BY <1>1
  <2>3. \A d \in Len(psets) + 1 .. MaxPsets : d \in 0 .. MaxPsets
    BY <1>2, <1>4
  <2>4. \A d \in 1 .. Newest : FALSE
    BY <1>5
  <2>5. dict \in [0 .. MaxPsets -> Nat]
    BY <1>1
  <2> QED
    BY <1>5, <2>1, <2>2, <2>3, <2>4, <2>5 DEF DictInv
<1>12. FinInv
  <2>1. \A e \in 2 .. Newest - 1 : FALSE
    BY <1>5
  <2> QED
    BY <1>5, <2>1 DEF FinInv
<1>13. ItInv
  BY <1>1, <1>2, <1>5 DEF ItInv, Computing
<1>14. LogInv
  BY <1>5 DEF LogInv
<1>15. DataInv
  BY <1>1, <1>5 DEF DataInv, IsDeparting
<1> QED
  BY <1>7, <1>8, <1>9, <1>10, <1>11, <1>12, <1>13, <1>14, <1>15 DEF IInv

\* Every step keeps the invariant.
LEMMA NextKeeps ==
  ASSUME IInv, Next
  PROVE  IInv'
<1>1. CASE Execute
  BY <1>1, ExecuteKeeps
<1>2. ASSUME NEW p \in Procs, Step(p)
      PROVE  IInv'
  BY <1>2, ItRecvKeeps, ExpRecvKeeps, ComputeKeeps, PublishKeeps, ItCastKeeps, ScatterKeeps,
     FinalizePsetopKeeps, CancelKeeps, AckWaitKeeps DEF Step
<1>3. ASSUME NEW e \in 1 .. MaxPsets, Collective(e)
      PROVE  IInv'
  <2>1. e \in Epochs
    BY <1>3 DEF Collective, Epochs
  <2>2. CASE \E l \in {"gatherE", "gatherS"} : Gather(e, l)
    BY <2>1, <2>2, GatherKeeps
  <2>3. CASE ~ \E l \in {"gatherE", "gatherS"} : Gather(e, l)
    BY <1>3, <2>1, <2>3, CreateCommKeeps, JoinKeeps, QueryKeeps, DupKeeps, LookupKeeps,
       DisconnectKeeps, LeaveOldKeeps, FinishKeeps DEF Collective
  <2> QED
    BY <2>2, <2>3
<1> QED
  BY <1>1, <1>2, <1>3 DEF Next

\* So does a step that changes nothing.
LEMMA StutterKeeps ==
  ASSUME IInv, UNCHANGED vars
  PROVE  IInv'
<1>1. UNCHANGED <<psets, dict, ack, req, log, pc, comm, old, new, main, primary, asked, it,
                  idx, block, gathered>>
  BY DEF vars, runtimeVars, commVars, dataVars
<1>2. Kept /\ Stage' = Stage /\ Newest' = Newest /\ Lead' = Lead /\ Due' = Due
      /\ \A q \in Procs : SameAt(q)
  <2>1. Kept
    BY <1>1, SameSets
  <2>2. Newest' = Newest /\ Lead' = Lead /\ Stage' = Stage /\ Due' = Due
    BY <1>1 DEF Stage, Due, Lead, Newest, Root
  <2> QED
    BY <1>1, <2>1, <2>2 DEF SameAt
<1>3. /\ Published' <=> Published
      /\ Canceled' <=> Canceled
      /\ Computing' <=> Computing
  BY <1>1, <1>2 DEF Published, Canceled, Computing
<1>4. SetsInv'
  BY <1>2, KeptSets
<1>5. TypeOK'
  BY <1>1 DEF IInv, TypeOK, Epochs
<1>6. PlaceInv'
  BY <1>1, <1>2, SamePlace DEF PlaceInv
<1>7. StageInv' /\ DictInv' /\ FinInv'
  <2>1. UNCHANGED <<psets, dict, req, asked>> /\ (Newest > 0 => pc'[Lead] = pc[Lead])
    BY <1>1
  <2> QED
    BY <1>2, <1>3, <2>1, SameRuntime
<1>8. ItInv'
  <2>1. ItInv /\ Orig' = Orig /\ it' = it
    BY <1>1 DEF IInv, Orig
  <2>2. ASSUME Newest > 0, NEW q \in Members(Newest)
        PROVE  ItOf(q)'
    <3>1. q \in Procs /\ IsMember(q)
      BY <2>2, Stages DEF IsMember
    <3> QED
      BY <1>2, <3>1, SameIt
  <2>3. Newest > 0 => Members(Newest)' = Members(Newest)
    BY <1>2, Stages, KeptSets
  <2> QED
    BY <1>2, <1>3, <2>1, <2>2, <2>3 DEF ItInv
<1>9. NumOrig \in Procs /\ Solo(NumOrig)
  BY <1>1, <1>2, OrigAssumption DEF Solo
<1>10. LogInv'
  <2>1. IsMember(NumOrig) /\ Computing /\ Newest > 1 =>
          idx'[NumOrig] = Taken(NumOrig)' /\ (Taken(NumOrig)' = 0 => Taken(NumOrig) = 0)
    BY <1>1 DEF IInv, LogInv, IsMember, Taken
  <2> QED
    BY <1>1, <1>2, <1>9, <2>1, SoloLog
<1>11. DataInv'
  <2>1. IsMember(NumOrig) => BlockOf(NumOrig)'
    BY <1>2, <1>9, SameBlock
  <2> QED
    BY <1>1, <1>9, <2>1, SoloData
<1> QED
  BY <1>4, <1>5, <1>6, <1>7, <1>8, <1>10, <1>11 DEF IInv

\* The invariant holds in every state: each process is where the stage of the
\* task allows, and knows, has received and holds what belongs there.
THEOREM Inductive == Spec => []IInv
<1>1. Init => IInv
  BY Starts
<1>2. IInv /\ [Next]_vars => IInv'
  BY NextKeeps, StutterKeeps
<1> QED
  BY <1>1, <1>2, PTL DEF Spec

-----------------------------------------------------------------------------
(* The properties. *)

\* Every variable has its type, for any number of processes, sizes and steps.
THEOREM TypesCorrect == Spec => []TypeOK
<1>1. IInv => TypeOK
  BY DEF IInv
<1> QED
  BY <1>1, Inductive, PTL

\* A process in the query has all others of its communicator in the same step,
\* in front of it or on their way: nobody of them ends or has gone on.
THEOREM StepsCorrect == Spec => []StepsAgree
<1>1. ASSUME IInv, NEW p \in Procs, NEW q \in Procs, pc[p] = "query", comm[p] = comm[q],
             pc[q] \in {"step", "query", "dup", "cancel", "ackwait", "barrier"}
      PROVE  it[p] = it[q] /\ pc[q] \in {"step", "query"}
  <2>1. IsMember(p) /\ Computing /\ Newest > 0 /\ Newest \in Nat /\ Steps \in Nat
    BY <1>1, Where, Types DEF Computing
  <2>2. comm[p] = Newest
    <3>1. MemberAt(p)
      BY <1>1, <2>1, MemberWhere
    <3> QED
      BY <2>1, <3>1 DEF MemberAt, Computing
  <2>3. pc[q] # "dup"
    BY <1>1, <2>1, Where DEF Computing
  <2>4. IsMember(q)
    <3>1. IsMember(q) \/ Gone(q)
      BY <1>1, <2>3, Where
    <3>2. Gone(q) => comm[q] = 0
      BY DEF Gone
    <3> QED
      BY <1>1, <2>1, <2>2, <3>1, <3>2
  <2>5. ItOf(p) /\ ItOf(q)
    BY <1>1, <2>1, <2>4 DEF IInv, ItInv, IsMember
  <2>6. it[p] = Due /\ Due < Steps
    BY <1>1, <2>1, <2>5 DEF ItOf
  <2>7. pc[q] \notin {"cancel", "ackwait", "barrier"}
    BY <2>1, <2>5, <2>6 DEF ItOf
  <2> QED
    BY <1>1, <2>1, <2>3, <2>5, <2>6, <2>7 DEF ItOf
<1>2. IInv => StepsAgree
  BY <1>1 DEF StepsAgree
<1> QED
  BY <1>2, Inductive, PTL

\* Every operation is finalized once, before the next is executed, and not
\* before the whole of the new set has its name.
THEOREM OrderCorrect == Spec => []SetopsInOrder
<1>1. ASSUME IInv, NEW e \in Epochs \ {1}
      PROVE  /\ psets[e].fin <= 1
             /\ e < Len(psets) => psets[e].fin = 1
             /\ psets[e].fin = 1 /\ dict[DeltaAdd(e)] = e => \A p \in Members(e) : main[p] >= e
  <2>1. /\ Newest \in Nat /\ Len(psets) \in {Newest, Newest + 1} /\ Len(psets) \in Nat
        /\ e \in 2 .. Len(psets) /\ e \in Nat /\ Len(psets) <= MaxPsets /\ MaxPsets \in Nat
        /\ Members(e) \subseteq Procs
    BY <1>1, Types, Ranks DEF IInv, Epochs
  <2>2. CASE e <= Newest
    <3>1. e \in 2 .. Newest - 1 \/ e = Newest
      BY <2>1, <2>2
    <3>2. e \in 2 .. Newest - 1 => psets[e].fin = 1
      BY <1>1 DEF IInv, FinInv
    <3>3. e = Newest => psets[e].fin = IF Stage = "settling" /\ pc[Lead] # "leaveold" THEN 0 ELSE 1
      BY <1>1, <2>1 DEF IInv, FinInv
    <3>4. e = Newest /\ e < Len(psets) => Stage # "settling"
      BY <1>1, <2>1, Stages
    <3>5. \A p \in Members(e) : main[p] >= e
      BY <1>1, <2>1, <2>2 DEF IInv, PlaceInv, PlaceOf
    <3> QED
      BY <3>1, <3>2, <3>3, <3>4, <3>5
  <2>3. CASE e > Newest
    <3>1. e = Newest + 1 /\ Len(psets) = Newest + 1 /\ Newest > 0
      BY <2>1, <2>3
    <3>2. psets[e].fin = IF Canceled THEN 1 ELSE 0
      BY <1>1, <3>1 DEF IInv, FinInv
    <3>3. Canceled => dict[DeltaAdd(e)] # e
      <4>1. SUFFICES ASSUME Canceled
                     PROVE  dict[DeltaAdd(e)] # e
        OBVIOUS
      <4>2. ~ Published
        BY <4>1 DEF Canceled, Published
      <4>3. /\ dict[0] <= Newest
            /\ Added(e) # {} => dict[e] = Finalized
        BY <1>1, <3>1, <4>1, <4>2 DEF IInv, DictInv
      <4>4. dict[0] \in Nat
        BY <1>1, <2>1, Types
      <4> QED
        BY <2>1, <3>1, <4>3, <4>4 DEF DeltaAdd, Added, Finalized
    <3> QED
      BY <2>1, <3>1, <3>2, <3>3
  <2> QED
    BY <2>1, <2>2, <2>3
<1>2. IInv => SetopsInOrder
  BY <1>1 DEF SetopsInOrder
<1> QED
  BY <1>2, Inductive, PTL

\* Who scatters has the new communicator, who gathers has the old one.
THEOREM CommsCorrect == Spec => []CommsAreDefined
<1>1. ASSUME IInv, NEW p \in Procs, pc[p] \in {"scatterE", "scatterS"}
      PROVE  new[p] # 0 /\ new[p] = comm[p]
  <2>1. IsMember(p) /\ Stage = "settling" /\ Stayed(p)
    BY <1>1, Where, Stages DEF IsMember, IsDeparting
  <2>2. MemberAt(p) /\ Newest > 0
    BY <1>1, <2>1, MemberWhere DEF IsMember
  <2> QED
    BY <1>1, <2>1, <2>2, Types DEF MemberAt
<1>2. ASSUME IInv, NEW p \in Procs, pc[p] \in {"gatherE", "gatherS"}
      PROVE  old[p] # 0 /\ old[p] < main[p]
  <2>1. Newest \in Nat
    BY <1>2, Types
  <2>2. CASE IsMember(p) /\ Stage = "settling" /\ Stayed(p)
    BY <1>2, <2>1, <2>2, MemberWhere, Stages DEF MemberAt
  <2>3. CASE IsMember(p) /\ Stage = "between"
    BY <1>2, <2>1, <2>3, MemberWhere DEF MemberAt, IsMember
  <2>4. CASE IsDeparting(p)
    BY <1>2, <2>1, <2>4, Stages DEF IInv, PlaceInv, PlaceOf, DepartingAt, IsDeparting
  <2> QED
    BY <1>2, <2>2, <2>3, <2>4, Where
<1>3. IInv => CommsAreDefined
  BY <1>1, <1>2 DEF CommsAreDefined
<1> QED
  BY <1>3, Inductive, PTL

\* Growing and shrinking leave the vector as it was, whatever sizes the runtime
\* chooses and however often it does, if every size divides the number of
\* elements: then no element belongs to nobody.
THEOREM DataCorrect == Exact => (Spec => []DataIsWhole)
<1>1. ASSUME Exact, IInv, NEW p \in Procs, pc[p] \in {"step", "query", "cancel"},
             comm[p] # 0, Root(comm[p]) = 1
      PROVE  block[p] = Initial(p, comm[p])
  <2>1. IsMember(p) /\ Computing /\ Newest > 0
    BY <1>1, Where DEF Gone, Computing
  <2>2. comm[p] = Newest
    BY <1>1, <2>1, MemberWhere DEF MemberAt, Computing
  <2>3. BlockOf(p)
    BY <1>1, <2>1 DEF IInv, DataInv, IsMember
  <2>4. Holds(p, Newest)
    BY <1>1, <2>1, <2>3 DEF BlockOf
  <2> QED
    BY <1>1, <2>2, <2>4 DEF Holds, Intact
<1>2. Exact /\ IInv => DataIsWhole
  BY <1>1 DEF DataIsWhole
<1>3. (Exact /\ []IInv) => []DataIsWhole
  <2>1. SUFFICES ASSUME Exact
                 PROVE  []IInv => []DataIsWhole
    OBVIOUS
  <2>2. IInv => DataIsWhole
    BY <1>2, <2>1
  <2> QED
    BY <2>2, PTL
<1> QED
  BY <1>3, Inductive, PTL

-----------------------------------------------------------------------------
(* The names. *)

\* Where the step of one process leads: main sets and the processes of all sets
\* stay, and it is in the loop, or in what follows it, before and afterwards.
Outer == {"off", "waiting", "init", "exit"}

\* A step of one process moves it between places inside a loop, and nothing else.
LEMMA StepFrame ==
  ASSUME IInv, NEW p \in Procs, Step(p)
  PROVE  /\ Kept /\ main' = main /\ pc[p] \notin Outer /\ pc'[p] \notin Outer
         /\ \A q \in Procs : q # p => pc'[q] = pc[q]
<1>1. /\ main' = main /\ pc[p] \notin Outer
      /\ \E l : l \notin Outer /\ pc' = [pc EXCEPT ![p] = l]
  <2>1. AfterSwitch(p) \notin Outer /\ AfterScatter(p) \notin Outer
    BY DEF AfterSwitch, AfterScatter, Outer
  <2>2. CASE ItRecv(p) \/ ExpRecv(p) \/ Publish(p) \/ FinalizePsetop(p) \/ AckWait(p)
    BY <2>2 DEF ItRecv, ExpRecv, Publish, FinalizePsetop, AckWait, Outer
  <2>3. CASE Compute(p)
    BY <2>3 DEF Compute, Outer
  <2>4. CASE ItCast(p)
    BY <2>1, <2>4 DEF ItCast, Outer
  <2>5. CASE Scatter(p)
    BY <2>1, <2>5 DEF Scatter, Outer
  <2>6. CASE Cancel(p)
    BY <2>6 DEF Cancel, Outer
  <2> QED
    BY <2>2, <2>3, <2>4, <2>5, <2>6 DEF Step
<1>2. pc'[p] \notin Outer /\ \A q \in Procs : q # p => pc'[q] = pc[q]
  <2>1. PICK l : l \notin Outer /\ pc' = [pc EXCEPT ![p] = l]
    BY <1>1
  <2>2. pc \in [Procs -> Locations]
    BY Types
  <2> QED
    BY <2>1, <2>2
<1>3. Len(log') = Len(log)
  <2>1. log' = log \/ \E i, m : log' = [log EXCEPT ![i] = m]
    <3>1. CASE ItCast(p) \/ Scatter(p)
      BY <3>1 DEF ItCast, Scatter, Send, Take
    <3>2. CASE ~ (ItCast(p) \/ Scatter(p))
      BY <3>2 DEF Step, ItRecv, ExpRecv, Compute, Publish, FinalizePsetop, Cancel, AckWait, Take
    <3> QED
      BY <3>1, <3>2
  <2>2. log \in Seq(Seq(Message))
    BY Types
  <2> QED
    BY <2>1, <2>2
<1>4. psets' = psets \/ \E d \in Epochs : psets' = [psets EXCEPT ![d].fin = @ + 1]
  <2>1. CASE FinalizePsetop(p)
    <3>1. pc[p] = "finop" /\ (psets' = psets \/ psets' = [psets EXCEPT ![main[p]].fin = @ + 1])
      BY <2>1 DEF FinalizePsetop
    <3>2. CASE IsMember(p) /\ Stage = "settling"
      BY <3>1, <3>2, MemberWhere, Stages DEF MemberAt
    <3>3. CASE IsDeparting(p)
      BY <3>1, <3>3, Stages DEF IInv, PlaceInv, PlaceOf, DepartingAt, IsDeparting
    <3> QED
      BY <3>1, <3>2, <3>3, Where
  <2>2. CASE Cancel(p)
    <3>1. CASE primary[p] /\ Executed(p)
      <4>1. main[p] + 1 \in Epochs
        <5>1. main[p] \in Nat /\ Len(psets) \in Nat /\ Len(psets) > main[p]
          BY <3>1, Types DEF Executed
        <5> QED
          BY <5>1 DEF Epochs
      <4> QED
        BY <2>2, <3>1, <4>1 DEF Cancel
    <3>2. CASE ~ (primary[p] /\ Executed(p))
      BY <2>2, <3>2 DEF Cancel
    <3> QED
      BY <3>1, <3>2
  <2>3. CASE ~ FinalizePsetop(p) /\ ~ Cancel(p)
    BY <2>3 DEF Step, ItRecv, ExpRecv, Compute, Publish, ItCast, Scatter, AckWait, runtimeVars
  <2> QED
    BY <2>1, <2>2, <2>3
<1>5. Kept
  BY <1>3, <1>4, SameSets, FinSets
<1> QED
  BY <1>1, <1>2, <1>5

\* Processes that look a name up find that of the newest set ...
LEMMA LookupNames ==
  ASSUME IInv, NEW e \in Epochs, Lookup(e)
  PROVE  /\ main' = [p \in Procs |-> IF p \in Members(Newest) THEN Len(psets) ELSE main[p]]
         /\ e = Newest
<1>1. /\ e = Newest /\ Stage = "moving" /\ Lead \in Members(Newest)
      /\ \A p \in Members(Newest) : pc[p] = "lookup"
  BY Calls DEF Lookup
<1>2. Len(psets) = Newest + 1 /\ Published
  BY <1>1 DEF IInv, StageInv, Published
<1>3. dict[DeltaAdd(Newest + 1)] = Newest + 1
  BY <1>2 DEF IInv, DictInv
<1> QED
  BY <1>1, <1>2, <1>3 DEF Lookup

\* ... as do those that have been spawned, unless they are dismissed.
LEMMA JoinNames ==
  ASSUME IInv, NEW e \in Epochs, Join(e)
  PROVE  /\ Added(e) # {} /\ e = Newest + 1 /\ Len(psets) = Newest + 1
         /\ \A p \in Added(e) : p \in Procs /\ pc[p] = "waiting" /\ main[p] = 0
         /\ \/ /\ main' = main
               /\ pc' = [p \in Procs |-> IF p \in Added(e) THEN "exit" ELSE pc[p]]
            \/ /\ main' = [p \in Procs |-> IF p \in Added(e) THEN Len(psets) ELSE main[p]]
               /\ pc' = [p \in Procs |-> IF p \in Added(e) THEN "init" ELSE pc[p]]
         /\ psets' = psets /\ log' = log
<1> DEFINE over == dict[e] = Finalized
<1>1. /\ Added(e) # {} /\ \A p \in Added(e) : pc[p] = "waiting"
      /\ dict[e] # 0
      /\ main' = [p \in Procs |-> IF p \in Added(e) /\ ~ over THEN dict[e] ELSE main[p]]
      /\ pc' = [p \in Procs |-> IF p \in Added(e) THEN IF over THEN "exit" ELSE "init" ELSE pc[p]]
      /\ psets' = psets /\ log' = log
  BY DEF Join, AllAt, Added, Move
<1>2. Added(e) \subseteq Members(e) /\ Members(e) \subseteq Procs
  BY Ranks, Types DEF IInv, SetsInv, IsMainSet
<1>3. \A p \in Added(e) : IsSpawned(p) /\ PlaceOf(p)
  BY <1>1, <1>2, Where DEF IInv, PlaceInv
<1>4. Newest > 0 /\ Newest \in Nat /\ Len(psets) = Newest + 1 /\ Newest + 1 \in Epochs
  BY <1>1, <1>3, Types, Stages DEF IsSpawned
<1>5. e = Newest + 1
  <2>1. PICK p \in Added(e) : p \in Added(Newest + 1)
    BY <1>1, <1>3 DEF IsSpawned
  <2>2. e \in Nat /\ e <= Newest + 1 /\ e > 0
    BY <1>4 DEF Epochs
  <2>3. e \in 1 .. (Newest + 1) - 1 => Added(Newest + 1) \cap Members(e) = {}
    BY <1>4 DEF IInv, SetsInv, IsMainSet
  <2> QED
    BY <1>2, <1>4, <2>1, <2>2, <2>3
<1>6. ~ over => dict[e] = Len(psets)
  <2>1. Published => dict[Newest + 1] = Newest + 1
    BY <1>1, <1>5 DEF IInv, DictInv, DeltaAdd, Added
  <2>2. ~ Published => dict[Newest + 1] \in {0, Finalized}
    BY <1>4 DEF IInv, DictInv
  <2> QED
    BY <1>1, <1>4, <1>5, <2>1, <2>2
<1>7. \A p \in Added(e) : main[p] = 0
  BY <1>1, <1>3 DEF PlaceOf, SpawnedAt
<1> HIDE DEF over
<1>8. CASE over
  <2>1. main' = [p \in Procs |-> main[p]]
    BY <1>1, <1>8
  <2>2. main \in [Procs -> Nat]
    BY Types
  <2>3. main' = main
    BY <2>1, <2>2
  <2> QED
    BY <1>1, <1>2, <1>4, <1>5, <1>7, <1>8, <2>3
<1>9. CASE ~ over
  BY <1>1, <1>2, <1>4, <1>5, <1>6, <1>7, <1>9
<1> QED
  BY <1>8, <1>9

\* A process never finds the name of an older set, though operations that add
\* nobody all publish theirs under the same one.
THEOREM NamesCorrect == Spec => NamesAreFresh
<1>1. ASSUME IInv, Next, NEW p \in Procs, main'[p] # main[p]
      PROVE  main'[p] = Len(psets)
  <2>1. CASE Execute
    BY <1>1, <2>1, Executes
  <2>2. CASE \E q \in Procs : Step(q)
    BY <1>1, <2>2, StepFrame
  <2>3. CASE \E e \in 1 .. MaxPsets : Collective(e)
    <3>1. PICK e \in Epochs : Collective(e)
      BY <2>3 DEF Collective, Epochs
    <3>2. CASE Lookup(e)
      BY <1>1, <3>2, LookupNames
    <3>3. CASE Join(e)
      BY <1>1, <3>3, JoinNames
    <3>4. CASE ~ Lookup(e) /\ ~ Join(e)
      BY <1>1, <3>1, <3>4 DEF Collective, CreateComm, Query, Dup, Disconnect, Gather, LeaveOld,
         Finish
    <3> QED
      BY <3>2, <3>3, <3>4
  <2> QED
    BY <1>1, <2>1, <2>2, <2>3 DEF Next
<1>2. IInv /\ [Next]_vars => [\A p \in Procs : main'[p] # main[p] => main'[p] = Len(psets)]_vars
  BY <1>1
<1> QED
  BY <1>2, Inductive, PTL DEF Spec, NamesAreFresh

-----------------------------------------------------------------------------
(* The refinement of Malleable: an operation that adds processes spawns     *)
(* them, the team is replaced when its communicator is made, and processes  *)
(* end or are dismissed where the task or they leave it.                    *)

\* A step the abstract task can take, or none.
TaskStep == Task!Next \/ (Life' = Life /\ Team' = Team)

\* The life of a process is told by its location and main set.
LEMMA LifeOf ==
  /\ Life = [p \in Procs |-> Life[p]] /\ Life' = [p \in Procs |-> Life'[p]]
  /\ \A p \in Procs :
       Life[p] = IF pc[p] = "off" THEN "spare"
                 ELSE IF pc[p] \in {"waiting", "init"} THEN "waiting"
                 ELSE IF pc[p] # "exit" THEN "member"
                 ELSE IF main[p] = 0 THEN "dismissed" ELSE "ended"
  /\ \A p \in Procs :
       Life'[p] = IF pc'[p] = "off" THEN "spare"
                  ELSE IF pc'[p] \in {"waiting", "init"} THEN "waiting"
                  ELSE IF pc'[p] # "exit" THEN "member"
                  ELSE IF main'[p] = 0 THEN "dismissed" ELSE "ended"
BY DEF Life

\* The team only changes with the newest communicator.
LEMMA SameTeam ==
  ASSUME IInv, IInv', Len(log') = Len(log),
         Newest > 0 => psets'[Newest].members = psets[Newest].members
  PROVE  Team' = Team
<1>1. Len(log) \in Nat /\ (log = <<>> <=> Len(log) = 0)
  <2>1. log \in Seq(Seq(Message))
    BY DEF IInv, LogInv
  <2> QED
    BY <2>1
<1>2. log' = <<>> <=> Len(log') = 0
  <2>1. log' \in Seq(Seq(Message))
    BY DEF IInv, LogInv
  <2> QED
    BY <2>1
<1>3. Team' = IF log' = <<>> THEN {} ELSE ToSet(psets'[Len(log')].members)
  BY DEF Team, Members
<1>4. Team = IF log = <<>> THEN {} ELSE ToSet(psets[Len(log)].members)
  BY DEF Team, Members
<1> QED
  BY <1>1, <1>2, <1>3, <1>4 DEF Newest

\* Without a new communicator the team is the same.
LEMMA KeptTeam ==
  ASSUME IInv, IInv', Kept
  PROVE  Team' = Team
<1>1. Newest > 0 => Newest \in Epochs
  BY Stages
<1> QED
  BY <1>1, SameTeam DEF Kept

\* Processes that go round the loop stay members of the task.
LEMMA LoopRefines ==
  ASSUME IInv, IInv', Kept, NEW ps, \A p \in ps : pc[p] \notin Outer /\ pc'[p] \notin Outer,
         \A p \in Procs \ ps : pc'[p] = pc[p] /\ main'[p] = main[p]
  PROVE  TaskStep
<1>1. \A p \in Procs : Life'[p] = Life[p]
  <2>1. ASSUME NEW p \in Procs
        PROVE  Life'[p] = Life[p]
    <3>1. CASE p \in ps
      <4>1. pc[p] \notin Outer /\ pc'[p] \notin Outer
        BY <3>1
      <4> QED
        BY <4>1, LifeOf DEF Outer
    <3>2. CASE p \notin ps
      BY <3>2, LifeOf
    <3> QED
      BY <3>1, <3>2
  <2> QED
    BY <2>1
<1>2. Life' = Life
  BY <1>1, LifeOf
<1> QED
  BY <1>2, KeptTeam DEF TaskStep

\* Some processes end, or are dismissed.
LEMMA ChangeRefines ==
  ASSUME IInv, IInv', Kept, NEW ps \in SUBSET Procs, ps # {}, NEW from, NEW to, from # to,
         \A p \in ps : Life[p] = from /\ Life'[p] = to,
         \A p \in Procs \ ps : pc'[p] = pc[p] /\ main'[p] = main[p]
  PROVE  Task!Change(from, to)
<1>1. ps \in SUBSET Task!With(from)
  BY DEF Task!With
<1>2. Life' = [p \in Procs |-> IF p \in ps THEN to ELSE Life[p]]
  <2>1. \A p \in Procs \ ps : Life'[p] = Life[p]
    BY LifeOf
  <2> QED
    BY <2>1, LifeOf
<1>3. Life' # Life
  OBVIOUS
<1> QED
  BY <1>1, <1>2, <1>3, KeptTeam DEF Task!Change

\* A step of one process changes nothing for the abstract task.
LEMMA StepRefines ==
  ASSUME IInv, IInv', NEW p \in Procs, Step(p)
  PROVE  TaskStep
<1>1. /\ Kept /\ main' = main
      /\ \A q \in {p} : pc[q] \notin Outer /\ pc'[q] \notin Outer
      /\ \A q \in Procs \ {p} : pc'[q] = pc[q] /\ main'[q] = main[q]
  BY StepFrame
<1> DEFINE ps == {p}
<1>2. /\ \A q \in ps : pc[q] \notin Outer /\ pc'[q] \notin Outer
      /\ \A q \in Procs \ ps : pc'[q] = pc[q] /\ main'[q] = main[q]
  BY <1>1
<1> HIDE DEF ps
<1> QED
  BY <1>1, <1>2, LoopRefines

\* Nobody waits or has been dismissed unless there is a set without communicator.
LEMMA NobodyWaits ==
  ASSUME IInv, Newest > 0, NEW p \in Procs, ~ IsSpawned(p)
  PROVE  Life[p] \notin {"waiting", "dismissed"}
<1>1. PlaceOf(p) /\ ~ IsLaunched(p) /\ Newest \in Nat
  BY Types DEF IInv, PlaceInv, IsLaunched
<1>2. pc[p] \notin {"waiting", "init"}
  BY <1>1, Where
<1>3. pc[p] = "exit" => main[p] # 0
  <2>1. CASE IsMember(p)
    <3>1. MemberAt(p)
      BY <2>1, MemberWhere
    <3> QED
      BY <1>1, <3>1 DEF MemberAt
  <2>2. CASE IsDeparting(p)
    BY <1>1, <2>2 DEF PlaceOf, DepartingAt
  <2>3. CASE Gone(p)
    BY <1>1, <2>3 DEF Gone
  <2>4. CASE Unborn(p)
    BY <2>4 DEF Unborn
  <2> QED
    BY <1>1, <2>1, <2>2, <2>3, <2>4 DEF PlaceOf
<1> QED
  BY <1>2, <1>3, LifeOf

\* An operation that adds processes spawns them, one that removes changes nothing.
LEMMA ExecuteRefines ==
  ASSUME IInv, IInv', Execute
  PROVE  TaskStep
<1>1. /\ Newest > 0 /\ Newest \in Nat /\ Len(psets) = Newest /\ log' = log /\ main' = main
      /\ Newest < MaxPsets
  BY Executes
<1>2. PICK g : /\ IsGrant(g, Newest) /\ psets' = Append(psets, g)
               /\ pc' = [q \in Procs |-> IF q \in g.added THEN "waiting" ELSE pc[q]]
  BY Executes
<1>3. g.added \subseteq Procs /\ \A p \in g.added : pc[p] = "off"
  BY <1>2, FreshOnes DEF IsGrant
<1>4. Team' = Team
  <2>1. psets'[Newest] = psets[Newest]
    BY <1>1, <1>2, Types
  <2> QED
    BY <1>1, <2>1, SameTeam
<1>5. Life' = [q \in Procs |-> IF q \in g.added THEN "waiting" ELSE Life[q]]
  <2>1. ASSUME NEW q \in Procs
        PROVE  Life'[q] = IF q \in g.added THEN "waiting" ELSE Life[q]
    <3>1. CASE q \in g.added
      BY <1>2, <3>1, LifeOf
    <3>2. CASE q \notin g.added
      BY <1>1, <1>2, <3>2, LifeOf
    <3> QED
      BY <3>1, <3>2
  <2> QED
    BY <2>1, LifeOf
<1>6. CASE g.added = {}
  <2>1. Life' = [q \in Procs |-> Life[q]]
    BY <1>5, <1>6
  <2> QED
    BY <1>4, <2>1, LifeOf DEF TaskStep
<1>7. CASE g.added # {}
  <2>1. \A q \in g.added : Life[q] = "spare"
    BY <1>3, LifeOf
  <2>2. g.added \in SUBSET Task!With("spare")
    BY <1>3, <2>1 DEF Task!With
  <2>3. Life' # Life
    <3>1. PICK q \in g.added : TRUE
      BY <1>7
    <3> QED
      BY <1>3, <1>5, <2>1, <3>1
  <2>4. Task!With("waiting") = {} /\ Task!With("dismissed") = {}
    <3>1. \A q \in Procs : ~ IsSpawned(q)
      BY <1>1 DEF IsSpawned
    <3> QED
      BY <1>1, <3>1, NobodyWaits DEF Task!With
  <2>5. Task!Change("spare", "waiting")
    BY <1>4, <1>5, <2>2, <2>3 DEF Task!Change
  <2> QED
    BY <2>4, <2>5 DEF TaskStep, Task!Next, Task!Spawn
<1> QED
  BY <1>6, <1>7

\* The operations that a whole communicator takes part in.
LEMMA TogetherRefines ==
  ASSUME IInv, IInv', NEW e \in Epochs,
         \/ Query(e) \/ Dup(e) \/ Lookup(e) \/ Disconnect(e) \/ LeaveOld(e)
         \/ \E l \in {"gatherE", "gatherS"} : Gather(e, l)
  PROVE  TaskStep
<1>1. Members(e) \subseteq Procs
  BY Ranks, Types DEF IInv
<1>2. /\ psets' = psets /\ log' = log
      /\ \A p \in Members(e) : pc[p] \notin Outer
      /\ \E l : Move(Members(e), l) /\ \A p \in Procs : l[p] \notin Outer
      /\ \A p \in Procs \ Members(e) : main'[p] = main[p]
  <2>1. \A p : AfterSwitch(p) \notin Outer
    BY DEF AfterSwitch, Outer
  <2>2. CASE Query(e)
    <3>1. \E x \in {"dup", "step"} : Move(Members(e), [p \in Procs |-> x])
      BY <2>2 DEF Query
    <3> QED
      BY <2>2, <3>1 DEF Query, AllCall, AllAt, runtimeVars, Outer
  <2>3. CASE Dup(e)
    BY <2>3 DEF Dup, AllCall, AllAt, runtimeVars, Outer
  <2>4. CASE Lookup(e)
    BY <2>4 DEF Lookup, AllCall, AllAt, runtimeVars, Outer
  <2>5. CASE Disconnect(e)
    <3> DEFINE l == [p \in Procs |-> IF Included(p) THEN "recreate" ELSE AfterSwitch(p)]
    <3>1. Move(Members(e), l) /\ \A p \in Procs : l[p] \notin Outer
      BY <2>1, <2>5 DEF Disconnect, Outer
    <3> HIDE DEF l
    <3> QED
      BY <2>5, <3>1 DEF Disconnect, AllCall, AllAt, runtimeVars, Outer
  <2>6. CASE LeaveOld(e)
    BY <2>6 DEF LeaveOld, AllCall, AllAt, runtimeVars, Outer
  <2>7. ASSUME NEW k \in {"gatherE", "gatherS"}, Gather(e, k)
        PROVE  /\ psets' = psets /\ log' = log
               /\ \A p \in Members(e) : pc[p] \notin Outer
               /\ \E l : Move(Members(e), l) /\ \A p \in Procs : l[p] \notin Outer
               /\ \A p \in Procs \ Members(e) : main'[p] = main[p]
    BY <2>7 DEF Gather, AllCall, AllAt, runtimeVars, Outer
  <2> QED
    BY <2>2, <2>3, <2>4, <2>5, <2>6, <2>7
<1>3. /\ \A p \in Members(e) : pc[p] \notin Outer /\ pc'[p] \notin Outer
      /\ \A p \in Procs \ Members(e) : pc'[p] = pc[p] /\ main'[p] = main[p]
  <2>1. PICK l : Move(Members(e), l) /\ \A p \in Procs : l[p] \notin Outer
    BY <1>2
  <2> QED
    BY <1>1, <1>2, <2>1 DEF Move
<1>4. Kept
  BY <1>2, SameSets
<1> QED
  BY <1>3, <1>4, LoopRefines

\* All processes of the task, or of those removed together, end.
LEMMA FinishRefines ==
  ASSUME IInv, IInv', NEW e \in Epochs, Finish(e)
  PROVE  TaskStep
<1>1. PICK ps \in {Members(e), psets[e].removed} :
        /\ AllAt(ps, "barrier") /\ \A p \in ps : main[p] = e
        /\ Move(ps, [p \in Procs |-> "exit"])
        /\ UNCHANGED <<runtimeVars, log, main>>
  BY DEF Finish
<1>2. ps \subseteq Procs /\ ps # {} /\ e > 0 /\ e \in Nat
  <2>0. psets \in Seq(Pset) /\ Len(psets) \in Nat
    BY Types DEF IInv
  <2>2. e \in Nat /\ e > 0 /\ psets[e] \in Pset
    BY <2>0 DEF Epochs
  <2>3. Members(e) \subseteq Procs
    <3>1. SetsInv
      BY DEF IInv
    <3> QED
      BY <2>0, <3>1, Ranks
  <2>1. psets[e] \in Pset /\ Members(e) \subseteq Procs /\ e > 0 /\ e \in Nat
    BY <2>2, <2>3
  <2> QED
    BY <1>1, <2>1 DEF AllAt, Pset
<1>3. Kept
  BY <1>1, SameSets DEF runtimeVars
<1>4. /\ \A p \in ps : Life[p] = "member" /\ Life'[p] = "ended"
      /\ \A p \in Procs \ ps : pc'[p] = pc[p] /\ main'[p] = main[p]
  <2>1. \A p \in ps : pc[p] = "barrier" /\ pc'[p] = "exit" /\ main'[p] = e
    BY <1>1, <1>2 DEF AllAt, Move
  <2>2. \A p \in Procs \ ps : pc'[p] = pc[p] /\ main'[p] = main[p]
    BY <1>1 DEF Move
  <2>3. \A p \in ps : Life[p] = "member" /\ Life'[p] = "ended"
    BY <1>2, <2>1, LifeOf
  <2> QED
    BY <2>2, <2>3
<1>5. Task!Change("member", "ended")
  <2>1. "member" # "ended" /\ ps \in SUBSET Procs
    BY <1>2
  <2> QED
    BY <1>2, <1>3, <1>4, <2>1, ChangeRefines
<1> QED
  BY <1>5 DEF TaskStep, Task!Next, Task!End

\* Spawned processes know the name of their set, which changes nothing for the
\* abstract task, or all of them are dismissed.
LEMMA JoinRefines ==
  ASSUME IInv, IInv', NEW e \in Epochs, Join(e)
  PROVE  TaskStep
<1>1. /\ Added(e) # {} /\ \A p \in Added(e) : p \in Procs /\ pc[p] = "waiting" /\ main[p] = 0
      /\ psets' = psets /\ log' = log
  BY JoinNames
<1>2. Kept
  BY <1>1, SameSets
<1>3. CASE /\ main' = main
           /\ pc' = [p \in Procs |-> IF p \in Added(e) THEN "exit" ELSE pc[p]]
  <2>1. /\ \A p \in Added(e) : Life[p] = "waiting" /\ Life'[p] = "dismissed"
        /\ \A p \in Procs \ Added(e) : pc'[p] = pc[p] /\ main'[p] = main[p]
    BY <1>1, <1>3, LifeOf
  <2>2. Added(e) \in SUBSET Procs /\ "waiting" # "dismissed"
    BY <1>1
  <2>3. Task!Change("waiting", "dismissed")
    BY <1>1, <1>2, <2>1, <2>2, ChangeRefines
  <2> QED
    BY <2>3 DEF TaskStep, Task!Next, Task!Dismiss
<1>4. CASE /\ main' = [p \in Procs |-> IF p \in Added(e) THEN Len(psets) ELSE main[p]]
           /\ pc' = [p \in Procs |-> IF p \in Added(e) THEN "init" ELSE pc[p]]
  <2>1. \A p \in Procs : Life'[p] = Life[p]
    BY <1>1, <1>4, LifeOf
  <2>2. Life' = Life
    BY <2>1, LifeOf
  <2> QED
    BY <1>2, <2>2, KeptTeam DEF TaskStep
<1> QED
  BY <1>3, <1>4, JoinNames

\* All who stay and all who wait make the new communicator.
LEMMA CreateRefines ==
  ASSUME IInv, IInv', NEW e \in Epochs, CreateComm(e)
  PROVE  TaskStep
<1>1. /\ e = Newest + 1 /\ Newest \in Nat /\ psets' = psets /\ main' = main /\ Newest' = e
      /\ log' \in Seq(Seq(Message)) /\ log \in Seq(Seq(Message))
      /\ Root(e) \in Members(e) /\ Members(e) \subseteq Procs
      /\ pc' = [p \in Procs |-> IF p \in Members(e)
                                THEN IF pc[p] = "recreate" THEN "itcast"
                                     ELSE IF p \in Orig THEN "step" ELSE "itrecv"
                                ELSE pc[p]]
      /\ \A p \in Members(e) : pc[p] \in {"init", "recreate"}
  BY Creates, CreateFrame, Types
<1>2. Team' = Members(e) /\ Team = IF Newest = 0 THEN {} ELSE Members(Newest)
  <2>1. log' # <<>> /\ Len(log') = e /\ (log = <<>> <=> Newest = 0) /\ Len(log) = Newest
    BY <1>1 DEF Newest
  <2>2. Team' = ToSet(psets'[Len(log')].members)
    BY <2>1 DEF Team, Members
  <2> QED
    BY <1>1, <2>1, <2>2 DEF Team, Members
<1>3. Life' = [p \in Procs |-> IF p \in Members(e) THEN "member" ELSE Life[p]]
  <2>1. ASSUME NEW p \in Procs
        PROVE  Life'[p] = IF p \in Members(e) THEN "member" ELSE Life[p]
    <3>1. CASE p \in Members(e)
      <4>1. pc'[p] \in {"itcast", "step", "itrecv"}
        BY <1>1, <3>1
      <4> QED
        BY <3>1, <4>1, LifeOf
    <3>2. CASE p \notin Members(e)
      <4>1. pc'[p] = pc[p] /\ main'[p] = main[p]
        BY <1>1, <3>2
      <4> QED
        BY <3>2, <4>1, LifeOf
    <3> QED
      BY <3>1, <3>2
  <2> QED
    BY <2>1, LifeOf
<1> DEFINE stay == {p \in Members(e) : pc[p] = "recreate"}
           wait == {p \in Members(e) : pc[p] = "init"}
<1>4. ASSUME NEW p \in Procs, p \notin Members(e)
      PROVE  Life[p] \notin {"waiting", "dismissed"}
  <2>1. CASE Newest = 0
    <3>1. p \notin Orig /\ Len(psets) = 1
      BY <1>1, <1>4, <2>1, Stages
    <3>2. Unborn(p)
      BY <2>1, <3>1 DEF IInv, PlaceInv, PlaceOf, IsMember, IsSpawned, IsDeparting, Stage,
         IsLaunched, Gone
    <3> QED
      BY <3>2, LifeOf DEF Unborn
  <2>2. CASE Newest > 0
    <3>1. Added(e) \subseteq Members(e)
      BY <2>2, CreateMembers
    <3>2. ~ IsSpawned(p)
      BY <1>1, <1>4, <3>1 DEF IsSpawned
    <3> QED
      BY <2>2, <3>2, NobodyWaits
  <2> QED
    BY <1>1, <2>1, <2>2
<1>5. Task!With("dismissed") = {} /\ Task!With("waiting") = wait
  <2>1. \A p \in Members(e) : /\ Life[p] # "dismissed"
                              /\ Life[p] = "waiting" <=> pc[p] = "init"
    BY <1>1, LifeOf
  <2> QED
    BY <1>1, <1>4, <2>1 DEF Task!With
<1>6. stay \subseteq Team \ Task!With("ended")
  <2>1. ASSUME NEW p \in stay
        PROVE  p \in Team /\ Life[p] # "ended"
    <3>1. IsMember(p)
      BY <1>1, Where
    <3>2. Life[p] = "member"
      BY <1>1, LifeOf
    <3> QED
      BY <1>2, <3>1, <3>2 DEF IsMember
  <2> QED
    BY <2>1 DEF Task!With
<1>7. Team' = stay \cup Task!With("waiting") /\ Team' # {}
  BY <1>1, <1>2, <1>5
<1>8. Team' # Team
  <2>1. CASE Newest = 0
    BY <1>1, <1>2, <2>1
  <2>2. CASE Newest > 0
    <3>1. /\ Added(e) \subseteq Members(e) /\ Added(e) \cap Members(Newest) = {}
          /\ psets[e].removed = Members(Newest) \ Members(e)
          /\ Added(e) = {} <=> psets[e].removed # {}
      <4>1. IsMainSet(e) /\ e > 1 /\ e - 1 = Newest /\ Newest \in 1 .. e - 1
        BY <1>1, <2>2 DEF IInv, SetsInv
      <4> QED
        BY <4>1 DEF IsMainSet
    <3> QED
      BY <1>1, <1>2, <2>2, <3>1
  <2> QED
    BY <1>1, <2>1, <2>2
<1>9. Life' = [p \in Procs |-> IF p \in Team' THEN "member" ELSE Life[p]]
  BY <1>2, <1>3
<1> HIDE DEF stay, wait
<1>10. Task!Switch
  BY <1>5, <1>6, <1>7, <1>8, <1>9 DEF Task!Switch
<1> QED
  BY <1>10 DEF TaskStep, Task!Next

\* Initial states are initial states of the abstract task.
LEMMA InitRefines ==
  ASSUME Init
  PROVE  Task!Init
<1>1. pc = [p \in Procs |-> IF p \in Orig THEN "init" ELSE "off"] /\ log = <<>>
  BY DEF Init
<1>2. \A p \in Procs : Life[p] \in {"spare", "waiting"} /\ (p \in Orig => Life[p] = "waiting")
  BY <1>1, LifeOf
<1>3. 1 \in Procs /\ 1 \in Orig
  <2>1. Procs = 1 .. Cardinality(Procs) /\ Cardinality(Procs) \in Nat
    BY ProcsAssumption, FS_CardinalityType
  <2> QED
    BY <2>1, OrigAssumption DEF Orig
<1>4. Life \in [Procs -> {"spare", "waiting"}] /\ Task!With("waiting") # {}
  BY <1>2, <1>3, LifeOf DEF Task!With
<1>5. Team = {}
  BY <1>1 DEF Team
<1> QED
  BY <1>4, <1>5 DEF Task!Init

\* The macros keep the promise of a malleable task, for any number of processes
\* and any sizes: the processes of a spawned set join all at once, with all who
\* stay, or are dismissed because the task ends, and nobody who has ended is in
\* a later team.
THEOREM RefinesMalleable == Spec => ImplementsMalleable
<1>1. Init => Task!Init
  BY InitRefines
<1>2. IInv /\ IInv' /\ [Next]_vars => [Task!Next]_(Task!vars)
  <2> SUFFICES ASSUME IInv, IInv', [Next]_vars PROVE TaskStep
    BY DEF TaskStep, Task!vars
  <2>1. CASE Execute
    BY <2>1, ExecuteRefines
  <2>2. CASE \E p \in Procs : Step(p)
    BY <2>2, StepRefines
  <2>3. CASE \E e \in 1 .. MaxPsets : Collective(e)
    <3>1. PICK e \in Epochs : Collective(e)
      BY <2>3 DEF Collective, Epochs
    <3>2. CASE CreateComm(e) \/ Join(e) \/ Finish(e)
      BY <3>2, CreateRefines, JoinRefines, FinishRefines
    <3>3. CASE ~ (CreateComm(e) \/ Join(e) \/ Finish(e))
      BY <3>1, <3>3, TogetherRefines DEF Collective
    <3> QED
      BY <3>2, <3>3
  <2>4. CASE UNCHANGED vars
    <3>1. pc' = pc /\ main' = main /\ log' = log /\ psets' = psets
      BY <2>4 DEF vars, runtimeVars
    <3>2. Life' = Life
      BY <3>1, LifeOf
    <3> QED
      BY <3>1, <3>2, SameTeam DEF TaskStep
  <2> QED
    BY <2>1, <2>2, <2>3, <2>4 DEF Next
<1> QED
  BY <1>1, <1>2, Inductive, PTL DEF Spec, ImplementsMalleable, Task!Spec

=============================================================================
