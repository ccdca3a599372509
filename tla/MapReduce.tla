----------------------------- MODULE MapReduce ------------------------------
(***************************************************************************)
(* The task functions of dyn.c: map distributes an array of integers over  *)
(* the files of its targets, one sort task per target sorts its file,      *)
(* reduce merges the sorted files.  sortFile sorts a whole file by merge   *)
(* sort.  The tasks are processes of their own (Launcher) that only share  *)
(* files; the graph server, which is external, starts a task when those it *)
(* depends on have ended.  Every file can be read and written, and the     *)
(* input file does not end in a space or a newline.                        *)
(***************************************************************************)
EXTENDS Integers, Sequences, FiniteSets, Functions

CONSTANTS
  Values,      \* the integers in the input
  Sizes,       \* how many integers map may have read
  NumTargets   \* the targets of map: num_targets

ASSUME TargetsAssumption == NumTargets \in Nat \ {0}
ASSUME SizesAssumption == Sizes \subseteq Nat \ {0}

Targets == 0 .. NumTargets - 1

\* A file is a sequence of integers and separators.
Sep == 0
ASSUME ValuesAssumption == Values \subseteq Int \ {Sep}

VARIABLES
  input,    \* the integers map has read
  next,     \* the loop index of distribute_data_to_targets
  dist,     \* dist[t]: the file map has written for target t
  arr,      \* arr[t]: the array of the sort task of t
  round,    \* round[t]: its outer loop index i
  pc,       \* pc[t]: "wait", "sorting" or "sorted"
  reduced,  \* reduce has ended
  output    \* what it has written

vars == <<input, next, dist, arr, round, pc, reduced, output>>

Init ==
  /\ \E n \in Sizes : input \in [1 .. n -> Values]
  /\ next = 0
  /\ dist = [t \in Targets |-> <<>>]
  /\ arr = [t \in Targets |-> <<>>]
  /\ round = [t \in Targets |-> 0]
  /\ pc = [t \in Targets |-> "wait"]
  /\ reduced = FALSE /\ output = <<>>

-----------------------------------------------------------------------------
(* The files. *)

\* Mutant: a separator after the last integer too.
WriteTrailing(a) == [i \in 1 .. 2 * Len(a) |-> IF i % 2 = 1 THEN a[(i + 1) \div 2] ELSE Sep]

\* write_file_in_bulk: a separator after each integer but the last.
Write(a) == [i \in 1 .. 2 * Len(a) - 1 |-> IF i % 2 = 1 THEN a[(i + 1) \div 2] ELSE Sep]

Ints(file) == SelectSeq(file, LAMBDA v : v # Sep)

\* read_file_in_bulk: it takes the number of separators plus one as the number
\* of integers; if there are fewer, the last were never assigned.
ReadBulk(file) ==
  LET count == Cardinality({i \in DOMAIN file : file[i] = Sep}) + 1
      ints == Ints(file)
  IN {ints \o junk : junk \in [1 .. count - Len(ints) -> Values]}

-----------------------------------------------------------------------------
(* map *)

\* Mutant: the remainder is handed to the last targets, from the same start.
ChunkShifted(index) ==
  LET size == Len(input) \div NumTargets
      remaining == Len(input) % NumTargets
      start == index * size
      end == start + size - (IF index < remaining THEN 0 ELSE 1)
  IN SubSeq(input, start + 1, end)

\* data[start .. end - 1] of target index: chunk_size elements, and one more
\* for the first targets if the division leaves a remainder.
Chunk(index) ==
  LET size == Len(input) \div NumTargets
      remaining == Len(input) % NumTargets
      start == index * size
      end == start + size + (IF index < remaining THEN 1 ELSE 0)
  IN SubSeq(input, start + 1, end)

Distribute ==
  /\ next < NumTargets
  /\ dist' = [dist EXCEPT ![next] = Write(Chunk(next))]
  /\ next' = next + 1
  /\ UNCHANGED <<input, arr, round, pc, reduced, output>>

-----------------------------------------------------------------------------
(* sort *)

Swap(a, j) == [a EXCEPT ![j] = a[j + 1], ![j + 1] = a[j]]

\* Mutant: the inner loop stops one element early.
PassShort(a, i) ==
  LET after[j \in 0 .. Len(a) - i - 2] ==
        IF j = 0 THEN a
        ELSE IF after[j - 1][j] > after[j - 1][j + 1]
             THEN Swap(after[j - 1], j) ELSE after[j - 1]
  IN after[Len(a) - i - 2]

\* The inner loop of sort_integer_array for outer index i.
Pass(a, i) ==
  LET after[j \in 0 .. Len(a) - i - 1] ==
        IF j = 0 THEN a
        ELSE IF after[j - 1][j] > after[j - 1][j + 1]
             THEN Swap(after[j - 1], j) ELSE after[j - 1]
  IN after[Len(a) - i - 1]

\* The task reads its file once map has ended.
StartSort(t) ==
  /\ pc[t] = "wait"
  /\ next = NumTargets
  /\ \E a \in ReadBulk(dist[t]) : arr' = [arr EXCEPT ![t] = a]
  /\ pc' = [pc EXCEPT ![t] = "sorting"]
  /\ UNCHANGED <<input, next, dist, round, reduced, output>>

\* Mutant: the outer loop runs to n, also when nothing was swapped.
SortRoundOverrun(t) ==
  /\ pc[t] = "sorting"
  /\ IF round[t] < Len(arr[t])
     THEN /\ arr' = [arr EXCEPT ![t] = Pass(arr[t], round[t])]
          /\ round' = [round EXCEPT ![t] = round[t] + 1]
          /\ UNCHANGED pc
     ELSE pc' = [pc EXCEPT ![t] = "sorted"] /\ UNCHANGED <<arr, round>>
  /\ UNCHANGED <<input, next, dist, reduced, output>>

\* One round of the outer loop; it ends at n - 1 or when nothing was swapped.
SortRound(t) ==
  /\ pc[t] = "sorting"
  /\ LET i == round[t]
     IN IF i < Len(arr[t]) - 1
        THEN LET a == Pass(arr[t], i)
             IN /\ arr' = [arr EXCEPT ![t] = a]
                /\ IF a = arr[t]
                   THEN pc' = [pc EXCEPT ![t] = "sorted"] /\ UNCHANGED round
                   ELSE round' = [round EXCEPT ![t] = i + 1] /\ UNCHANGED pc
        ELSE pc' = [pc EXCEPT ![t] = "sorted"] /\ UNCHANGED <<arr, round>>
  /\ UNCHANGED <<input, next, dist, reduced, output>>

-----------------------------------------------------------------------------
(* reduce, and the merge sort of sortFile *)

\* Mutant: the rest of the second array is forgotten.
MergeForgets(a, b) ==
  LET from[i \in 1 .. Len(a) + 1, j \in 1 .. Len(b) + 1] ==
        IF i > Len(a) THEN <<>>
        ELSE IF j > Len(b) THEN SubSeq(a, i, Len(a))
        ELSE IF a[i] <= b[j] THEN <<a[i]>> \o from[i + 1, j]
                             ELSE <<b[j]>> \o from[i, j + 1]
  IN from[1, 1]

\* merge_arrays, and merge on the two halves of one array.
Merge(a, b) ==
  LET from[i \in 1 .. Len(a) + 1, j \in 1 .. Len(b) + 1] ==
        IF i > Len(a) THEN SubSeq(b, j, Len(b))
        ELSE IF j > Len(b) THEN SubSeq(a, i, Len(a))
        ELSE IF a[i] <= b[j] THEN <<a[i]>> \o from[i + 1, j]
                             ELSE <<b[j]>> \o from[i, j + 1]
  IN from[1, 1]

\* Mutant: two elements are taken to be in order.
MergeSortStopsEarly(a) ==
  LET half(l, r) == l + (r - l) \div 2
      ms[l \in 1 .. Len(a) + 1, r \in 0 .. Len(a)] ==
        IF l + 1 < r THEN Merge(ms[l, half(l, r)], ms[half(l, r) + 1, r])
                     ELSE SubSeq(a, l, r)
  IN ms[1, Len(a)]

\* mergeSort(arr, l, r) with 1-based indices.
MergeSort(a) ==
  LET half(l, r) == l + (r - l) \div 2
      ms[l \in 1 .. Len(a) + 1, r \in 0 .. Len(a)] ==
        IF l < r THEN Merge(ms[l, half(l, r)], ms[half(l, r) + 1, r])
                 ELSE SubSeq(a, l, r)
  IN ms[1, Len(a)]

\* Mutant: a last run that is shorter than the others is not merged.
MergeRunsOfFullSize(a, size) ==
  LET from[l \in 0 .. Len(a) + 2 * size] ==
        IF l + 2 * size > Len(a) THEN SubSeq(a, l + 1, Len(a))
        ELSE Merge(SubSeq(a, l + 1, l + size), SubSeq(a, l + size + 1, l + 2 * size))
             \o from[l + 2 * size]
  IN from[0]

\* One round of mergeSort2: runs of size curr_size are merged in pairs, the
\* last of them as far as the array goes.
MergeRuns(a, size) ==
  LET n == Len(a)
      upto(i) == IF i < n THEN i ELSE n
      from[l \in 0 .. n + 2 * size] ==
        IF l >= n - 1 THEN SubSeq(a, l + 1, n)
        ELSE Merge(SubSeq(a, l + 1, upto(l + size)),
                   SubSeq(a, upto(l + size) + 1, upto(l + 2 * size)))
             \o from[l + 2 * size]
  IN from[0]

\* mergeSort2(arr, n): curr_size doubles while it is below n.
MergeSort2(a) ==
  LET before[size \in 1 .. 2 * Len(a) + 1] ==
        IF size = 1 THEN a ELSE MergeRuns(before[size \div 2], size \div 2)
      end == CHOOSE size \in {2 ^ k : k \in 0 .. Len(a)} :
               Len(a) <= size /\ (size = 1 \/ size \div 2 < Len(a))
  IN before[end]

\* The arrays read from the files of the targets, merged from target 0 on.
Merged(files) ==
  LET upto[t \in Targets] ==
        IF t = 0 THEN files[0] ELSE Merge(upto[t - 1], files[t])
  IN upto[NumTargets - 1]

\* reduce reads what each sort task has written.
Reduce ==
  /\ \A t \in Targets : pc[t] = "sorted"
  /\ ~ reduced
  /\ reduced' = TRUE
  /\ LET read(t) == ReadBulk(Write(arr[t]))
     IN \E files \in [Targets -> UNION {read(t) : t \in Targets}] :
          /\ \A t \in Targets : files[t] \in read(t)
          /\ output' = Merged(files)
  /\ UNCHANGED <<input, next, dist, arr, round, pc>>

Next == Distribute \/ Reduce \/ \E t \in Targets : StartSort(t) \/ SortRound(t)

Spec == Init /\ [][Next]_vars

-----------------------------------------------------------------------------
(* Properties. *)

IsSorted(s) == \A i \in 1 .. Len(s) - 1 : s[i] <= s[i + 1]
Occurs(s, v) == Cardinality({i \in DOMAIN s : s[i] = v})
SameElements(s, u) == \A v \in Values : Occurs(s, v) = Occurs(u, v)
OccursInAll(f, v) ==
  FoldFunction(LAMBDA s, n : Occurs(s, v) + n, 0, f)

\* Every variable has its type; the loop index i of a sort task never reaches
\* the size of its array (sort_integer_array).
TypeOK ==
  /\ next \in 0 .. NumTargets
  /\ reduced \in BOOLEAN
  /\ \A t \in Targets :
       /\ dist[t] \in Seq(Values \cup {Sep}) /\ arr[t] \in Seq(Values)
       /\ round[t] \in Nat /\ (round[t] = 0 \/ round[t] < Len(arr[t]))
       /\ pc[t] \in {"wait", "sorting", "sorted"}

\* A sort task ends with the elements of its file in order, though it stops at
\* the first round that swaps nothing (sort_integer_array).
TaskSorts ==
  \A t \in Targets : pc[t] = "sorted" =>
    /\ IsSorted(arr[t])
    /\ dist[t] # <<>> => SameElements(arr[t], Ints(dist[t]))

\* The result of reduce is in order and has every element of every file as
\* often as the files have it, one of them being longer, empty or all of one
\* value (reduce, merge_arrays).
ReduceMerges ==
  reduced =>
    /\ IsSorted(output)
    /\ \A v \in Values : Occurs(output, v) = OccursInAll(arr, v)

\* The whole graph of tasks sorts its input, when the targets divide its size:
\* map loses and repeats nothing then (distribute_data_to_targets).
GraphSorts ==
  reduced /\ Len(input) % NumTargets = 0 =>
    IsSorted(output) /\ SameElements(output, input)

\* sortFile's merge sort gives what the graph of tasks gives on such an input.
MergeSortAgrees ==
  reduced /\ Len(input) % NumTargets = 0 => output = MergeSort(input)

\* The iterative merge sort gives what the recursive one gives, on every input,
\* whatever is left for the last pair of runs (mergeSort2, mergeSort).
IterativeAgrees == reduced => MergeSort2(input) = MergeSort(input)

\* "deliver data" (dyn.c:150): every element of the input is in the file of
\* some target, as often as it is in the input.
AllDelivered ==
  next = NumTargets =>
    \A v \in Values : OccursInAll(dist, v) = Occurs(input, v)

\* "Count the number of integers" (file_helper.h:70): a task that starts has as
\* many integers as there are in its file.
ReadCounts ==
  \A t \in Targets : pc[t] = "sorting" => Len(arr[t]) = Len(Ints(dist[t]))

=============================================================================
