----------------------------- MODULE MCDynPsets -----------------------------
(* Small instances of DynPsets for TLC. *)
EXTENDS DynPsets

\* One process grows to three and five; pairs are spawned.
Expanding ==
  [mode : {"expand"}, numOrig : {1}, step : {2}, limit : {5}, iterations : {3},
   nonBlocking : BOOLEAN, initInfo : BOOLEAN, maxSets : {3}, sync : {TRUE}]

\* Four processes lose any one at a time, rank 0 included, and
\* MPI_Comm_disconnect does not wait for the one that leaves.
Shrinking ==
  [mode : {"shrink"}, numOrig : {4}, step : {1}, limit : {1}, iterations : {3},
   nonBlocking : BOOLEAN, initInfo : BOOLEAN, maxSets : {4}, sync : {FALSE}]

MCUses == Expanding \cup Shrinking

\* Processes are spawned one at a time.
MCOneByOne ==
  [mode : {"expand"}, numOrig : {1}, step : {1}, limit : {3}, iterations : {3},
   nonBlocking : {TRUE}, initInfo : {FALSE}, maxSets : {3}, sync : {TRUE}]

\* Two processes lose one, and MPI_Comm_disconnect waits for all.
MCShrinkSync ==
  [mode : {"shrink"}, numOrig : {2}, step : {1}, limit : {1}, iterations : {3},
   nonBlocking : {TRUE}, initInfo : {FALSE}, maxSets : {2}, sync : {TRUE}]

=============================================================================
