----------------------------- MODULE Malleable ------------------------------
(***************************************************************************)
(* What a task that grows and shrinks promises, whichever of the two       *)
(* libraries it uses: it always has one team of processes, which is        *)
(* replaced as a whole.  Processes spawned by one operation wait together, *)
(* and either all of them join, at once and with everybody who stays, or   *)
(* they are dismissed, after which the team never changes again.  Nobody   *)
(* who has ended is in a later team.                                       *)
(***************************************************************************)
CONSTANT Procs

VARIABLES
  life,  \* life[p]: "spare", "waiting", "member", "dismissed" or "ended"
  team   \* the processes that share the task's communicator

vars == <<life, team>>

With(l) == {p \in Procs : life[p] = l}

Init ==
  /\ life \in [Procs -> {"spare", "waiting"}]
  /\ With("waiting") # {}
  /\ team = {}

\* Some processes go from one part to another.
Change(from, to) ==
  /\ UNCHANGED team
  /\ life' # life
  /\ \E ps \in SUBSET With(from) :
       life' = [p \in Procs |-> IF p \in ps THEN to ELSE life[p]]

\* An operation spawns processes; there is one operation at a time.
Spawn ==
  /\ With("waiting") = {} /\ With("dismissed") = {}
  /\ Change("spare", "waiting")

\* The team is replaced by those of it who stay and all who wait.
Switch ==
  /\ team' # team
  /\ With("dismissed") = {}
  /\ \E stay \in SUBSET (team \ With("ended")) : team' = stay \cup With("waiting")
  /\ team' # {}
  /\ life' = [p \in Procs |-> IF p \in team' THEN "member" ELSE life[p]]

\* Processes that wait are told that the task ends.
Dismiss == Change("waiting", "dismissed")

\* Members leave: because the team goes on without them, or because it ends.
End == Change("member", "ended")

Next == Spawn \/ Switch \/ Dismiss \/ End

Spec == Init /\ [][Next]_vars

=============================================================================
