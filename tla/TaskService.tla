---------------------------- MODULE TaskService -----------------------------
(***************************************************************************)
(* What the static executor promises to its clients, without threads,      *)
(* locks, sockets or messages: every request is decided on once, either    *)
(* turned away or assigned to one worker that has no other task; a worker  *)
(* may take its next task while it still reports the previous one, but it  *)
(* neither starts nor finishes a task before that report is out; the state *)
(* known of a task goes from nothing to RUNNING to a final state.          *)
(***************************************************************************)
CONSTANTS Requests, Workers, None

VARIABLES
  working,    \* working[w]: the task assigned to w and not finished
  reporting,  \* reporting[w]: the finished task w has still to report
  known,      \* known[r]: the state the outside knows of r
  decided     \* the requests that were turned away or assigned

vars == <<working, reporting, known, decided>>

Init ==
  /\ working = [w \in Workers |-> None]
  /\ reporting = [w \in Workers |-> None]
  /\ known = [r \in Requests |-> "none"]
  /\ decided = {}

TurnAway(r) ==
  /\ r \notin decided
  /\ decided' = decided \cup {r}
  /\ UNCHANGED <<working, reporting, known>>

Assign(r, w) ==
  /\ r \notin decided
  /\ working[w] = None
  /\ decided' = decided \cup {r}
  /\ working' = [working EXCEPT ![w] = r]
  /\ UNCHANGED <<reporting, known>>

Start(w) ==
  /\ working[w] # None
  /\ reporting[w] = None
  /\ known[working[w]] = "none"
  /\ known' = [known EXCEPT ![working[w]] = "RUNNING"]
  /\ UNCHANGED <<working, reporting, decided>>

Finish(w) ==
  /\ working[w] # None
  /\ reporting[w] = None
  /\ reporting' = [reporting EXCEPT ![w] = working[w]]
  /\ working' = [working EXCEPT ![w] = None]
  /\ UNCHANGED <<known, decided>>

\* The final state gets through, or is lost.
Settle(w) ==
  /\ reporting[w] # None
  /\ \/ \E s \in {"ERROR", "TERMINATED"} :
           known' = [known EXCEPT ![reporting[w]] = s]
     \/ UNCHANGED known
  /\ reporting' = [reporting EXCEPT ![w] = None]
  /\ UNCHANGED <<working, decided>>

Next ==
  \/ \E r \in Requests : TurnAway(r) \/ \E w \in Workers : Assign(r, w)
  \/ \E w \in Workers : Start(w) \/ Finish(w) \/ Settle(w)

Spec == Init /\ [][Next]_vars

=============================================================================
