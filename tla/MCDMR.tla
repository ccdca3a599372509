-------------------------------- MODULE MCDMR --------------------------------
(* Small instances of DMR and Grow for TLC: two programs on one runtime. *)
EXTENDS Grow

CONSTANT Programs   \* "sleep" (dmr.h, sleep.c) and "grow" (grow.c)

VARIABLE program

MCInit == Init /\ program \in Programs

MCStep(p) == /\ \/ program = "sleep" /\ Step(p)
                \/ program = "grow" /\ GrowStep(p)
             /\ UNCHANGED program

MCCollective(e) == /\ \/ program = "sleep" /\ Collective(e)
                      \/ program = "grow" /\ GrowCollective(e)
                   /\ UNCHANGED program

MCNext == \/ program = "sleep" /\ Execute /\ UNCHANGED program
          \/ \E p \in Procs : MCStep(p)
          \/ \E e \in 1 .. MaxPsets : MCCollective(e)

\* The fairness of DMR, for both programs.
MCSpec == /\ MCInit /\ [][MCNext]_<<vars, program>>
          /\ \A p \in Procs : WF_<<vars, program>>(MCStep(p))
          /\ \A e \in 1 .. MaxPsets : WF_<<vars, program>>(MCCollective(e))

=============================================================================
