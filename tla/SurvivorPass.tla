---------------------------- MODULE SurvivorPass ----------------------------
(***************************************************************************)
(* What the equivalence pass promises, without compilers or workers: a     *)
(* survivor whose code is the original's may be reclassified, every other  *)
(* mutant keeps its status, and the pass ends.  Tce implements this        *)
(* specification.                                                          *)
(***************************************************************************)
EXTENDS Statuses

CONSTANTS Mutants,   \* the indices of the mutants slice
          Given,     \* the statuses a mutant may come with
          Provable   \* the mutants that may be declared equivalent

VARIABLES status,    \* the status of each mutant
          running    \* the pass has not returned

vars == <<status, running>>

Init ==
    /\ status \in [Mutants -> Given]
    /\ running = TRUE

Prove(i) ==
    /\ running
    /\ status[i] = Lived
    /\ i \in Provable
    /\ status' = [status EXCEPT ![i] = Equivalent]
    /\ UNCHANGED running

Finish ==
    /\ running
    /\ running' = FALSE
    /\ UNCHANGED status

Next == Finish \/ \E i \in Mutants : Prove(i)

Spec == Init /\ [][Next]_vars /\ WF_vars(Next)
=============================================================================
