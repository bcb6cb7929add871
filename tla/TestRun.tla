------------------------------ MODULE TestRun ------------------------------
(***************************************************************************)
(* What a run of the mutant pool promises, without goroutines or channels: *)
(* every pending mutant is given at most one verdict, a mutant that was    *)
(* not pending is left alone, and the run ends, only with every mutant     *)
(* decided unless it was cancelled.  Pool implements this specification.   *)
(***************************************************************************)
EXTENDS Naturals, Statuses

CONSTANTS Mutants,   \* the indices of the mutants slice
          Given,     \* the statuses a mutant may come with
          Verdicts   \* the statuses testing a mutant may give it

VARIABLES status,    \* the status of each mutant
          running,   \* the run has not returned
          cancelled  \* the context is done

vars == <<status, running, cancelled>>

Init ==
    /\ status \in [Mutants -> Given]
    /\ running = TRUE
    /\ cancelled \in BOOLEAN

(* A mutant is tested.                                                     *)
Decide(i) ==
    /\ running
    /\ status[i] = Pending
    /\ \E v \in Verdicts : status' = [status EXCEPT ![i] = v]
    /\ UNCHANGED <<running, cancelled>>

(* The run cannot start at all: no mutant is left looking untested.        *)
Abandon ==
    /\ running
    /\ status' = [i \in Mutants |->
                    IF status[i] = Pending THEN InfraError ELSE status[i]]
    /\ running' = FALSE
    /\ UNCHANGED cancelled

Finish ==
    /\ running
    /\ cancelled \/ \A i \in Mutants : status[i] # Pending
    /\ running' = FALSE
    /\ UNCHANGED <<status, cancelled>>

Cancel ==
    /\ ~cancelled
    /\ cancelled' = TRUE
    /\ UNCHANGED <<status, running>>

Progress == Abandon \/ Finish \/ \E i \in Mutants : Decide(i)

Next == Progress \/ Cancel

Spec == Init /\ [][Next]_vars /\ WF_vars(Progress)
=============================================================================
