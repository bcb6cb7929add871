----------------------------- MODULE MCPipeline -----------------------------
(***************************************************************************)
(* Pipeline for TLC.                                                       *)
(***************************************************************************)
EXTENDS Pipeline, TLC

MCVerdicts    == {Killed, Lived, NotViable, InfraError}
MCPercentages == {0, 60, 100}
Symmetric     == Permutations(Mutants)
=============================================================================
