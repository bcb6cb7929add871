------------------------------- MODULE MCPool -------------------------------
(***************************************************************************)
(* Pool for TLC.  The IDs are not the positions, and two mutants share a   *)
(* sort key.                                                               *)
(***************************************************************************)
EXTENDS Pool

MCId       == <<2, 5, 1>>
MCSortKey  == <<2, 1, 1>>
MCGiven    == {Pending, NotCovered}
MCVerdicts == {Killed, InfraError}
=============================================================================
