------------------------------- MODULE MCTce -------------------------------
(***************************************************************************)
(* Tce for TLC.  Package 1 has the files 1 and 2, package 2 the file 3 and *)
(* code inlined from file 2.  Text 1 compiles as text 0 does, text 2 does  *)
(* not.                                                                    *)
(***************************************************************************)
EXTENDS Tce

Code(text) == IF text = 2 THEN 2 ELSE 1

MCAsm == << [s \in Sources |-> Code(s[1]) + 3 * Code(s[2])],
            [s \in Sources |-> Code(s[3]) + 3 * Code(s[2]) + 9] >>

MCMutation ==
    << [pkg |-> 2, file |-> 3, text |-> 1, ok |-> TRUE],
       [pkg |-> 1, file |-> 1, text |-> 1, ok |-> TRUE],
       [pkg |-> 1, file |-> 2, text |-> 2, ok |-> TRUE] >>
MCPlace == <<3, 1, 2>>
MCGiven == {Lived, Killed}
MCOthers == {3}
=============================================================================
