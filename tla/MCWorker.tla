------------------------------ MODULE MCWorker ------------------------------
(***************************************************************************)
(* Worker for TLC: package 1 is tested by its own tests and by its         *)
(* importer 2, package 3 by its importer 2 alone.                          *)
(***************************************************************************)
EXTENDS Worker

MCHasTests == {1, 2}
MCLinks    == <<{1, 2}, {2}, {2, 3}>>

MCJobs ==
    << [own |-> 1, covered |-> {1, 2}, sum |-> 1],   \* routed across packages
       [own |-> 3, covered |-> {2}, sum |-> 3],      \* tested by an importer alone
       [own |-> 1, covered |-> {}, sum |-> 0],       \* no covering test
       [own |-> 3, covered |-> {}, sum |-> 0] >>     \* and no test of its own

(* The ways a process ends that the worker tells apart: its tests passed,  *)
(* failed, ran out of time or memory, or the host gave up.                 *)
Ending(mem, deadline, marker, killed) ==
    [err |-> TRUE, mem |-> mem, deadline |-> deadline, marker |-> marker,
     signature |-> FALSE, generic |-> FALSE, killed |-> killed,
     compile |-> FALSE, truncated |-> FALSE]
Success == [Ending(FALSE, FALSE, FALSE, "no") EXCEPT !.err = FALSE]

MCTestEndings ==
    {Success, Ending(FALSE, FALSE, TRUE, "no"), Ending(FALSE, TRUE, FALSE, "line"),
     Ending(TRUE, FALSE, FALSE, "line"), Ending(FALSE, FALSE, FALSE, "line")}

MCBuildEndings ==
    {Success, Ending(TRUE, FALSE, FALSE, "line"),
     [Ending(FALSE, FALSE, FALSE, "no") EXCEPT !.compile = TRUE]}
=============================================================================
