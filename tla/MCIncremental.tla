---------------------------- MODULE MCIncremental ----------------------------
(***************************************************************************)
(* Incremental for TLC: the worlds each run looks at.  A world of one      *)
(* mutant is there for either, so that the mutants are a symmetry set.     *)
(***************************************************************************)
EXTENDS Incremental, TLC

CONSTANTS g1, g2

MCVerdicts == {Lived, NotViable, InfraError}
MCGenerations == {g1, g2}
Symmetric  == Permutations(AllMutants)

Single == {{m} : m \in AllMutants}

\* A package tested by its own suite, edited at any time.
Own(ms, reverts, e) ==
    [mutants |-> ms, generations |-> {g1}, crossPkg |-> FALSE, resolves |-> TRUE,
     midRunEdits |-> TRUE, reverts |-> reverts, readsFail |-> FALSE, edits |-> e, runs |-> 2]

\* An importing suite, and files edited between the runs only.
Between(ms) ==
    [mutants |-> ms, generations |-> {g1, g2}, crossPkg |-> TRUE, resolves |-> TRUE,
     midRunEdits |-> FALSE, reverts |-> TRUE, readsFail |-> FALSE, edits |-> 2, runs |-> 3]

\* Reads that fail.
Unread(ms) ==
    [Between(ms) EXCEPT !.readsFail = TRUE, !.crossPkg = FALSE, !.generations = {g1},
                        !.edits = 1]

PassingWorlds ==
    {Own(AllMutants, FALSE, 1)}
      \cup UNION {{Own(ms, FALSE, 2), Between(ms), Unread(ms)} : ms \in Single}
TestRevertWorlds == {Own(ms, TRUE, 2) : ms \in Single}
ImporterEditWorlds == {[Own(ms, FALSE, 1) EXCEPT !.crossPkg = TRUE] : ms \in Single}
CarryOverWorlds ==
    {[Own(AllMutants, FALSE, 1) EXCEPT !.resolves = FALSE, !.midRunEdits = FALSE]}
=============================================================================
