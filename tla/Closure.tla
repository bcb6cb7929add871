------------------------------ MODULE Closure ------------------------------
(***************************************************************************)
(* The packages whose tests an --integration run builds and runs:          *)
(* IntegrationClosure (internal/discover/revdeps.go) walks the import      *)
(* graph of the module backwards from the target packages, and             *)
(* integrationScope (main.go) falls back to the whole module when the      *)
(* graph cannot be had.                                                    *)
(***************************************************************************)
EXTENDS Naturals, Sequences

CONSTANTS Packages,  \* every package a test binary can be linked from
          Module,    \* those `go list` finds in the module
          Targets,   \* the packages of the run, as a sequence
          Graphs     \* what packages import, their tests too

ASSUME ModuleAssumption == Module \subseteq Packages
ASSUME TargetsAssumption == Targets \in Seq(Module) /\ Targets # <<>>
ASSUME GraphsAssumption ==
    Graphs \subseteq [imports : [Packages -> SUBSET Packages],
                      tests : [Packages -> SUBSET Packages]]

VARIABLES
    pc,        \* "list", "seed", "search", "fallback" or "returned"
    graph,
    seeded,    \* how many of Targets were looked at
    visited,
    queue,
    cur,       \* the package whose importers are looked at
    rest,      \* those of them still to come
    patterns   \* the packages `go test` is given

vars == <<pc, graph, seeded, visited, queue, cur, rest, patterns>>

InSeq(x, s) == \E i \in DOMAIN s : s[i] = x
TargetSet == {p \in Module : InSeq(p, Targets)}

TypeOK ==
    /\ pc \in {"list", "seed", "search", "fallback", "returned"}
    /\ graph \in Graphs
    /\ seeded \in 0..Len(Targets)
    /\ visited \subseteq Module
    /\ queue \in Seq(visited)
    /\ rest \subseteq Module
    /\ cur \in visited \cup {"none"}
    /\ patterns \subseteq Module

Init ==
    /\ pc = "list" /\ graph \in Graphs
    /\ seeded = 0 /\ visited = {} /\ queue = <<>> /\ cur = "none" /\ rest = {}
    /\ patterns = {}

\* Faulty: the external tests' and the tests' own imports are no edges.
FaultyModuleLocalImports(p) == graph.imports[p] \cap Module

(* moduleLocalImports.                                                     *)
ModuleLocalImports(p) == (graph.imports[p] \cup graph.tests[p]) \cap Module

\* Faulty: the graph is not inverted on the way.
FaultyImporters(p) ==
    {q \in Module : p \in ModuleLocalImports(q) \/ q \in ModuleLocalImports(p)}

(* The inverted graph.                                                     *)
Importers(p) == {q \in Module : p \in ModuleLocalImports(q)}

List ==
    /\ pc = "list" /\ pc' \in {"seed", "fallback"}
    /\ UNCHANGED <<graph, seeded, visited, queue, cur, rest, patterns>>

(* bfsReachable marks a package as it is queued.                           *)
Enqueue(p) ==
    IF p \in visited THEN UNCHANGED <<visited, queue>>
    ELSE visited' = visited \cup {p} /\ queue' = Append(queue, p)

Seed ==
    /\ pc = "seed" /\ seeded < Len(Targets)
    /\ seeded' = seeded + 1 /\ Enqueue(Targets[seeded + 1])
    /\ UNCHANGED <<pc, graph, cur, rest, patterns>>

StartSearch ==
    /\ pc = "seed" /\ seeded = Len(Targets)
    /\ pc' = "search"
    /\ UNCHANGED <<graph, seeded, visited, queue, cur, rest, patterns>>

Dequeue ==
    /\ pc = "search" /\ rest = {} /\ queue # <<>>
    /\ cur' = Head(queue) /\ queue' = Tail(queue)
    /\ rest' = Importers(Head(queue))
    /\ UNCHANGED <<pc, graph, seeded, visited, patterns>>

\* Faulty: an importer is marked, but not searched from.
FaultyLook ==
    /\ pc = "search"
    /\ \E p \in rest :
         /\ rest' = rest \ {p}
         /\ visited' = visited \cup {p}
    /\ UNCHANGED <<pc, graph, seeded, queue, cur, patterns>>

(* The order of a package's importers is that of a map.                    *)
Look ==
    /\ pc = "search"
    /\ \E p \in rest : rest' = rest \ {p} /\ Enqueue(p)
    /\ UNCHANGED <<pc, graph, seeded, cur, patterns>>

Return ==
    /\ pc = "search" /\ rest = {} /\ queue = <<>>
    /\ pc' = "returned" /\ patterns' = visited
    /\ UNCHANGED <<graph, seeded, visited, queue, cur, rest>>

(* integrationScope without a graph: all of the module.                    *)
FallBack ==
    /\ pc = "fallback"
    /\ pc' = "returned" /\ patterns' = Module
    /\ UNCHANGED <<graph, seeded, visited, queue, cur, rest>>

Done == pc = "returned" /\ UNCHANGED vars

Next ==
    \/ List \/ Seed \/ StartSearch \/ Dequeue \/ Look \/ Return \/ FallBack
    \/ Done

Spec == Init /\ [][Next]_vars

---------------------------------------------------------------------------
Returned == pc = "returned"
Searched == Returned /\ visited # {}
Needs(p) == graph.imports[p] \cup graph.tests[p]
Closed(S) ==
    /\ TargetSet \subseteq S
    /\ \A p \in Module : Needs(p) \cap S # {} => p \in S

(* revdeps.go:93: what the search returns holds the targets, and with a    *)
(* package every one that imports it.                                      *)
ClosedUnderImporters == Searched => Closed(patterns)

(* revdeps.go:94: and nothing else: no package that reaches no target, for *)
(* whose tests every mutant would pay.                                     *)
NothingElse ==
    Searched =>
        \A S \in SUBSET Module : Closed(S) => patterns \subseteq S

(* What the test binary of p links: what its code and its tests import,    *)
(* and what that imports, but not what that is tested with.                *)
ClosedUnderImports(S) == \A q \in S : graph.imports[q] \subseteq S
Links(p) ==
    {p} \cup {q \in Packages :
                \A S \in SUBSET Packages :
                   (Needs(p) \subseteq S
                    /\ ClosedUnderImports(S)) => q \in S}

(* revdeps.go:18: only these packages' tests can kill a mutant of a        *)
(* target: a test binary that links one is among them, where nothing       *)
(* outside the module imports it.                                          *)
OutsideImportsNone ==
    \A q \in Packages \ Module : graph.imports[q] \cap Module = {}
KillersAreRun ==
    (Returned /\ OutsideImportsNone) =>
        \A p \in Module : Links(p) \cap TargetSet # {} => p \in patterns
=============================================================================
