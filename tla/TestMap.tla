------------------------------ MODULE TestMap ------------------------------
(***************************************************************************)
(* internal/coverage/testmap.go: BuildTestMap.  Every package's test       *)
(* binary is compiled and asked for its tests, every test is run alone,    *)
(* the tests that cover a mutant's line are run together, and what passed  *)
(* becomes the routes of the line.  Packages are compiled one after        *)
(* another; tests are run by a pool of workers with a feeder, a closer and *)
(* the build itself as the collector.                                      *)
(*                                                                         *)
(* Any process of the build may fail, hang or be killed by the cancel of   *)
(* its context.  A test's duration is recorded with its blocks, and left   *)
(* out here.                                                               *)
(***************************************************************************)
EXTENDS Naturals, Sequences, FiniteSets, SequencesExt

CONSTANTS
    Pkgs,        \* the packages the patterns resolve to
    HasTests,    \* those with test files
    TestsIn,     \* TestsIn[p]: the tests of package p, in the order of its listing
    MayBeLost,   \* tests whose name the binary's own output may garble
    Links,       \* Links[q]: the packages whose test binary links package q
    Lines,       \* the source lines
    PkgOfLine,   \* the package each line is in
    Covers,      \* Covers[t]: the lines test t runs, in any package it links
    MutantLines, \* opts.Lines: the lines of the mutants to be tested
    NWorkers     \* opts.Workers

Tests   == UNION {ToSet(TestsIn[p]) : p \in Pkgs}
Workers == 1..NWorkers
NoTest  == "no test"

PkgOf(t) == CHOOSE p \in Pkgs : t \in ToSet(TestsIn[p])

ASSUME TestsAssumption ==
    /\ HasTests \subseteq Pkgs
    /\ \A p \in Pkgs : TestsIn[p] \in Seq(ToSet(TestsIn[p]))
    /\ \A p \in Pkgs : p \notin HasTests => TestsIn[p] = << >>
    /\ \A p, q \in Pkgs : p # q => ToSet(TestsIn[p]) \cap ToSet(TestsIn[q]) = {}
    /\ MayBeLost \subseteq Tests /\ NoTest \notin Tests
ASSUME LinesAssumption ==
    /\ PkgOfLine \in [Lines -> Pkgs] /\ MutantLines \subseteq Lines
    /\ Links \in [Pkgs -> SUBSET Pkgs]
    /\ Covers \in [Tests -> SUBSET Lines]
    \* A test runs code of the packages its binary links only.
    /\ \A t \in Tests : \A l \in Covers[t] :
         PkgOf(t) \in Links[PkgOfLine[l]] \cup {PkgOfLine[l]}
ASSUME WorkersAssumption == NWorkers \in Nat \ {0}

-----------------------------------------------------------------------------
VARIABLES
    stage,     \* where BuildTestMap is
    crossPkg,  \* opts.CoverPkg is set
    ctxDone,   \* the context was cancelled
    bins,      \* pkgBins: the packages whose test binary compiled
    suites,    \* tm.suites
    unlisted,  \* the packages listTests has not heard from
    tests,     \* the tests listed, in the order their listings ended
    listFails, \* a listing failed
    unfed,     \* the tests the feeder has not sent
    feeding,   \* the feeder runs
    work,      \* the work channel
    workOpen,  \* it is not closed
    at,        \* where each worker is
    held,      \* the test it is at
    stalled,   \* the packages with a test that timed out alone
    results,   \* the results channel, of capacity NWorkers
    resOpen,   \* it is not closed
    index,     \* tm.index: the tests routed to each line
    waiting,   \* the groups checkGroups has not started
    running,   \* those whose tests run
    failed,    \* those that did not pass
    known,     \* tm.testDeps: the packages whose links are known
    result,    \* what BuildTestMap returned
    \* history
    passed,    \* the groups of tests that passed when run together, or alone
    timedOut,  \* the tests that timed out alone
    cut        \* a process failed after the cancel

compiles == <<bins, suites>>
listing  == <<unlisted, tests, listFails>>
feeder   == <<unfed, feeding>>
channels == <<work, workOpen, results, resOpen>>
pool     == <<at, held>>
checks   == <<waiting, running, failed>>
history  == <<passed, timedOut, cut>>
vars     == <<stage, crossPkg, ctxDone, compiles, listing, feeder, channels, pool,
              stalled, index, checks, known, result, history>>

TypeOK ==
    /\ stage \in {"resolve", "compile", "compiled", "args", "list", "solo",
                  "check", "links", "returned"}
    /\ crossPkg \in BOOLEAN /\ ctxDone \in BOOLEAN
    /\ bins \subseteq HasTests /\ suites \subseteq Pkgs
    /\ unlisted \subseteq bins
    /\ tests \in Seq(Tests) /\ listFails \in BOOLEAN
    /\ unfed \in Seq(Tests) /\ feeding \in BOOLEAN
    /\ work \in Seq(Tests) /\ workOpen \in BOOLEAN
    /\ at \in [Workers -> {"idle", "held", "running", "sending", "gone"}]
    /\ held \in [Workers -> Tests \cup {NoTest}]
    /\ stalled \subseteq bins
    /\ results \in Seq(Tests) /\ Len(results) <= NWorkers /\ resOpen \in BOOLEAN
    /\ index \in [Lines -> SUBSET Tests]
    /\ waiting \subseteq SUBSET Tests /\ failed \subseteq SUBSET Tests
    /\ running \subseteq SUBSET Tests /\ Cardinality(running) <= NWorkers
    /\ known \subseteq suites
    /\ result \in {"none", "map", "error"}
    /\ passed \subseteq SUBSET Tests /\ timedOut \subseteq Tests /\ cut \in BOOLEAN

Init ==
    /\ stage = "resolve" /\ crossPkg \in BOOLEAN /\ ctxDone = FALSE
    /\ bins = {} /\ suites = {}
    /\ unlisted = {} /\ tests = << >> /\ listFails = FALSE
    /\ unfed = << >> /\ feeding = FALSE
    /\ work = << >> /\ workOpen = TRUE /\ results = << >> /\ resOpen = TRUE
    /\ at = [w \in Workers |-> "gone"] /\ held = [w \in Workers |-> NoTest]
    /\ stalled = {}
    /\ index = [l \in Lines |-> {}]
    /\ waiting = {} /\ running = {} /\ failed = {}
    /\ known = {} /\ result = "none"
    /\ passed = {} /\ timedOut = {} /\ cut = FALSE

-----------------------------------------------------------------------------
(* How a build ends.                                                       *)

Return(r) ==
    /\ stage' = "returned"
    /\ result' = r

Go(s) ==
    /\ stage' = s
    /\ UNCHANGED result

(* unrouted: without -coverpkg the map can be done without.  (Faulty: with *)
(* it, too.)                                                               *)
FaultyUnrouted == Return("error")
Unrouted == Return(IF crossPkg THEN "map" ELSE "error")

(* A process fails; the cancel may have killed it.                         *)
Fails == cut' = (cut \/ ctxDone)

-----------------------------------------------------------------------------
(* The packages.                                                           *)

Resolve ==
    /\ stage = "resolve"
    /\ Go("compile") \/ Return("error")
    /\ UNCHANGED <<crossPkg, ctxDone, compiles, listing, feeder, channels, pool,
                   stalled, index, checks, known, history>>

(* suitePkgs: a binary that did not compile here may yet compile for a     *)
(* mutant's run.                                                           *)
SuitesWith(compiled, broken) == compiled \cup broken

(* buildPkgBins: a package without test files has no binary, and is no     *)
(* failure unless it does not compile.                                     *)
Compile ==
    /\ stage = "compile"
    /\ \E broken \in SUBSET Pkgs :
         /\ bins' = HasTests \ broken
         /\ suites' = SuitesWith(bins', broken)
         /\ IF broken # {} THEN Fails ELSE UNCHANGED cut
    /\ Go("compiled")
    /\ UNCHANGED <<crossPkg, ctxDone, listing, feeder, channels, pool, stalled,
                   index, checks, known, passed, timedOut>>

Compiled ==
    /\ stage = "compiled"
    /\ \/ ctxDone /\ Return("error")
       \/ ~ctxDone /\ bins = {} /\ suites # {} /\ Unrouted
       \/ ~ctxDone /\ (bins # {} \/ suites = {}) /\ Go("args")
    /\ UNCHANGED <<crossPkg, ctxDone, compiles, listing, feeder, channels, pool,
                   stalled, index, checks, known, history>>

(* setTestArgs.                                                            *)
SetTestArgs ==
    /\ stage = "args"
    /\ \/ Go("list") /\ unlisted' = bins
       \/ bins # {} /\ Unrouted /\ UNCHANGED unlisted
    /\ UNCHANGED <<crossPkg, ctxDone, compiles, tests, listFails, feeder, channels,
                   pool, stalled, index, checks, known, history>>

(* What is left of a package's listing, in its order.                      *)
Heard(p, lost) == {i \in DOMAIN TestsIn[p] : TestsIn[p][i] \notin lost}
Listings(p, lost) ==
    {[i \in DOMAIN o |-> TestsIn[p][o[i]]] :
       o \in {o \in [1..Cardinality(Heard(p, lost)) -> Heard(p, lost)] :
                 \A i, j \in DOMAIN o : i < j => o[i] < o[j]}}

(* listBinTests, which a bounded number of goroutines call in any order.   *)
List(p) ==
    /\ stage = "list" /\ p \in unlisted
    /\ unlisted' = unlisted \ {p}
    /\ \/ /\ \E lost \in SUBSET MayBeLost :
             \E heard \in Listings(p, lost) : tests' = tests \o heard
          /\ UNCHANGED <<listFails, cut>>
       \/ listFails' = TRUE /\ Fails /\ UNCHANGED tests
    /\ UNCHANGED <<stage, crossPkg, ctxDone, compiles, feeder, channels, pool,
                   stalled, index, checks, known, result, passed, timedOut>>

Listed ==
    /\ stage = "list" /\ unlisted = {}
    /\ \/ ctxDone /\ Return("error") /\ UNCHANGED <<feeder, at>>
       \/ ~ctxDone /\ tests = << >> /\ listFails /\ Unrouted /\ UNCHANGED <<feeder, at>>
       \/ /\ ~ctxDone /\ (tests # << >> \/ ~listFails)
          /\ Go("solo")
          /\ unfed' = tests /\ feeding' = TRUE
          /\ at' = [w \in Workers |-> "idle"]
    /\ UNCHANGED <<crossPkg, ctxDone, compiles, listing, channels, held, stalled,
                   index, checks, known, history>>

-----------------------------------------------------------------------------
(* The tests, alone.                                                       *)

(* feedWork: the channel holds all the tests, so a send never waits.       *)
Feed ==
    /\ feeding /\ unfed # << >>
    /\ work' = Append(work, Head(unfed)) /\ unfed' = Tail(unfed)
    /\ UNCHANGED <<stage, crossPkg, ctxDone, compiles, listing, feeding, workOpen,
                   results, resOpen, pool, stalled, index, checks, known, result,
                   history>>

(* feedWork closes the channel wherever it returns.  (Faulty: once it has  *)
(* sent everything.)                                                       *)
FaultyOpenAfterFeed == unfed # << >>
OpenAfterFeed == FALSE

FeedEnd ==
    /\ feeding /\ (unfed = << >> \/ ctxDone)
    /\ feeding' = FALSE
    /\ workOpen' = OpenAfterFeed
    /\ UNCHANGED <<stage, crossPkg, ctxDone, compiles, listing, unfed, work, results,
                   resOpen, pool, stalled, index, checks, known, result, history>>

(* A worker goes on to `place`.                                            *)
Move(w, place) == at' = [at EXCEPT ![w] = place]

Receive(w) ==
    /\ at[w] = "idle"
    /\ \/ /\ work # << >>
          /\ held' = [held EXCEPT ![w] = Head(work)] /\ work' = Tail(work)
          /\ Move(w, "held")
       \/ /\ work = << >> /\ ~workOpen
          /\ Move(w, "gone")
          /\ UNCHANGED <<held, work>>
    /\ UNCHANGED <<stage, crossPkg, ctxDone, compiles, listing, feeder, workOpen,
                   results, resOpen, stalled, index, checks, known, result, history>>

(* Whether a test is run, when there was no cancel.  (Faulty: whatever     *)
(* became of its package's others.)                                        *)
FaultyWanted(t) == PkgOf(t) \in bins
Wanted(t) == PkgOf(t) \in bins \ stalled

Begin(w) ==
    /\ at[w] = "held"
    /\ \/ ctxDone /\ Move(w, "gone")
       \/ ~ctxDone /\ Wanted(held[w]) /\ Move(w, "running")
       \/ ~ctxDone /\ ~Wanted(held[w]) /\ Move(w, "idle")
    /\ UNCHANGED <<stage, crossPkg, ctxDone, compiles, listing, feeder, channels,
                   held, stalled, index, checks, known, result, history>>

Passes(w) ==
    /\ at[w] = "running"
    /\ passed' = passed \cup {{held[w]}}
    /\ Move(w, "sending")
    /\ UNCHANGED <<stage, crossPkg, ctxDone, compiles, listing, feeder, channels,
                   held, stalled, index, checks, known, result, timedOut, cut>>

(* The test fails, leaves no profile, or runs out of opts.TestTimeout.     *)
DoesNotPass(w) ==
    /\ at[w] = "running"
    /\ \/ Fails /\ UNCHANGED <<stalled, timedOut>>
       \/ /\ stalled' = stalled \cup {PkgOf(held[w])}
          /\ timedOut' = timedOut \cup {held[w]}
          /\ UNCHANGED cut
    /\ Move(w, "idle")
    /\ UNCHANGED <<stage, crossPkg, ctxDone, compiles, listing, feeder, channels,
                   held, index, checks, known, result, passed>>

(* The results channel takes another.  (Faulty: one too many.)             *)
FaultyRoom == Len(results) <= NWorkers
Room == Len(results) < NWorkers

Send(w) ==
    /\ at[w] = "sending" /\ Room
    /\ results' = Append(results, held[w])
    /\ Move(w, "idle")
    /\ UNCHANGED <<stage, crossPkg, ctxDone, compiles, listing, feeder, work,
                   workOpen, resOpen, held, stalled, index, checks, known, result,
                   history>>

(* What the closer waits for.  (Faulty: for the work to be taken.)         *)
FaultyWorkersDone == ~workOpen /\ work = << >>
WorkersDone == \A w \in Workers : at[w] = "gone"

CloseResults ==
    /\ stage = "solo" /\ resOpen /\ WorkersDone
    /\ resOpen' = FALSE
    /\ UNCHANGED <<stage, crossPkg, ctxDone, compiles, listing, feeder, work,
                   workOpen, results, pool, stalled, index, checks, known, result,
                   history>>

(* The lines of a test's profile: -coverpkg decides the packages in it.    *)
Covered(t) ==
    IF crossPkg THEN Covers[t] ELSE {l \in Covers[t] : PkgOfLine[l] = PkgOf(t)}

(* ingestResult.                                                           *)
Ingest ==
    /\ stage = "solo" /\ results # << >>
    /\ index' = [l \in Lines |->
                   index[l] \cup (IF l \in Covered(Head(results)) THEN {Head(results)}
                                                                  ELSE {})]
    /\ results' = Tail(results)
    /\ UNCHANGED <<stage, crossPkg, ctxDone, compiles, listing, feeder, work,
                   workOpen, resOpen, pool, stalled, checks, known, result, history>>

-----------------------------------------------------------------------------
(* The tests of a line, together.                                          *)

(* What a mutant on line l runs in package p, and lineGroups.              *)
Group(l, p)   == {t \in index[l] : PkgOf(t) = p}
LineGroups(l) == {Group(l, p) : p \in Pkgs} \ {{}}

(* testGroups: a test passed alone already.  (Faulty: so did a pair.)      *)
FaultyTestGroups == {g \in UNION {LineGroups(l) : l \in MutantLines} : Cardinality(g) > 2}
TestGroups == {g \in UNION {LineGroups(l) : l \in MutantLines} : Cardinality(g) > 1}

Collected ==
    /\ stage = "solo" /\ ~resOpen /\ results = << >>
    /\ \/ ctxDone /\ Return("error") /\ UNCHANGED waiting
       \/ ~ctxDone /\ Go("check") /\ waiting' = TestGroups
    /\ UNCHANGED <<crossPkg, ctxDone, compiles, listing, feeder, channels, pool,
                   stalled, index, running, failed, known, history>>

(* checkGroups: NWorkers of them run at a time.                            *)
StartGroup(g) ==
    /\ g \in waiting /\ Cardinality(running) < NWorkers
    /\ waiting' = waiting \ {g} /\ running' = running \cup {g}
    /\ UNCHANGED <<stage, crossPkg, ctxDone, compiles, listing, feeder, channels,
                   pool, stalled, index, failed, known, result, history>>

EndGroup(g) ==
    /\ g \in running
    /\ running' = running \ {g}
    /\ \/ passed' = passed \cup {g} /\ UNCHANGED <<failed, cut>>
       \/ failed' = failed \cup {g} /\ Fails /\ UNCHANGED passed
    /\ UNCHANGED <<stage, crossPkg, ctxDone, compiles, listing, feeder, channels,
                   pool, stalled, index, waiting, known, result, timedOut>>

(* dropGroups: a failed group is dropped from the lines whose tests in its *)
(* package are exactly it.                                                 *)
Dropped(l) == {t \in index[l] : Group(l, PkgOf(t)) \in failed}

(* After the checks, what the cancel may have failed is not believed.      *)
(* (Faulty: it is.)                                                        *)
FaultyGivesUp == FALSE
GivesUp == ctxDone

Checked ==
    /\ stage = "check" /\ waiting = {} /\ running = {}
    /\ \/ GivesUp /\ Return("error") /\ UNCHANGED index
       \/ /\ ~GivesUp
          /\ index' = [l \in Lines |-> index[l] \ Dropped(l)]
          /\ IF crossPkg THEN Go("links") ELSE Return("map")
    /\ UNCHANGED <<crossPkg, ctxDone, compiles, listing, feeder, channels, pool,
                   stalled, checks, known, history>>

(* testDeps: a package go list reports an error for is left out; they all  *)
(* are when it fails itself.                                               *)
ReadLinks ==
    /\ stage = "links"
    /\ known' \in SUBSET suites
    /\ Return("map")
    /\ UNCHANGED <<crossPkg, ctxDone, compiles, listing, feeder, channels, pool,
                   stalled, index, checks, history>>

-----------------------------------------------------------------------------
Cancel ==
    /\ ~ctxDone /\ stage # "returned"
    /\ ctxDone' = TRUE
    /\ UNCHANGED <<stage, crossPkg, compiles, listing, feeder, channels, pool,
                   stalled, index, checks, known, result, history>>

Worker(w) == Receive(w) \/ Begin(w) \/ Passes(w) \/ DoesNotPass(w) \/ Send(w)

BuildTestMap ==
    \/ Resolve \/ Compile \/ Compiled \/ SetTestArgs
    \/ \E p \in Pkgs : List(p)
    \/ Listed \/ Feed \/ FeedEnd
    \/ \E w \in Workers : Worker(w)
    \/ CloseResults \/ Ingest \/ Collected
    \/ \E g \in waiting : StartGroup(g)
    \/ \E g \in running : EndGroup(g)
    \/ Checked \/ ReadLinks

Ended == stage = "returned" /\ ~feeding /\ WorkersDone /\ running = {}

Done == Ended /\ UNCHANGED vars

Next == BuildTestMap \/ Cancel \/ Done

(* Every process ends, at opts.TestTimeout if not by itself, and the       *)
(* scheduler lets some goroutine that can go on do so.                     *)
Spec == Init /\ [][Next]_vars /\ WF_vars(BuildTestMap)

-----------------------------------------------------------------------------
(* What the finished map answers.                                          *)

(* links: a package whose links are not known links everything.  (Faulty:  *)
(* nothing.)                                                               *)
FaultyLinked(p, q) == p \in known /\ p \in Links[q]
Linked(p, q) == p \in known => p \in Links[q]

SuitePkgs(q) == {p \in suites : p = q \/ (crossPkg /\ Linked(p, q))}

-----------------------------------------------------------------------------
(* Properties.                                                             *)

(* What a mutant is routed to has passed without it, together as it will   *)
(* be run: its failure is the mutant's doing (testmap.go:504, :549).       *)
RoutedGroupsPassed ==
    result = "map" =>
        \A l \in MutantLines : LineGroups(l) \subseteq passed

(* A test that passed alone is routed to every line it covers, unless the  *)
(* tests of its package there failed together: no result is lost between   *)
(* the workers and the collector (testmap.go:290).                         *)
NoRouteLost ==
    result = "map" =>
        \A t \in Tests : {t} \in passed =>
            \A l \in Covered(t) :
                \/ t \in index[l]
                \/ {u \in Tests : {u} \in passed /\ PkgOf(u) = PkgOf(t) /\ l \in Covered(u)}
                     \in failed

(* Every suite that can kill a mutant is among those that decide whether   *)
(* it lives, whatever of the build failed (testmap.go:102, :319, :332).    *)
KillersAmongSuites ==
    result = "map" =>
        \A q \in Pkgs :
            HasTests \cap (IF crossPkg THEN Links[q] \cup {q} ELSE {q})
              \subseteq SuitePkgs(q)

(* With -coverpkg a build that is not cancelled fails only when it cannot  *)
(* tell the packages (pipeline.go:583): nobody else knows their suites.    *)
FailsOnlyWithoutPackages == result = "error" /\ crossPkg => ctxDone \/ suites = {}

(* No map rests on a test, a listing or a compile that the cancel may have *)
(* failed (testmap.go:300).  A map without arguments or links is slower,   *)
(* not wrong: it routes less and re-checks more (testmap.go:332).          *)
NoMapFromCutShort == result = "map" => ~cut

(* A package whose tests hang costs each worker one timeout at most, since *)
(* a worker that has seen one starts no other (testmap.go:557).            *)
OneStallPerWorker ==
    \A p \in Pkgs : Cardinality({t \in timedOut : PkgOf(t) = p}) <= NWorkers

(* testmap.go:300, :557, pipeline.go:583: what hangs, fails or is          *)
(* cancelled costs the build time or the map, never the map's truth.       *)
MapInv == TypeOK /\ NoMapFromCutShort /\ OneStallPerWorker /\ FailsOnlyWithoutPackages

(* The build returns, and leaves no goroutine behind, whatever fails and   *)
(* whenever it is cancelled.                                               *)
EveryGoroutineEnds == <>[]Ended
=============================================================================
