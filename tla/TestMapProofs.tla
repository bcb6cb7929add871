--------------------------- MODULE TestMapProofs ---------------------------
(***************************************************************************)
(* Proofs about TestMap: what its finished map promises, for any packages, *)
(* tests and coverage, any number of workers, and any processes that fail, *)
(* hang or are cancelled.                                                  *)
(***************************************************************************)
EXTENDS TestMap, FiniteSetTheorems, SequenceTheorems, TLAPS

-----------------------------------------------------------------------------
(* The inductive invariant, part by part.                                  *)

Early == {"resolve", "compile", "compiled", "args", "list"}

(* The pool works in one stage and the checks in another.                  *)
Phases ==
    /\ stage # "solo" => WorkersDone /\ results = << >>
    /\ ~resOpen => WorkersDone /\ stage \notin Early
    /\ stage # "check" => waiting = {} /\ running = {}
    /\ result = "none" <=> stage # "returned"
    /\ stage \in {"resolve", "compile", "compiled", "args"} => unlisted = {}
    /\ stage \in Early =>
         stalled = {} /\ timedOut = {} /\ passed = {} /\ index = [l \in Lines |-> {}]

(* A worker is at a test of a package that has a binary.                   *)
AtATest ==
    \A w \in Workers :
        /\ at[w] \in {"held", "running", "sending"} => held[w] \in Tests
        /\ at[w] = "running" => PkgOf(held[w]) \in bins

(* No map is made of what the cancel may have failed.                      *)
Cuts ==
    /\ cut => ctxDone
    /\ stage \in {"resolve", "compile", "args", "links"} \/ result = "map" => ~cut

(* Every package with tests is a suite as soon as the packages are known.  *)
Suites ==
    /\ stage \in {"resolve", "compile"} => suites = {}
    /\ stage \notin {"resolve", "compile", "returned"} \/ result = "map" =>
         HasTests \subseteq suites

(* Tests are counted in sets that stay finite.                             *)
Counted ==
    /\ IsFiniteSet(running) /\ IsFiniteSet(timedOut)
    /\ \A l \in Lines : IsFiniteSet(index[l])

(* A package that stalled costs what it has cost and what runs of it.      *)
TimedOutIn(p) == {t \in timedOut : PkgOf(t) = p}
RunningIn(p)  == {w \in Workers : at[w] = "running" /\ PkgOf(held[w]) = p}
Stalls ==
    /\ \A t \in timedOut : PkgOf(t) \in stalled
    /\ \A p \in stalled : Cardinality(TimedOutIn(p)) + Cardinality(RunningIn(p)) <= NWorkers

(* A test that is routed, or about to be, has passed alone; and one that   *)
(* has passed is on its way or routed to all it covers.                    *)
OnItsWay(t) ==
    \/ \E w \in Workers : at[w] = "sending" /\ held[w] = t
    \/ \E i \in 1..Len(results) : results[i] = t
Passing ==
    /\ \A w \in Workers : at[w] = "sending" => {held[w]} \in passed
    /\ \A i \in 1..Len(results) : {results[i]} \in passed
    /\ \A l \in Lines : \A t \in index[l] : {t} \in passed /\ l \in Covered(t)
    /\ stage \in {"solo", "check"} =>
         \A t \in Tests : {t} \in passed =>
             OnItsWay(t) \/ \A l \in Covered(t) : t \in index[l]

(* The groups to be checked, or that were: those of two tests or more.     *)
Groups ==
    /\ \A g \in waiting \cup running : Cardinality(g) > 1
    /\ stage = "check" => TestGroups \subseteq waiting \cup running \cup failed \cup passed

(* What the finished map promises holds of it once the checks are over.    *)
Alone(p, l) == {u \in Tests : {u} \in passed /\ PkgOf(u) = p /\ l \in Covered(u)}
Finished ==
    stage = "links" \/ result = "map" =>
        /\ \A l \in MutantLines : LineGroups(l) \subseteq passed
        /\ \A t \in Tests : {t} \in passed =>
             \A l \in Covered(t) : t \in index[l] \/ Alone(PkgOf(t), l) \in failed

IInv ==
    /\ TypeOK /\ Phases /\ AtATest /\ Cuts /\ Suites /\ Counted /\ Stalls
    /\ Passing /\ Groups /\ Finished /\ FailsOnlyWithoutPackages

-----------------------------------------------------------------------------
(* Facts about the operators of the model.                                 *)

(* A test's package is one of the packages.                                *)
LEMMA PkgOfTest ==
    ASSUME NEW t \in Tests
    PROVE  PkgOf(t) \in Pkgs
  <1>1. PICK p \in Pkgs : t \in ToSet(TestsIn[p])
    BY DEF Tests
  <1> QED BY <1>1 DEF PkgOf

(* A test covers lines.                                                    *)
LEMMA CoveredLines ==
    ASSUME NEW t \in Tests
    PROVE  Covered(t) \subseteq Lines
  <1>1. Covers[t] \subseteq Lines
    BY LinesAssumption
  <1> QED BY <1>1 DEF Covered

(* What a sequence starts with and what is left of it.                     *)
LEMMA HeadAndTail ==
    ASSUME NEW S, NEW s \in Seq(S), s # << >>
    PROVE  /\ Head(s) \in S /\ Tail(s) \in Seq(S)
           /\ Head(s) = s[1] /\ 1 \in 1..Len(s)
           /\ Len(Tail(s)) = Len(s) - 1 /\ Len(s) \in Nat \ {0}
           /\ \A i \in 1..Len(Tail(s)) : i + 1 \in 1..Len(s) /\ Tail(s)[i] = s[i + 1]
           /\ \A i \in 1..Len(s) : i # 1 => i - 1 \in 1..Len(Tail(s)) /\ Tail(s)[i - 1] = s[i]
  <1>1. Len(s) \in Nat \ {0}
    BY EmptySeq
  <1> QED BY <1>1, HeadTailProperties

(* A listing is a sequence of tests of its package.                        *)
LEMMA ListingIsTests ==
    ASSUME NEW p \in Pkgs, NEW lost, NEW heard \in Listings(p, lost)
    PROVE  heard \in Seq(Tests)
  <1> DEFINE I == Heard(p, lost)
  <1>1. PICK o \in [1..Cardinality(I) -> I] :
          heard = [i \in DOMAIN o |-> TestsIn[p][o[i]]]
    BY DEF Listings
  <1>2. TestsIn[p] \in Seq(ToSet(TestsIn[p]))
    BY TestsAssumption
  <1>3. /\ DOMAIN TestsIn[p] = 1..Len(TestsIn[p]) /\ Len(TestsIn[p]) \in Nat
        /\ \A i \in DOMAIN TestsIn[p] : TestsIn[p][i] \in Tests
    BY <1>2 DEF Tests
  <1>4. IsFiniteSet(1..Len(TestsIn[p]))
    BY <1>3, FS_Interval
  <1>5. IsFiniteSet(I)
    BY <1>3, <1>4, FS_Subset DEF Heard
  <1>6. Cardinality(I) \in Nat
    BY <1>5, FS_CardinalityType
  <1>7. heard \in [1..Cardinality(I) -> Tests]
    BY <1>1, <1>3 DEF Heard
  <1> QED BY <1>6, <1>7

(* The groups are those of the index.                                      *)
LEMMA GroupsOfIndex ==
    ASSUME index' = index
    PROVE  /\ TestGroups' = TestGroups
           /\ \A l : LineGroups(l)' = LineGroups(l)
  BY DEF TestGroups, LineGroups, Group

(* The tests that passed alone are those whose own group passed.           *)
LEMMA AloneStays ==
    ASSUME \A t \in Tests : {t} \in passed' <=> {t} \in passed, crossPkg' = crossPkg
    PROVE  \A p, l : Alone(p, l)' = Alone(p, l)
  BY DEF Alone, Covered

-----------------------------------------------------------------------------
(* The steps.                                                              *)

LEMMA InitInv == Init => IInv
  <1> SUFFICES ASSUME Init PROVE IInv
    OBVIOUS
  <1>1. Cardinality({}) = 0 /\ IsFiniteSet({})
    BY FS_EmptySet
  <1>2. TypeOK
    <2>1. << >> \in Seq(Tests) /\ Len(<< >>) = 0
      OBVIOUS
    <2>2. at \in [Workers -> {"idle", "held", "running", "sending", "gone"}]
      BY DEF Init
    <2>3. held \in [Workers -> Tests \cup {NoTest}] /\ index \in [Lines -> SUBSET Tests]
      BY DEF Init
    <2>4. Cardinality(running) <= NWorkers /\ Len(results) <= NWorkers
      BY <1>1, <2>1, WorkersAssumption DEF Init
    <2>5. tests \in Seq(Tests) /\ unfed \in Seq(Tests) /\ work \in Seq(Tests) /\ results \in Seq(Tests)
      BY <2>1 DEF Init
    <2> QED BY <2>2, <2>3, <2>4, <2>5 DEF Init, TypeOK
  <1>3. Phases /\ AtATest /\ Cuts /\ Suites
    BY DEF Init, Phases, AtATest, Cuts, Suites, WorkersDone
  <1>4. Counted /\ Stalls
    BY <1>1 DEF Init, Counted, Stalls
  <1>5. Passing /\ Groups /\ Finished /\ FailsOnlyWithoutPackages
    BY DEF Init, Passing, Groups, Finished, FailsOnlyWithoutPackages
  <1> QED BY <1>2, <1>3, <1>4, <1>5 DEF IInv

(* Before a test has run there is nothing to count and nothing to route.   *)
LEMMA NothingRouted ==
    ASSUME IInv, stage \in Early, crossPkg' = crossPkg,
           UNCHANGED <<held, results, stalled, index, checks, passed, timedOut>>,
           \A w \in Workers : at'[w] # "running" /\ at'[w] # "sending"
    PROVE  Counted' /\ Stalls' /\ Passing' /\ Finished' /\ (stage' # "check" => Groups')
  <1>1. /\ stalled = {} /\ timedOut = {} /\ passed = {}
        /\ waiting = {} /\ running = {} /\ results = << >>
        /\ \A l \in Lines : index[l] = {}
    BY DEF IInv, Phases, Early
  <1>2. Counted'
    BY DEF IInv, Counted, checks
  <1>3. Stalls'
    BY <1>1 DEF Stalls
  <1>4. Passing'
    BY <1>1 DEF Passing
  <1>5. Finished'
    <2>1. ASSUME NEW l \in MutantLines PROVE LineGroups(l)' = {}
      <3>1. l \in Lines
        BY LinesAssumption
      <3> QED BY <1>1, <3>1 DEF LineGroups, Group
    <2> QED BY <1>1, <2>1 DEF Finished
  <1>6. stage' # "check" => Groups'
    BY <1>1 DEF Groups, checks
  <1> QED BY <1>2, <1>3, <1>4, <1>5, <1>6

(* How a step of the packages ends, or where it leads to.                  *)
LEMMA PackageFlow ==
    ASSUME IInv, Resolve \/ Compile \/ Compiled \/ SetTestArgs \/ \E p \in Pkgs : List(p)
    PROVE  /\ UNCHANGED <<crossPkg, ctxDone, feeder, channels, pool, stalled, index, checks,
                          known, passed, timedOut>>
           /\ stage \in Early /\ stage' \in Early \cup {"returned"} /\ stage' # "resolve"
           /\ stage = "list" => stage' = "list"
           /\ stage' # "returned" => result' = result
           /\ stage' = "returned" => result' \in {"map", "error"}
  <1>1. CASE Resolve
    BY <1>1 DEF Resolve, Go, Return, Early, history
  <1>2. CASE Compile
    BY <1>2 DEF Compile, Go, Early
  <1>3. CASE Compiled
    BY <1>3 DEF Compiled, Go, Return, Unrouted, Early, history
  <1>4. CASE SetTestArgs
    BY <1>4 DEF SetTestArgs, Go, Return, Unrouted, Early, history
  <1>5. ASSUME NEW p \in Pkgs, List(p)
        PROVE  /\ UNCHANGED <<crossPkg, ctxDone, feeder, channels, pool, stalled, index, checks,
                              known, passed, timedOut, stage, result>>
               /\ stage = "list"
    BY <1>5 DEF List
  <1>6. CASE \E p \in Pkgs : List(p)
    BY <1>5, <1>6 DEF Early
  <1> QED BY <1>1, <1>2, <1>3, <1>4, <1>6

(* What the steps of the packages preserve whichever it is.                *)
LEMMA PackageRest ==
    ASSUME IInv, Resolve \/ Compile \/ Compiled \/ SetTestArgs \/ \E p \in Pkgs : List(p)
    PROVE  /\ Counted' /\ Stalls' /\ Passing' /\ Finished' /\ Groups' /\ AtATest'
           /\ (stage' \in {"resolve", "compile", "compiled", "args"} => unlisted' = {}) => Phases'
  <1>1. /\ WorkersDone /\ results = << >> /\ waiting = {} /\ running = {} /\ resOpen
        /\ result = "none" /\ stage # "returned"
    BY PackageFlow DEF IInv, Phases, Early
  <1>2. \A w \in Workers : at'[w] = "gone"
    BY PackageFlow, <1>1 DEF WorkersDone, pool
  <1>3. Counted' /\ Stalls' /\ Passing' /\ Finished' /\ Groups'
    BY PackageFlow, <1>2, NothingRouted DEF channels, pool, Early
  <1>4. AtATest'
    BY <1>2 DEF AtATest
  <1>5. (stage' \in {"resolve", "compile", "compiled", "args"} => unlisted' = {}) => Phases'
    <2>1. WorkersDone'
      BY <1>2 DEF WorkersDone
    <2>2. stage' \in Early => stalled' = {} /\ timedOut' = {} /\ passed' = {} /\ index' = [l \in Lines |-> {}]
      BY PackageFlow DEF IInv, Phases
    <2> QED BY PackageFlow, <1>1, <2>1, <2>2 DEF Phases, channels, checks, Early
  <1> QED BY <1>3, <1>4, <1>5

LEMMA ResolveStep == ASSUME IInv, Resolve PROVE IInv'
  <1>1. TypeOK'
    BY DEF IInv, TypeOK, Resolve, Go, Return, compiles, listing, feeder, channels, pool, checks, history
  <1>2. Phases'
    BY PackageRest DEF IInv, Phases, Resolve, listing
  <1>3. Cuts' /\ Suites' /\ FailsOnlyWithoutPackages'
    BY DEF IInv, Cuts, Suites, FailsOnlyWithoutPackages, Phases, Resolve, Go, Return, compiles, history
  <1> QED BY <1>1, <1>2, <1>3, PackageRest DEF IInv

LEMMA CompileStep == ASSUME IInv, Compile PROVE IInv'
  <1>1. unlisted = {} /\ stalled = {}
    BY DEF IInv, Phases, Early, Compile
  <1>2. TypeOK'
    BY <1>1, TestsAssumption DEF IInv, TypeOK, Compile, Go, SuitesWith, Fails, listing, feeder, channels,
                                 pool, checks, Suites
  <1>3. Phases'
    BY PackageRest, <1>1 DEF Compile, listing
  <1>4. Cuts' /\ Suites' /\ FailsOnlyWithoutPackages'
    BY DEF IInv, Cuts, Suites, FailsOnlyWithoutPackages, Phases, Compile, Go, SuitesWith, Fails
  <1> QED BY <1>2, <1>3, <1>4, PackageRest DEF IInv

LEMMA CompiledStep == ASSUME IInv, Compiled PROVE IInv'
  <1>1. TypeOK'
    BY DEF IInv, TypeOK, Compiled, Go, Return, Unrouted, compiles, listing, feeder, channels, pool,
           checks, history
  <1>2. Phases'
    BY PackageRest DEF IInv, Phases, Compiled, listing
  <1>3. Cuts' /\ Suites' /\ FailsOnlyWithoutPackages'
    BY DEF IInv, Cuts, Suites, FailsOnlyWithoutPackages, Phases, Compiled, Go, Return, Unrouted,
           compiles, history
  <1> QED BY <1>1, <1>2, <1>3, PackageRest DEF IInv

LEMMA SetTestArgsStep == ASSUME IInv, SetTestArgs PROVE IInv'
  <1>1. TypeOK'
    BY DEF IInv, TypeOK, SetTestArgs, Go, Return, Unrouted, compiles, feeder, channels, pool, checks,
           history
  <1>2. Phases'
    BY PackageRest DEF IInv, Phases, SetTestArgs, Go, Return, Unrouted
  <1>3. Cuts' /\ Suites' /\ FailsOnlyWithoutPackages'
    BY DEF IInv, Cuts, Suites, FailsOnlyWithoutPackages, Phases, SetTestArgs, Go, Return, Unrouted,
           compiles, history
  <1> QED BY <1>1, <1>2, <1>3, PackageRest DEF IInv

LEMMA ListStep == ASSUME IInv, NEW p \in Pkgs, List(p) PROVE IInv'
  <1>1. tests' \in Seq(Tests)
    <2>1. tests \in Seq(Tests)
      BY DEF IInv, TypeOK
    <2>2. CASE tests' = tests
      BY <2>1, <2>2
    <2>3. ASSUME NEW lost, NEW heard \in Listings(p, lost), tests' = tests \o heard
          PROVE  tests' \in Seq(Tests)
      BY <2>1, <2>3, ListingIsTests, ConcatProperties
    <2> QED BY <2>2, <2>3 DEF List
  <1>2. TypeOK'
    BY <1>1 DEF IInv, TypeOK, List, Fails, compiles, feeder, channels, pool, checks
  <1>3. Phases'
    BY PackageRest DEF List
  <1>4. Cuts'
    <2>1. cut \in BOOLEAN /\ ctxDone \in BOOLEAN
      BY DEF IInv, TypeOK
    <2>2. stage = "list" /\ stage' = "list" /\ result' = "none" /\ (cut' => ctxDone)
      BY <2>1 DEF IInv, Cuts, Phases, List, Fails
    <2> QED BY <2>2 DEF Cuts, List
  <1>5. Suites' /\ FailsOnlyWithoutPackages'
    BY DEF IInv, Suites, FailsOnlyWithoutPackages, List, compiles
  <1> QED BY <1>2, <1>3, <1>4, <1>5, PackageRest DEF IInv

(* The listings are over, and the pool is started on what they found.      *)
LEMMA ListedStep == ASSUME IInv, Listed PROVE IInv'
  <1>1. /\ UNCHANGED <<crossPkg, ctxDone, compiles, listing, channels, held, stalled, index,
                       checks, known, history>>
        /\ stage = "list" /\ stage' \in {"solo", "returned"}
        /\ (stage' = "solo" => result' = result /\ at' = [w \in Workers |-> "idle"])
        /\ (stage' = "returned" => result' \in {"map", "error"} /\ at' = at)
        /\ (result' = "error" => ctxDone \/ ~crossPkg)
        /\ (result' = "map" => ~ctxDone)
    BY DEF Listed, Go, Return, Unrouted, IInv, Phases
  <1>2. WorkersDone /\ results = << >> /\ waiting = {} /\ running = {} /\ resOpen /\ result = "none"
    BY <1>1 DEF IInv, Phases, Early
  <1>3. Counted' /\ Stalls' /\ Passing' /\ Finished' /\ Groups'
    <2>1. \A w \in Workers : at'[w] # "running" /\ at'[w] # "sending"
      BY <1>1, <1>2 DEF WorkersDone
    <2> QED BY <1>1, <2>1, NothingRouted DEF channels, history, Early
  <1>4. TypeOK'
    BY <1>1 DEF IInv, TypeOK, Listed, compiles, listing, feeder, channels, checks, history
  <1>5. Phases'
    BY <1>1, <1>2 DEF IInv, Phases, Early, WorkersDone, channels, checks
  <1>6. AtATest'
    BY <1>1, <1>2 DEF AtATest, WorkersDone
  <1>7. Cuts' /\ Suites' /\ FailsOnlyWithoutPackages'
    BY <1>1, <1>2 DEF IInv, Cuts, Suites, FailsOnlyWithoutPackages, Phases, compiles, history
  <1> QED BY <1>3, <1>4, <1>5, <1>6, <1>7 DEF IInv

(* The feeder and a cancel touch nothing that the other parts speak of.    *)
LEMMA RestStays ==
    ASSUME IInv, TypeOK', ctxDone => ctxDone',
           UNCHANGED <<stage, crossPkg, compiles, unlisted, pool, stalled, results, resOpen, index,
                       checks, result, history>>
    PROVE  IInv'
  <1>1. Phases'
    BY DEF IInv, Phases, WorkersDone, pool, checks, history
  <1>2. AtATest' /\ Cuts' /\ Suites' /\ FailsOnlyWithoutPackages'
    BY DEF IInv, AtATest, Cuts, Suites, FailsOnlyWithoutPackages, compiles, pool, history
  <1>3. Counted'
    BY DEF IInv, Counted, checks, history
  <1>4. Stalls'
    <2>1. \A p : TimedOutIn(p)' = TimedOutIn(p) /\ RunningIn(p)' = RunningIn(p)
      BY DEF TimedOutIn, RunningIn, pool, history
    <2> QED BY <2>1 DEF IInv, Stalls, history
  <1>5. Passing'
    BY DEF IInv, Passing, OnItsWay, Covered, pool, history
  <1>6. Groups'
    BY GroupsOfIndex DEF IInv, Groups, checks, history
  <1>7. Finished'
    <2>1. \A p, l : Alone(p, l)' = Alone(p, l)
      BY AloneStays DEF history
    <2> QED BY <2>1, GroupsOfIndex DEF IInv, Finished, Covered, checks, history
  <1> QED BY <1>1, <1>2, <1>3, <1>4, <1>5, <1>6, <1>7 DEF IInv

LEMMA FeedStep == ASSUME IInv, Feed PROVE IInv'
  <1>1. Head(unfed) \in Tests /\ Tail(unfed) \in Seq(Tests) /\ Append(work, Head(unfed)) \in Seq(Tests)
    BY HeadAndTail DEF IInv, TypeOK, Feed
  <1>2. TypeOK'
    BY <1>1 DEF IInv, TypeOK, Feed, compiles, listing, pool, checks, history
  <1> QED BY <1>2, RestStays DEF Feed, listing

LEMMA FeedEndStep == ASSUME IInv, FeedEnd PROVE IInv'
  <1>1. TypeOK'
    BY DEF IInv, TypeOK, FeedEnd, OpenAfterFeed, compiles, listing, pool, checks, history
  <1> QED BY <1>1, RestStays DEF FeedEnd, listing

LEMMA CancelStep == ASSUME IInv, Cancel PROVE IInv'
  <1>1. TypeOK'
    BY DEF IInv, TypeOK, Cancel, compiles, listing, feeder, channels, pool, checks, history
  <1> QED BY <1>1, RestStays DEF Cancel, listing, channels

LEMMA DoneStep == ASSUME IInv, UNCHANGED vars PROVE IInv'
  <1>1. TypeOK'
    BY DEF IInv, TypeOK, vars, compiles, listing, feeder, channels, pool, checks, history
  <1> QED BY <1>1, RestStays DEF vars, listing, channels

-----------------------------------------------------------------------------
(* The pool.                                                               *)

(* Whatever a worker does, it does in the pool's stage; it is then enough  *)
(* to look at the tests.                                                   *)
LEMMA WorkerRest ==
    ASSUME IInv, NEW w \in Workers, at[w] # "gone",
           UNCHANGED <<stage, crossPkg, ctxDone, compiles, listing, resOpen, index, checks, result>>
    PROVE  /\ stage = "solo" /\ result = "none" /\ resOpen
           /\ Phases' /\ Suites' /\ Groups' /\ Finished' /\ FailsOnlyWithoutPackages'
  <1>1. ~WorkersDone
    BY DEF WorkersDone
  <1>2. stage = "solo" /\ result = "none" /\ resOpen /\ waiting = {} /\ running = {}
    BY <1>1 DEF IInv, Phases
  <1> QED BY <1>2 DEF IInv, Phases, Suites, Groups, Finished, FailsOnlyWithoutPackages, Early,
                      compiles, listing, checks

(* Less runs of the packages that stalled, and none of them is new.        *)
LEMMA StallsStay ==
    ASSUME IInv, UNCHANGED <<stalled, timedOut>>, \A p \in stalled : RunningIn(p)' \subseteq RunningIn(p)
    PROVE  Stalls'
  <1>1. ASSUME NEW p \in stalled
        PROVE  Cardinality(TimedOutIn(p)') + Cardinality(RunningIn(p)') <= NWorkers
    <2>1. IsFiniteSet(Workers)
      BY WorkersAssumption, FS_Interval DEF Workers
    <2>2. IsFiniteSet(RunningIn(p))
      BY <2>1, FS_Subset DEF RunningIn
    <2>3. IsFiniteSet(RunningIn(p)') /\ Cardinality(RunningIn(p)') <= Cardinality(RunningIn(p))
      BY <1>1, <2>2, FS_Subset
    <2>4. IsFiniteSet(TimedOutIn(p))
      BY FS_Subset DEF IInv, Counted, TimedOutIn
    <2>5. /\ Cardinality(RunningIn(p)) \in Nat /\ Cardinality(RunningIn(p)') \in Nat
          /\ Cardinality(TimedOutIn(p)) \in Nat
      BY <2>2, <2>3, <2>4, FS_CardinalityType
    <2>6. TimedOutIn(p)' = TimedOutIn(p)
      BY DEF TimedOutIn
    <2> QED BY <1>1, <2>3, <2>5, <2>6, WorkersAssumption DEF IInv, Stalls
  <1> QED BY <1>1 DEF IInv, Stalls

LEMMA ReceiveStep == ASSUME IInv, NEW w \in Workers, Receive(w) PROVE IInv'
  <1>1. /\ at[w] = "idle" /\ at'[w] \in {"held", "gone"}
        /\ (at'[w] = "held" => held'[w] \in Tests)
        /\ \A v \in Workers : v # w => at'[v] = at[v] /\ held'[v] = held[v]
        /\ work' \in Seq(Tests)
        /\ at' \in [Workers -> {"idle", "held", "running", "sending", "gone"}]
        /\ held' \in [Workers -> Tests \cup {NoTest}]
    <2>1. work \in Seq(Tests) /\ (work # << >> => Head(work) \in Tests /\ Tail(work) \in Seq(Tests))
      BY HeadAndTail DEF IInv, TypeOK
    <2> QED BY <2>1 DEF IInv, TypeOK, Receive, Move
  <1>2. TypeOK'
    BY <1>1 DEF IInv, TypeOK, Receive, compiles, listing, feeder, checks, history
  <1>3. Phases' /\ Suites' /\ Groups' /\ Finished' /\ FailsOnlyWithoutPackages'
    BY <1>1, WorkerRest DEF Receive
  <1>4. AtATest'
    BY <1>1 DEF IInv, AtATest, Receive, compiles
  <1>5. Cuts' /\ Counted'
    BY DEF IInv, Cuts, Counted, Receive, checks, history
  <1>6. Stalls'
    <2>1. \A p \in stalled : RunningIn(p)' \subseteq RunningIn(p)
      BY <1>1 DEF RunningIn
    <2> QED BY <2>1, StallsStay DEF Receive, history
  <1>7. Passing'
    <2>1. \A t : OnItsWay(t) => OnItsWay(t)'
      BY <1>1 DEF OnItsWay, Receive
    <2> QED BY <1>1, <2>1 DEF IInv, Passing, Covered, Receive, history
  <1> QED BY <1>2, <1>3, <1>4, <1>5, <1>6, <1>7 DEF IInv

LEMMA BeginStep == ASSUME IInv, NEW w \in Workers, Begin(w) PROVE IInv'
  <1>1. /\ at[w] = "held" /\ at'[w] \in {"gone", "running", "idle"} /\ held' = held
        /\ (at'[w] = "running" => PkgOf(held[w]) \in bins \ stalled)
        /\ \A v \in Workers : v # w => at'[v] = at[v]
        /\ at' \in [Workers -> {"idle", "held", "running", "sending", "gone"}]
    BY DEF IInv, TypeOK, Begin, Move, Wanted
  <1>2. TypeOK'
    BY <1>1 DEF IInv, TypeOK, Begin, compiles, listing, feeder, channels, checks, history
  <1>3. Phases' /\ Suites' /\ Groups' /\ Finished' /\ FailsOnlyWithoutPackages'
    BY <1>1, WorkerRest DEF Begin, channels
  <1>4. AtATest'
    BY <1>1 DEF IInv, AtATest, Begin, compiles
  <1>5. Cuts' /\ Counted'
    BY DEF IInv, Cuts, Counted, Begin, checks, history
  <1>6. Stalls'
    <2>1. \A p \in stalled : RunningIn(p)' \subseteq RunningIn(p)
      BY <1>1 DEF RunningIn
    <2> QED BY <2>1, StallsStay DEF Begin, history
  <1>7. Passing'
    <2>1. \A t : OnItsWay(t) => OnItsWay(t)'
      BY <1>1 DEF OnItsWay, Begin, channels
    <2> QED BY <1>1, <2>1 DEF IInv, Passing, Covered, Begin, channels, history
  <1> QED BY <1>2, <1>3, <1>4, <1>5, <1>6, <1>7 DEF IInv

LEMMA PassesStep == ASSUME IInv, NEW w \in Workers, Passes(w) PROVE IInv'
  <1>1. /\ at[w] = "running" /\ at'[w] = "sending" /\ held' = held
        /\ passed' = passed \cup {{held[w]}} /\ held[w] \in Tests
        /\ \A v \in Workers : v # w => at'[v] = at[v]
        /\ at' \in [Workers -> {"idle", "held", "running", "sending", "gone"}]
    BY DEF IInv, TypeOK, AtATest, Passes, Move
  <1>2. TypeOK'
    BY <1>1 DEF IInv, TypeOK, Passes, compiles, listing, feeder, channels, checks
  <1>3. /\ stage = "solo"
        /\ Phases' /\ Suites' /\ Groups' /\ Finished' /\ FailsOnlyWithoutPackages'
    BY <1>1, WorkerRest DEF Passes, channels
  <1>4. AtATest'
    BY <1>1 DEF IInv, AtATest, Passes, compiles
  <1>5. Cuts' /\ Counted'
    BY DEF IInv, Cuts, Counted, Passes, checks
  <1>6. Stalls'
    <2>1. \A p \in stalled : RunningIn(p)' \subseteq RunningIn(p)
      BY <1>1 DEF RunningIn
    <2> QED BY <2>1, StallsStay DEF Passes
  <1>7. Passing'
    <2>1. OnItsWay(held[w])' /\ \A t : OnItsWay(t) => OnItsWay(t)'
      BY <1>1 DEF OnItsWay, Passes, channels
    <2>2. \A t : {t} \in passed' => t = held[w] \/ {t} \in passed
      BY <1>1
    <2> QED BY <1>1, <2>1, <2>2 DEF IInv, Passing, Covered, Passes, channels
  <1> QED BY <1>2, <1>3, <1>4, <1>5, <1>6, <1>7 DEF IInv

LEMMA SendStep == ASSUME IInv, NEW w \in Workers, Send(w) PROVE IInv'
  <1>1. /\ at[w] = "sending" /\ at'[w] = "idle" /\ held' = held /\ held[w] \in Tests
        /\ \A v \in Workers : v # w => at'[v] = at[v]
        /\ at' \in [Workers -> {"idle", "held", "running", "sending", "gone"}]
    BY DEF IInv, TypeOK, AtATest, Send, Move
  <1>2. /\ results' \in Seq(Tests) /\ Len(results') = Len(results) + 1 /\ Len(results) < NWorkers
        /\ Len(results) \in Nat /\ results'[Len(results) + 1] = held[w]
        /\ \A i \in 1..Len(results) : results'[i] = results[i]
    BY <1>1 DEF IInv, TypeOK, Send, Room
  <1>3. TypeOK'
    BY <1>1, <1>2, WorkersAssumption DEF IInv, TypeOK, Send, compiles, listing, feeder, checks, history
  <1>4. Phases' /\ Suites' /\ Groups' /\ Finished' /\ FailsOnlyWithoutPackages'
    BY <1>1, WorkerRest DEF Send
  <1>5. AtATest'
    BY <1>1 DEF IInv, AtATest, Send, compiles
  <1>6. Cuts' /\ Counted'
    BY DEF IInv, Cuts, Counted, Send, checks, history
  <1>7. Stalls'
    <2>1. \A p \in stalled : RunningIn(p)' \subseteq RunningIn(p)
      BY <1>1 DEF RunningIn
    <2> QED BY <2>1, StallsStay DEF Send, history
  <1>8. Passing'
    <2>1. \A t : OnItsWay(t) => OnItsWay(t)'
      BY <1>1, <1>2 DEF OnItsWay
    <2>2. \A i \in 1..Len(results') : results'[i] = held[w] \/ \E j \in 1..Len(results) : results'[i] = results[j]
      BY <1>2
    <2>3. UNCHANGED <<stage, index, passed>> /\ \A u \in Tests : Covered(u)' = Covered(u)
      BY DEF Covered, Send, history
    <2>4. {held[w]} \in passed /\ index \in [Lines -> SUBSET Tests]
      BY <1>1 DEF IInv, Passing, TypeOK
    <2>5. \A i \in 1..Len(results') : {results'[i]} \in passed
      BY <2>2, <2>4 DEF IInv, Passing
    <2>6. \A v \in Workers : at'[v] = "sending" => {held'[v]} \in passed
      BY <1>1 DEF IInv, Passing
    <2> QED BY <2>1, <2>3, <2>4, <2>5, <2>6 DEF IInv, Passing
  <1> QED BY <1>3, <1>4, <1>5, <1>6, <1>7, <1>8 DEF IInv

LEMMA DoesNotPassStep == ASSUME IInv, NEW w \in Workers, DoesNotPass(w) PROVE IInv'
  <1> DEFINE t == held[w]
             q == PkgOf(t)
  <1>1. /\ at[w] = "running" /\ at'[w] = "idle" /\ held' = held /\ t \in Tests /\ q \in bins
        /\ \A v \in Workers : v # w => at'[v] = at[v]
        /\ at' \in [Workers -> {"idle", "held", "running", "sending", "gone"}]
    BY DEF IInv, TypeOK, AtATest, DoesNotPass, Move
  <1>2. \/ UNCHANGED <<stalled, timedOut>> /\ cut' = (cut \/ ctxDone)
        \/ stalled' = stalled \cup {q} /\ timedOut' = timedOut \cup {t} /\ cut' = cut
    BY DEF DoesNotPass, Fails
  <1>3. TypeOK'
    BY <1>1, <1>2 DEF IInv, TypeOK, DoesNotPass, compiles, listing, feeder, channels, checks
  <1>4. /\ stage = "solo" /\ result = "none"
        /\ Phases' /\ Suites' /\ Groups' /\ Finished' /\ FailsOnlyWithoutPackages'
    BY <1>1, WorkerRest DEF DoesNotPass, channels
  <1>5. AtATest'
    BY <1>1 DEF IInv, AtATest, DoesNotPass, compiles
  <1>6. Cuts'
    <2>1. cut \in BOOLEAN /\ ctxDone \in BOOLEAN
      BY DEF IInv, TypeOK
    <2>2. cut' => ctxDone
      BY <1>2, <2>1 DEF IInv, Cuts
    <2> QED BY <1>4, <2>2 DEF Cuts, DoesNotPass
  <1>7. Counted'
    BY <1>2, FS_AddElement DEF IInv, Counted, DoesNotPass, checks
  <1>8. Stalls'
    <2>1. \A p : RunningIn(p)' \subseteq RunningIn(p) /\ w \notin RunningIn(p)'
      BY <1>1 DEF RunningIn
    <2>2. CASE UNCHANGED <<stalled, timedOut>>
      BY <2>1, <2>2, StallsStay
    <2>3. CASE stalled' = stalled \cup {q} /\ timedOut' = timedOut \cup {t}
      <3>1. \A u \in timedOut' : PkgOf(u) \in stalled'
        BY <2>3 DEF IInv, Stalls
      <3>2. ASSUME NEW p \in stalled'
            PROVE  Cardinality(TimedOutIn(p)') + Cardinality(RunningIn(p)') <= NWorkers
        <4>1. IsFiniteSet(Workers) /\ Cardinality(Workers) = NWorkers
          BY WorkersAssumption, FS_Interval DEF Workers
        <4>2. IsFiniteSet(RunningIn(p)) /\ Cardinality(RunningIn(p)) <= NWorkers
          BY <4>1, FS_Subset DEF RunningIn
        <4>3. IsFiniteSet(RunningIn(p)') /\ Cardinality(RunningIn(p)') <= Cardinality(RunningIn(p))
          BY <2>1, <4>2, FS_Subset
        <4>4. IsFiniteSet(TimedOutIn(p))
          BY FS_Subset DEF IInv, Counted, TimedOutIn
        <4>5. /\ Cardinality(RunningIn(p)) \in Nat /\ Cardinality(RunningIn(p)') \in Nat
              /\ Cardinality(TimedOutIn(p)) \in Nat
          BY <4>2, <4>3, <4>4, FS_CardinalityType
        <4>6. CASE p # q
          <5>1. TimedOutIn(p)' = TimedOutIn(p) /\ p \in stalled
            BY <2>3, <3>2, <4>6 DEF TimedOutIn
          <5> QED BY <4>3, <4>5, <5>1, WorkersAssumption DEF IInv, Stalls
        <4>7. CASE p = q
          <5>1. w \in RunningIn(p)
            BY <1>1, <4>7 DEF RunningIn
          <5>2. /\ IsFiniteSet(RunningIn(p) \ {w})
                /\ Cardinality(RunningIn(p) \ {w}) = Cardinality(RunningIn(p)) - 1
            BY <4>2, <5>1, FS_RemoveElement
          <5>3. RunningIn(p)' \subseteq RunningIn(p) \ {w}
            BY <2>1
          <5>4. Cardinality(RunningIn(p)') <= Cardinality(RunningIn(p)) - 1
            BY <5>2, <5>3, FS_Subset
          <5>5. TimedOutIn(p)' = TimedOutIn(p) \cup {t}
            BY <2>3, <4>7 DEF TimedOutIn
          <5>6. Cardinality(TimedOutIn(p)') <= Cardinality(TimedOutIn(p)) + 1
            <6>1. Cardinality(TimedOutIn(p) \cup {t}) \in
                    {Cardinality(TimedOutIn(p)), Cardinality(TimedOutIn(p)) + 1}
              BY <4>4, FS_AddElement
            <6> QED BY <4>5, <5>5, <6>1
          <5>7. Cardinality(TimedOutIn(p)') \in Nat
            BY <4>4, <5>5, FS_AddElement, FS_CardinalityType
          <5>8. CASE p \in stalled
            BY <4>5, <5>4, <5>6, <5>7, <5>8, WorkersAssumption DEF IInv, Stalls
          <5>9. CASE p \notin stalled
            <6>1. TimedOutIn(p) = {}
              BY <5>9 DEF IInv, Stalls, TimedOutIn
            <6>2. Cardinality(TimedOutIn(p)) = 0
              BY <6>1, FS_EmptySet
            <6> QED BY <4>2, <4>5, <5>4, <5>6, <5>7, <6>2, WorkersAssumption
          <5> QED BY <5>8, <5>9
        <4> QED BY <4>6, <4>7
      <3> QED BY <3>1, <3>2 DEF Stalls
    <2> QED BY <1>2, <2>2, <2>3
  <1>9. Passing'
    <2>1. \A u : OnItsWay(u) => OnItsWay(u)'
      BY <1>1 DEF OnItsWay, DoesNotPass, channels
    <2> QED BY <1>1, <2>1 DEF IInv, Passing, Covered, DoesNotPass, channels
  <1> QED BY <1>3, <1>4, <1>5, <1>6, <1>7, <1>8, <1>9 DEF IInv

-----------------------------------------------------------------------------
(* The collector.                                                          *)

(* Steps of the build itself leave the tests that run, and what they cost, *)
(* alone.                                                                  *)
LEMMA BuildRest ==
    ASSUME IInv, UNCHANGED <<compiles, pool, stalled, timedOut>>
    PROVE  AtATest' /\ Stalls'
  <1>1. \A p : RunningIn(p)' = RunningIn(p)
    BY DEF RunningIn, pool
  <1> QED BY <1>1, StallsStay DEF IInv, AtATest, pool, compiles

LEMMA CloseResultsStep == ASSUME IInv, CloseResults PROVE IInv'
  <1>1. TypeOK'
    BY DEF IInv, TypeOK, CloseResults, compiles, listing, feeder, pool, checks, history
  <1>2. AtATest' /\ Stalls'
    BY BuildRest DEF CloseResults, history
  <1>3. Phases'
    BY DEF IInv, Phases, WorkersDone, Early, CloseResults, listing, pool, checks, history
  <1>4. Cuts' /\ Suites' /\ Counted' /\ FailsOnlyWithoutPackages'
    BY DEF IInv, Cuts, Suites, Counted, FailsOnlyWithoutPackages, CloseResults, compiles, checks, history
  <1>5. Groups' /\ Finished'
    BY DEF IInv, Phases, Groups, Finished, CloseResults, checks
  <1>6. Passing'
    BY DEF IInv, Passing, OnItsWay, Covered, CloseResults, pool, history
  <1> QED BY <1>1, <1>2, <1>3, <1>4, <1>5, <1>6 DEF IInv

LEMMA IngestStep == ASSUME IInv, Ingest PROVE IInv'
  <1> DEFINE t == Head(results)
  <1>1. /\ t \in Tests /\ Tail(results) \in Seq(Tests) /\ t = results[1] /\ 1 \in 1..Len(results)
        /\ Len(Tail(results)) = Len(results) - 1 /\ Len(results) \in Nat \ {0}
        /\ \A i \in 1..Len(Tail(results)) : i + 1 \in 1..Len(results) /\ Tail(results)[i] = results[i + 1]
        /\ \A i \in 1..Len(results) : i # 1 =>
             i - 1 \in 1..Len(Tail(results)) /\ Tail(results)[i - 1] = results[i]
    <2>1. results \in Seq(Tests) /\ results # << >>
      BY DEF IInv, TypeOK, Ingest
    <2> QED BY <2>1, HeadAndTail
  <1>2. /\ stage = "solo" /\ stage' = stage /\ result' = result /\ result = "none"
        /\ \A l \in Lines : index'[l] = index[l] \cup (IF l \in Covered(t) THEN {t} ELSE {})
        /\ results' = Tail(results)
        /\ Covered(t) \subseteq Lines
    BY <1>1, CoveredLines DEF IInv, Phases, Ingest
  <1>3. TypeOK'
    <2>1. index' \in [Lines -> SUBSET Tests]
      BY <1>1 DEF IInv, TypeOK, Ingest
    <2> QED BY <1>1, <1>2, <2>1, WorkersAssumption
            DEF IInv, TypeOK, Ingest, compiles, listing, feeder, pool, checks, history
  <1>4. AtATest' /\ Stalls'
    BY BuildRest DEF Ingest, history
  <1>5. Phases'
    BY <1>2 DEF IInv, Phases, WorkersDone, Early, Ingest, listing, pool, checks, history
  <1>6. Cuts' /\ Suites' /\ FailsOnlyWithoutPackages'
    BY DEF IInv, Cuts, Suites, FailsOnlyWithoutPackages, Ingest, compiles, history
  <1>7. Counted'
    <2>1. ASSUME NEW l \in Lines PROVE IsFiniteSet(index'[l])
      <3>1. IsFiniteSet(index[l]) /\ IsFiniteSet(index[l] \cup {t})
        BY FS_AddElement DEF IInv, Counted
      <3>2. index'[l] = index[l] \cup {t} \/ index'[l] = index[l]
        BY <1>2
      <3> QED BY <3>1, <3>2
    <2> QED BY <2>1 DEF IInv, Counted, Ingest, checks, history
  <1>8. Groups' /\ Finished'
    BY <1>2 DEF IInv, Groups, Finished, Ingest, checks
  <1>9. Passing'
    <2>1. /\ UNCHANGED <<at, held, passed>>
          /\ \A u \in Tests : Covered(u)' = Covered(u)
      BY DEF Ingest, Covered, pool, history
    <2>2. {t} \in passed
      BY <1>1 DEF IInv, Passing
    <2>3. ASSUME NEW u \in Tests, {u} \in passed
          PROVE  OnItsWay(u)' \/ \A l \in Covered(u) : u \in index'[l]
      <3>1. CASE u = t
        BY <1>2, <3>1
      <3>2. CASE u # t /\ OnItsWay(u)
        <4>1. CASE \E v \in Workers : at[v] = "sending" /\ held[v] = u
          BY <2>1, <4>1 DEF OnItsWay
        <4>2. CASE \E i \in 1..Len(results) : results[i] = u
          <5>1. PICK i \in 1..Len(results) : results[i] = u
            BY <4>2
          <5>2. i - 1 \in 1..Len(results') /\ results'[i - 1] = u
            BY <1>1, <1>2, <3>2, <5>1
          <5> QED BY <5>2 DEF OnItsWay
        <4> QED BY <3>2, <4>1, <4>2 DEF OnItsWay
      <3>3. CASE \A l \in Covered(u) : u \in index[l]
        BY <1>2, <3>3, CoveredLines
      <3> QED BY <1>2, <2>3, <3>1, <3>2, <3>3 DEF IInv, Passing
    <2>4. \A l \in Lines : \A u \in index'[l] : {u} \in passed /\ l \in Covered(u)
      BY <1>2, <2>2 DEF IInv, Passing
    <2>5. \A i \in 1..Len(results') : {results'[i]} \in passed
      BY <1>1, <1>2 DEF IInv, Passing
    <2>6. index' \in [Lines -> SUBSET Tests] /\ \A v \in Workers : at[v] = "sending" => {held[v]} \in passed
      BY <1>3 DEF TypeOK, IInv, Passing
    <2> QED BY <2>1, <2>3, <2>4, <2>5, <2>6 DEF Passing
  <1> QED BY <1>3, <1>4, <1>5, <1>6, <1>7, <1>8, <1>9 DEF IInv

(* The pool has ended and nothing is on its way any more.                  *)
LEMMA CollectedStep == ASSUME IInv, Collected PROVE IInv'
  <1>1. /\ stage = "solo" /\ result = "none" /\ WorkersDone /\ results = << >> /\ ~resOpen
        /\ waiting = {} /\ running = {} /\ running' = {} /\ resOpen' = resOpen
        /\ UNCHANGED <<at, held, results, index, failed, passed, cut, ctxDone, crossPkg, suites>>
    BY DEF IInv, Phases, Collected, channels, pool, checks, history, compiles
  <1>2. \/ stage' = "returned" /\ result' = "error" /\ ctxDone /\ waiting' = waiting
        \/ stage' = "check" /\ result' = "none" /\ ~ctxDone /\ waiting' = TestGroups
    BY <1>1 DEF Collected, Go, Return
  <1>3. TestGroups \subseteq SUBSET Tests
    <2>1. ASSUME NEW l \in MutantLines, NEW p \in Pkgs PROVE Group(l, p) \subseteq Tests
      <3>1. index[l] \subseteq Tests
        BY LinesAssumption DEF IInv, TypeOK
      <3> QED BY <3>1 DEF Group
    <2> QED BY <2>1 DEF TestGroups, LineGroups
  <1>4. TypeOK'
    BY <1>2, <1>3 DEF IInv, TypeOK, Collected, compiles, listing, feeder, channels, pool, history
  <1>5. AtATest' /\ Stalls'
    BY BuildRest DEF Collected, history
  <1>6. Phases'
    BY <1>1, <1>2 DEF Phases, WorkersDone, Early
  <1>7. Cuts' /\ Suites' /\ FailsOnlyWithoutPackages'
    BY <1>1, <1>2 DEF IInv, Cuts, Suites, FailsOnlyWithoutPackages
  <1>8. Counted' /\ Finished'
    BY <1>1, <1>2 DEF IInv, Counted, Finished, Collected, history
  <1>9. Groups'
    BY <1>1, <1>2, GroupsOfIndex DEF Groups, TestGroups
  <1>10. Passing'
    <2>1. \A t : OnItsWay(t)' <=> OnItsWay(t)
      BY <1>1 DEF OnItsWay
    <2> QED BY <1>1, <1>2, <2>1 DEF IInv, Passing, Covered
  <1> QED BY <1>4, <1>5, <1>6, <1>7, <1>8, <1>9, <1>10 DEF IInv

-----------------------------------------------------------------------------
(* The checks.                                                             *)

LEMMA StartGroupStep == ASSUME IInv, NEW g \in waiting, StartGroup(g) PROVE IInv'
  <1>1. /\ stage = "check" /\ stage' = stage /\ result = "none" /\ result' = result
        /\ waiting' = waiting \ {g} /\ running' = running \cup {g} /\ failed' = failed
        /\ UNCHANGED <<index, passed, crossPkg, results, at, held>>
    BY DEF IInv, Phases, StartGroup, channels, pool, history
  <1>2. IsFiniteSet(running') /\ Cardinality(running') <= NWorkers
    <2>1. IsFiniteSet(running) /\ Cardinality(running) \in Nat /\ Cardinality(running) < NWorkers
      BY FS_CardinalityType DEF IInv, Counted, StartGroup
    <2>2. IsFiniteSet(running \cup {g})
      BY <2>1, FS_AddElement
    <2>3. Cardinality(running \cup {g}) \in {Cardinality(running), Cardinality(running) + 1}
      BY <2>1, FS_AddElement
    <2> QED BY <1>1, <2>1, <2>2, <2>3, WorkersAssumption
  <1>3. TypeOK'
    BY <1>1, <1>2 DEF IInv, TypeOK, StartGroup, compiles, listing, feeder, channels, pool, history
  <1>4. AtATest' /\ Stalls'
    BY BuildRest DEF StartGroup, history
  <1>5. Phases' /\ Cuts' /\ Suites' /\ FailsOnlyWithoutPackages'
    BY <1>1 DEF IInv, Phases, WorkersDone, Early, Cuts, Suites, FailsOnlyWithoutPackages, StartGroup,
                compiles, listing, channels, history
  <1>6. Counted' /\ Finished'
    BY <1>1, <1>2 DEF IInv, Counted, Finished, StartGroup, history
  <1>7. Groups'
    BY <1>1, GroupsOfIndex DEF IInv, Groups
  <1>8. Passing'
    <2>1. \A t : OnItsWay(t)' <=> OnItsWay(t)
      BY <1>1 DEF OnItsWay
    <2> QED BY <1>1, <2>1 DEF IInv, Passing, Covered
  <1> QED BY <1>3, <1>4, <1>5, <1>6, <1>7, <1>8 DEF IInv

(* A group that passes says nothing of a test alone: it has two or more.   *)
LEMMA EndGroupStep == ASSUME IInv, NEW g \in running, EndGroup(g) PROVE IInv'
  <1>1. /\ stage = "check" /\ stage' = stage /\ result = "none" /\ result' = result
        /\ waiting' = waiting /\ running' = running \ {g} /\ Cardinality(g) > 1 /\ g \subseteq Tests
        /\ UNCHANGED <<index, crossPkg, results, at, held, ctxDone>>
    BY DEF IInv, TypeOK, Phases, Groups, EndGroup, channels, pool
  <1>2. \/ passed' = passed \cup {g} /\ failed' = failed /\ cut' = cut
        \/ passed' = passed /\ failed' = failed \cup {g} /\ cut' = (cut \/ ctxDone)
    BY DEF EndGroup, Fails
  <1>3. \A t : {t} \in passed' <=> {t} \in passed
    <2>1. \A t : {t} # g
      <3>1. \A t : Cardinality({t}) = 1
        BY FS_Singleton
      <3> QED BY <1>1, <3>1
    <2> QED BY <1>2, <2>1
  <1>4. IsFiniteSet(running') /\ Cardinality(running') <= NWorkers
    <2>1. IsFiniteSet(running) /\ Cardinality(running) \in Nat /\ Cardinality(running) <= NWorkers
      BY FS_CardinalityType DEF IInv, Counted, TypeOK
    <2>2. IsFiniteSet(running \ {g}) /\ Cardinality(running \ {g}) = Cardinality(running) - 1
      BY <2>1, FS_RemoveElement
    <2> QED BY <1>1, <2>1, <2>2, WorkersAssumption
  <1>5. TypeOK'
    <2>1. cut' \in BOOLEAN
      BY <1>2 DEF IInv, TypeOK
    <2>2. /\ passed \cup {g} \subseteq SUBSET Tests /\ failed \cup {g} \subseteq SUBSET Tests
          /\ passed \subseteq SUBSET Tests /\ failed \subseteq SUBSET Tests
      <3>1. g \in SUBSET Tests
        BY <1>1
      <3> QED BY <3>1 DEF IInv, TypeOK
    <2> QED BY <1>1, <1>2, <1>4, <2>1, <2>2
            DEF IInv, TypeOK, EndGroup, compiles, listing, feeder, channels, pool
  <1>6. AtATest' /\ Stalls'
    BY BuildRest DEF EndGroup
  <1>7. Phases' /\ Suites' /\ FailsOnlyWithoutPackages'
    BY <1>1 DEF IInv, Phases, WorkersDone, Early, Suites, FailsOnlyWithoutPackages, EndGroup,
                compiles, listing, channels
  <1>8. Cuts'
    <2>1. cut \in BOOLEAN /\ ctxDone \in BOOLEAN
      BY DEF IInv, TypeOK
    <2>2. cut' => ctxDone
      BY <1>2, <2>1 DEF IInv, Cuts
    <2> QED BY <1>1, <2>2 DEF Cuts
  <1>9. Counted' /\ Finished'
    BY <1>1, <1>4 DEF IInv, Counted, Finished, EndGroup
  <1>10. Groups'
    BY <1>1, <1>2, GroupsOfIndex DEF IInv, Groups
  <1>11. Passing'
    <2>1. \A t : OnItsWay(t)' <=> OnItsWay(t)
      BY <1>1 DEF OnItsWay
    <2> QED BY <1>1, <1>3, <2>1 DEF IInv, Passing, Covered
  <1> QED BY <1>5, <1>6, <1>7, <1>8, <1>9, <1>10, <1>11 DEF IInv

(* A line's own group of a package is kept whole or dropped whole.         *)
LEMMA GroupAfterChecks ==
    ASSUME IInv, NEW l \in Lines, NEW p \in Pkgs, index'[l] = index[l] \ Dropped(l)
    PROVE  Group(l, p)' = IF Group(l, p) \in failed THEN {} ELSE Group(l, p)
  <1>1. Group(l, p)' = {t \in index[l] \ Dropped(l) : PkgOf(t) = p}
    BY DEF Group
  <1>2. \A t \in index[l] : PkgOf(t) = p => (t \in Dropped(l) <=> Group(l, p) \in failed)
    BY DEF Dropped
  <1> QED BY <1>1, <1>2 DEF Group

LEMMA CheckedStep == ASSUME IInv, Checked PROVE IInv'
  <1>1. /\ stage = "check" /\ result = "none" /\ WorkersDone /\ results = << >>
        /\ waiting = {} /\ running = {}
        /\ UNCHANGED <<at, held, results, resOpen, unlisted, waiting, running, failed, passed, cut,
                       ctxDone, crossPkg, suites>>
    BY DEF IInv, Phases, Checked, listing, channels, pool, checks, history, compiles
  <1>2. \/ stage' = "returned" /\ result' = "error" /\ ctxDone /\ index' = index
        \/ /\ ~ctxDone /\ index' = [l \in Lines |-> index[l] \ Dropped(l)]
           /\ \/ stage' = "links" /\ result' = "none"
              \/ stage' = "returned" /\ result' = "map"
    BY <1>1 DEF Checked, GivesUp, Go, Return
  <1>3. \A l \in Lines : index'[l] \subseteq index[l]
    BY <1>2
  <1>4. TypeOK'
    <2>1. index \in [Lines -> SUBSET Tests]
      BY DEF IInv, TypeOK
    <2>2. index' \in [Lines -> SUBSET Tests]
      BY <1>2, <2>1
    <2> QED BY <1>2, <2>2 DEF IInv, TypeOK, Checked, compiles, listing, feeder, channels, pool,
                              checks, history
  <1>5. AtATest' /\ Stalls'
    BY BuildRest DEF Checked, history
  <1>6. Phases'
    BY <1>1, <1>2 DEF IInv, Phases, WorkersDone, Early
  <1>7. Cuts' /\ Suites' /\ FailsOnlyWithoutPackages'
    BY <1>1, <1>2 DEF IInv, Cuts, Suites, FailsOnlyWithoutPackages
  <1>8. Counted'
    <2>1. \A l \in Lines : IsFiniteSet(index'[l])
      BY <1>3, FS_Subset DEF IInv, Counted
    <2> QED BY <2>1 DEF IInv, Counted, Checked, checks, history
  <1>9. Groups'
    BY <1>1, <1>2 DEF Groups
  <1>10. Passing'
    BY <1>1, <1>2, <1>3 DEF IInv, Passing, Covered
  <1>11. Finished'
    <2>1. SUFFICES ASSUME index' = [l \in Lines |-> index[l] \ Dropped(l)]
                   PROVE  Finished'
      BY <1>2 DEF Finished
    <2>2. \A t \in Tests : \A l \in Covered(t) :
            {t} \in passed => t \in index[l]
      BY <1>1 DEF IInv, Passing, OnItsWay, WorkersDone
    <2>3. ASSUME NEW l \in MutantLines PROVE LineGroups(l)' \subseteq passed
      <3>1. l \in Lines
        BY LinesAssumption
      <3>2. ASSUME NEW p \in Pkgs, Group(l, p)' # {} PROVE Group(l, p)' \in passed
        <4> DEFINE g == Group(l, p)
        <4>1. Group(l, p)' = g /\ g \notin failed /\ g # {}
          BY <2>1, <3>1, <3>2, GroupAfterChecks
        <4>2. g \in LineGroups(l)
          BY <4>1 DEF LineGroups
        <4>3. CASE Cardinality(g) > 1
          <5>1. g \in TestGroups
            BY <4>2, <4>3 DEF TestGroups
          <5> QED BY <1>1, <4>1, <5>1 DEF IInv, Groups
        <4>4. CASE ~(Cardinality(g) > 1)
          <5>1. PICK t : t \in g
            BY <4>1
          <5>2. IsFiniteSet(g) /\ Cardinality(g) \in Nat
            BY <3>1, FS_Subset, FS_CardinalityType DEF IInv, Counted, Group
          <5>3. Cardinality(g) # 0
            BY <5>1, <5>2, FS_EmptySet
          <5>4. g = {t}
            BY <4>4, <5>1, <5>2, <5>3, FS_Singleton
          <5>5. {t} \in passed
            BY <3>1, <5>1 DEF IInv, Passing, Group
          <5> QED BY <4>1, <5>4, <5>5
        <4> QED BY <4>3, <4>4
      <3> QED BY <3>2 DEF LineGroups
    <2>4. ASSUME NEW t \in Tests, {t} \in passed, NEW l \in Covered(t), t \notin index'[l]
          PROVE  Alone(PkgOf(t), l) \in failed
      <3>1. l \in Lines
        BY CoveredLines
      <3>2. t \in index[l] /\ t \in Dropped(l)
        BY <2>1, <2>2, <2>4, <3>1
      <3>3. Group(l, PkgOf(t)) \in failed
        BY <3>2 DEF Dropped
      <3>4. \A u : u \in index[l] <=> u \in Tests /\ {u} \in passed /\ l \in Covered(u)
        <4>1. index[l] \subseteq Tests
          BY <3>1 DEF IInv, TypeOK
        <4> QED BY <2>2, <3>1, <4>1 DEF IInv, Passing
      <3>5. Alone(PkgOf(t), l) = Group(l, PkgOf(t))
        BY <3>4 DEF Alone, Group
      <3> QED BY <3>3, <3>5
    <2>5. /\ \A t : Covered(t)' = Covered(t)
          /\ \A p, l : Alone(p, l)' = Alone(p, l)
      BY <1>1, AloneStays DEF Covered
    <2> QED BY <1>1, <2>3, <2>4, <2>5 DEF Finished
  <1> QED BY <1>4, <1>5, <1>6, <1>7, <1>8, <1>9, <1>10, <1>11 DEF IInv

LEMMA ReadLinksStep == ASSUME IInv, ReadLinks PROVE IInv'
  <1>1. /\ stage = "links" /\ stage' = "returned" /\ result' = "map"
        /\ UNCHANGED <<at, held, results, resOpen, waiting, running, failed, index, passed, cut,
                       ctxDone, crossPkg, suites>>
    BY DEF ReadLinks, Return, channels, pool, checks, history, compiles
  <1>2. TypeOK'
    BY <1>1 DEF IInv, TypeOK, ReadLinks, compiles, listing, feeder, channels, pool, checks, history
  <1>3. AtATest' /\ Stalls'
    BY BuildRest DEF ReadLinks, history
  <1>4. Phases' /\ Cuts' /\ Suites' /\ FailsOnlyWithoutPackages'
    BY <1>1 DEF IInv, Phases, WorkersDone, Early, Cuts, Suites, FailsOnlyWithoutPackages
  <1>5. Counted' /\ Groups'
    BY <1>1 DEF IInv, Counted, Groups, ReadLinks, history
  <1>6. Finished'
    <2>1. \A p, l : Alone(p, l)' = Alone(p, l)
      BY <1>1, AloneStays
    <2> QED BY <1>1, <2>1, GroupsOfIndex DEF IInv, Finished, Covered
  <1>7. Passing'
    BY <1>1 DEF IInv, Passing, Covered
  <1> QED BY <1>2, <1>3, <1>4, <1>5, <1>6, <1>7 DEF IInv

-----------------------------------------------------------------------------
(* The theorems.                                                           *)

LEMMA NextInv == IInv /\ [Next]_vars => IInv'
  <1> SUFFICES ASSUME IInv, [Next]_vars PROVE IInv'
    OBVIOUS
  <1>1. CASE Resolve \/ Compile \/ Compiled \/ SetTestArgs \/ \E p \in Pkgs : List(p)
    BY <1>1, ResolveStep, CompileStep, CompiledStep, SetTestArgsStep, ListStep
  <1>2. CASE Listed \/ Feed \/ FeedEnd
    BY <1>2, ListedStep, FeedStep, FeedEndStep
  <1>3. ASSUME NEW w \in Workers, Worker(w) PROVE IInv'
    BY <1>3, ReceiveStep, BeginStep, PassesStep, DoesNotPassStep, SendStep DEF Worker
  <1>4. CASE CloseResults \/ Ingest \/ Collected
    BY <1>4, CloseResultsStep, IngestStep, CollectedStep
  <1>5. CASE (\E g \in waiting : StartGroup(g)) \/ (\E g \in running : EndGroup(g))
    BY <1>5, StartGroupStep, EndGroupStep
  <1>6. CASE Checked \/ ReadLinks
    BY <1>6, CheckedStep, ReadLinksStep
  <1>7. CASE Cancel \/ Done \/ UNCHANGED vars
    BY <1>7, CancelStep, DoneStep DEF Done
  <1> QED BY <1>1, <1>2, <1>3, <1>4, <1>5, <1>6, <1>7 DEF Next, BuildTestMap

LEMMA Invariance == Spec => []IInv
  BY InitInv, NextInv, PTL DEF Spec

(* What hangs, fails or is cancelled costs the build time or the map,      *)
(* never the map's truth: no map is made of what the cancel failed, a      *)
(* package that hangs costs each worker one timeout at most, and with      *)
(* -coverpkg a build fails only when it knows no package (testmap.go:300,  *)
(* :557, pipeline.go:583).                                                 *)
THEOREM MapInvHolds == Spec => []MapInv
  <1>1. IInv => MapInv
    <2> SUFFICES ASSUME IInv PROVE MapInv
      OBVIOUS
    <2>1. ASSUME NEW p \in Pkgs PROVE Cardinality(TimedOutIn(p)) <= NWorkers
      <3>1. CASE p \in stalled
        <4>1. IsFiniteSet(TimedOutIn(p))
          BY FS_Subset DEF IInv, Counted, TimedOutIn
        <4>2. IsFiniteSet(Workers)
          BY WorkersAssumption, FS_Interval DEF Workers
        <4>3. IsFiniteSet(RunningIn(p))
          BY <4>2, FS_Subset DEF RunningIn
        <4>4. Cardinality(TimedOutIn(p)) \in Nat /\ Cardinality(RunningIn(p)) \in Nat
          BY <4>1, <4>3, FS_CardinalityType
        <4> QED BY <3>1, <4>4, WorkersAssumption DEF IInv, Stalls
      <3>2. CASE p \notin stalled
        <4>1. TimedOutIn(p) = {}
          BY <3>2 DEF IInv, Stalls, TimedOutIn
        <4> QED BY <4>1, FS_EmptySet, WorkersAssumption
      <3> QED BY <3>1, <3>2
    <2>2. OneStallPerWorker
      BY <2>1 DEF OneStallPerWorker, TimedOutIn
    <2>3. NoMapFromCutShort
      BY DEF IInv, Cuts, NoMapFromCutShort
    <2> QED BY <2>2, <2>3 DEF IInv, MapInv
  <1> QED BY <1>1, Invariance, PTL

(* What a mutant is routed to has passed without it, together as it will   *)
(* be run, whatever passed, failed or hung on the way (testmap.go:504).    *)
THEOREM RoutedGroupsPassedHolds == Spec => []RoutedGroupsPassed
  <1>1. IInv => RoutedGroupsPassed
    BY DEF IInv, Finished, RoutedGroupsPassed
  <1> QED BY <1>1, Invariance, PTL

(* No result is lost between the workers and the collector: a test that    *)
(* passed is routed to all it covers, unless its package's tests there     *)
(* failed together (testmap.go:290).                                       *)
THEOREM NoRouteLostHolds == Spec => []NoRouteLost
  <1>1. IInv => NoRouteLost
    BY DEF IInv, Finished, Alone, NoRouteLost
  <1> QED BY <1>1, Invariance, PTL

(* Every suite that can kill a mutant is among those that decide whether   *)
(* it lives, whatever of the build failed (testmap.go:319).                *)
THEOREM KillersAmongSuitesHolds == Spec => []KillersAmongSuites
  <1>1. IInv => KillersAmongSuites
    BY DEF IInv, Suites, KillersAmongSuites, SuitePkgs, Linked
  <1> QED BY <1>1, Invariance, PTL
=============================================================================
