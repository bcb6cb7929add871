------------------------------ MODULE Pipeline ------------------------------
(***************************************************************************)
(* One invocation of gomutants: run in main.go and the phases of           *)
(* pipeline.go, to the exit status.  The mutant pool is module TestRun,    *)
(* which Pool implements; what the phases read and write of the cache is   *)
(* module Incremental.  An interrupt may come at any time: it fails what   *)
(* the phase runs under the context, and each phase takes that its way.    *)
(* --help, --version and --list-mutators, which print and exit, are left   *)
(* out.                                                                    *)
(***************************************************************************)
EXTENDS Naturals, FiniteSets, Statuses

CONSTANTS Mutants,      \* what discovery may find
          Verdicts,     \* the statuses a test may end with
          Percentages   \* the values of a threshold, 0 when it is off

ASSUME PipelineAssumption ==
    /\ IsFiniteSet(Mutants)
    /\ Verdicts \subseteq TestVerdicts
    /\ Percentages \subseteq 0..100

VARIABLES
    pc,       \* the phase
    opts,     \* the flags
    target,   \* mr.earlyTarget, {} until --run-mutant-id is resolved
    status,   \* the status of each mutant, Dropped if it is not in mr.mutants
    replayed, \* the mutants whose status came from the cache
    report,   \* the counts of the report, once it is written
    code,     \* the exit status
    ctxDone,  \* SIGINT or SIGTERM was received
    cutAt     \* history: the phase it was received in

vars == <<pc, opts, target, status, replayed, report, code, ctxDone, cutAt>>

Dropped == "DROPPED"
Kept    == {m \in Mutants : status[m] # Dropped}
With(s) == {m \in Kept : status[m] = s}

(* Exit statuses.                                                          *)
Success       == 0
Runtime       == 1
Usage         == 2
BelowEfficacy == 10
BelowMcover   == 11

Phases == <<"flags", "setup", "resolve", "target", "scope", "coverage", "baseline",
            "discover", "preread", "map", "links", "cache", "run", "tce",
            "reports", "gates", "exit">>
Options == [single  : BOOLEAN,      \* --run-mutant-id
            dry     : BOOLEAN,      \* --dry-run
            changed : BOOLEAN,      \* --changed-since
            cross   : BOOLEAN,      \* --coverpkg or --integration
            cache   : BOOLEAN,      \* --cache
            detect  : BOOLEAN,      \* --detect-equivalent
            efficacy : Percentages, mcover : Percentages]

NoReport == [total |-> 0, counted |-> 0]

TypeOK ==
    /\ \E i \in DOMAIN Phases : pc = Phases[i]
    /\ opts \in Options
    /\ target \subseteq Mutants /\ Cardinality(target) <= 1
    /\ status \in [Mutants -> Statuses \cup {Dropped}]
    /\ replayed \subseteq Kept
    /\ report.total \in Nat /\ report.counted \in Nat
    /\ code \in {Success, Runtime, Usage, BelowEfficacy, BelowMcover}
    /\ ctxDone \in BOOLEAN
    /\ cutAt = "none" \/ \E i \in DOMAIN Phases : cutAt = Phases[i]

Init ==
    /\ pc = "flags"
    /\ opts \in Options
    /\ target = {}
    /\ status = [m \in Mutants |-> Dropped]
    /\ replayed = {}
    /\ report = NoReport
    /\ code = Success
    /\ ctxDone = FALSE /\ cutAt = "none"

-----------------------------------------------------------------------------
(* run goes from phase to phase, or returns.                               *)

Phase(from, to) == pc = from /\ pc' = to /\ code' = code

Return(from, c) ==
    /\ pc = from /\ pc' = "exit" /\ code' = c
    /\ UNCHANGED <<target, status, replayed, report>>

(* Phases that fail with an error, or change nothing a gate could see.     *)
Quietly == UNCHANGED <<target, status, replayed, report>>

Continue(from, to) == Phase(from, to) /\ Quietly

(* loadConfig: a dry run cannot answer for a target.                       *)
Flags ==
    \/ ~(opts.single /\ opts.dry) /\ Continue("flags", "setup")
    \/ Return("flags", Usage)

(* `go env' and `go list' are run under the context.                       *)
Setup   == (~ctxDone /\ Continue("setup", "resolve")) \/ Return("setup", Runtime)
Resolve == (~ctxDone /\ Continue("resolve", "target")) \/ Return("resolve", Runtime)

(* FilterByStableID: what an id may name.  (Faulty: it is no error that    *)
(* it names more than one mutant.)                                         *)
FaultyNamed == SUBSET Mutants \ {{}}
Named == {{m} : m \in Mutants}

(* checkRunMutantID: the id names no mutant, or one a filter drops: a      *)
(* usage error; git is asked under the context, and a file that a //line   *)
(* comment names may not be there to be read for directives.               *)
Target ==
    \/ /\ ~opts.single
       /\ Continue("target", "scope")
    \/ /\ opts.single /\ (opts.changed => ~ctxDone)
       /\ Phase("target", "scope")
       /\ target' \in Named
       /\ UNCHANGED <<status, replayed, report>>
    \/ opts.single /\ Return("target", Usage)
    \/ opts.single /\ Return("target", Runtime)

Scope == Continue("scope", "coverage") \/ Return("scope", Runtime)

(* A cached profile needs no test run.                                     *)
Coverage ==
    \/ (~ctxDone \/ opts.cache) /\ Continue("coverage", "baseline")
    \/ Return("coverage", Runtime)

Baseline ==
    \/ ~ctxDone /\ Continue("baseline", "discover")
    \/ Return("baseline", Runtime)

(* discoverMutants, and --dry-run.  The source may have been edited since  *)
(* the target was resolved: the id now names none, or another.             *)
(* (Faulty: what it names now is taken.)                                   *)
FaultySameTarget(found) == Cardinality(found) = 1
SameTarget(found) == found = target

Discover ==
    \/ /\ (opts.changed /\ ~opts.single) => ~ctxDone
       /\ Phase("discover", IF opts.dry THEN "exit" ELSE "preread")
       /\ \E found \in SUBSET Mutants :
            /\ opts.single => SameTarget(found)
            /\ \E covered \in SUBSET found :
                 status' = [m \in Mutants |-> CASE m \in covered -> Pending
                                                [] m \in found \ covered -> NotCovered
                                                [] OTHER -> Dropped]
       /\ UNCHANGED <<target, replayed, report>>
    \/ Return("discover", Runtime)

PreRead == Continue("preread", "map") \/ Return("preread", Runtime)

-----------------------------------------------------------------------------
(* buildTestMap: a map that failed is done without, unless --coverpkg needs*)
(* it or the interrupt is why.  (Faulty: whatever is why.)                 *)
FaultyBuildMap ==
    \/ Continue("map", "cache")
    \/ opts.cross /\ Return("map", Runtime)

BuildMap ==
    \/ ~ctxDone /\ Continue("map", IF opts.cross THEN "links" ELSE "cache")
    \/ (ctxDone \/ opts.cross) /\ Return("map", Runtime)

(* With --coverpkg, the processes of the build that no check of the context*)
(* follows, which read the binaries' arguments and what each suite links:  *)
(* when one fails the map is returned without.                             *)
ReadLinks == Continue("links", "cache")

(* applyCache.                                                             *)
LooksUp == opts.cache /\ ~opts.single

Replays(s) == IF s = Equivalent /\ ~opts.detect THEN Lived ELSE s

ApplyCache ==
    /\ Phase("cache", "run")
    /\ \E hits \in SUBSET (IF LooksUp THEN With(Pending) ELSE {}) :
       \E cached \in [hits -> {s \in Statuses : CanReuse(s)}] :
         /\ status' = [m \in Mutants |-> IF m \in hits THEN Replays(cached[m]) ELSE status[m]]
         /\ replayed' = hits
    /\ UNCHANGED <<target, report>>

-----------------------------------------------------------------------------
(* runMutants.                                                             *)

TestRun == INSTANCE TestRun WITH Given <- {Pending, NotCovered, Dropped},
                                 running <- pc = "run", cancelled <- ctxDone

Test ==
    /\ \/ pc' = pc /\ \E m \in Mutants : TestRun!Decide(m)
       \/ pc' = "tce" /\ (TestRun!Finish \/ TestRun!Abandon)
    /\ UNCHANGED <<target, replayed, report, code>>

(* tce.Detector.Run.                                                       *)
Prove ==
    /\ pc = "tce" /\ opts.detect /\ ~ctxDone
    /\ \E m \in With(Lived) : status' = [status EXCEPT ![m] = Equivalent]
    /\ UNCHANGED <<pc, target, replayed, report, code>>

EndProofs == Continue("tce", "reports")

-----------------------------------------------------------------------------
(* writeReports.  A pending mutant has no bucket.  (Faulty: nor has an     *)
(* equivalent one.)                                                        *)
FaultyBuckets == Statuses \ {Pending, Equivalent}
Buckets == Statuses \ {Pending}

Generate == [total |-> Cardinality(Kept), counted |-> Cardinality({m \in Kept : status[m] \in Buckets})]

WriteReports ==
    \/ /\ Phase("reports", "gates")
       /\ report' = Generate
       /\ UNCHANGED <<target, status, replayed>>
    \/ Return("reports", Runtime)
    \* The JSON report is written, another one is not.
    \/ /\ pc = "reports" /\ pc' = "exit" /\ code' = Runtime
       /\ report' = Generate
       /\ UNCHANGED <<target, status, replayed>>

(* checkThresholds.                                                        *)
Killings    == Cardinality(With(Killed))
Judged      == Killings + Cardinality(With(Lived))
Measured    == Judged + Cardinality(With(NotCovered))
Below(n, of, percent) == of # 0 /\ 100 * n < percent * of

Answered == opts.single => status[CHOOSE m \in Kept : TRUE] \in {Killed, Lived}

Gates ==
    /\ pc = "gates" /\ pc' = "exit"
    /\ code' = IF ~Answered THEN Runtime
               ELSE IF Below(Killings, Judged, opts.efficacy) THEN BelowEfficacy
               ELSE IF Below(Judged, Measured, opts.mcover) THEN BelowMcover
               ELSE Success
    /\ UNCHANGED <<target, status, replayed, report>>

-----------------------------------------------------------------------------
Interrupt ==
    /\ ~ctxDone /\ pc # "exit"
    /\ ctxDone' = TRUE /\ cutAt' = pc
    /\ UNCHANGED <<pc, opts, target, status, replayed, report, code>>

Step ==
    \/ Flags \/ Setup \/ Resolve \/ Target \/ Scope \/ Coverage \/ Baseline
    \/ Discover \/ PreRead \/ BuildMap \/ ReadLinks \/ ApplyCache
    \/ Test \/ Prove \/ EndProofs \/ WriteReports \/ Gates

Next == (Step /\ UNCHANGED <<opts, ctxDone, cutAt>>) \/ Interrupt

Spec == Init /\ [][Next]_vars

-----------------------------------------------------------------------------
(* Properties.                                                             *)

Exited == pc = "exit"

(* The re-check of one mutant under --threshold-efficacy 100: 0 means that *)
(* the mutant the id named when the run began was killed by tests of this  *)
(* run, 10 that it still lived (README.md:36, pipeline.go:788).            *)
ExitAnswersForTarget ==
    Exited /\ opts.single /\ opts.efficacy = 100 =>
        /\ code = Success => With(Killed) = target /\ target # {} /\ replayed = {}
        /\ code = BelowEfficacy => With(Lived) = target /\ target # {} /\ replayed = {}

(* The gates of a run that was not interrupted judge every mutant the run  *)
(* kept: none is left in no bucket of the report (pool.go:163).            *)
GatesJudgeEveryMutant ==
    Exited /\ code \in {Success, BelowEfficacy, BelowMcover} /\ ~opts.dry /\ ~ctxDone =>
        report.counted = report.total /\ report.total = Cardinality(Kept)

(* The phases behind which the context is still looked at, or something is *)
(* run under it whose failure fails the run.  A dry run may have nothing   *)
(* left to run once it discovers mutants.                                  *)
Guarded ==
    {"flags", "setup", "resolve", "target", "scope", "coverage", "baseline"}
    \cup (IF opts.dry THEN {} ELSE {"discover", "preread", "map"})

(* pipeline.go:578: "An interrupt stops the run here, as in every other    *)
(* phase".  It does up to here: an interrupt that comes before the build   *)
(* of the map looks at the context for the last time fails the run, and    *)
(* nothing is tested, replayed or reported after it.  In a dry run, which  *)
(* builds no map, so does one that comes before discovery.  Interrupts     *)
(* that come later, some still before the tests, are those of              *)
(* InterruptIsNotSuccess.                                                  *)
EarlyInterruptFails ==
    cutAt \in Guarded =>
        /\ pc \notin {"links", "cache", "run", "tce", "reports", "gates"}
        /\ Exited => code \in {Runtime, Usage}

(* The same sentence, of the phases from there to the end of the tests:    *)
(* while a map for --coverpkg reads arguments and links, while the cache   *)
(* is applied, and while mutants are tested, an interrupt that leaves      *)
(* mutants untested does not end in success.                               *)
InterruptIsNotSuccess ==
    Exited /\ cutAt \in {"links", "cache", "run"} /\ With(Pending) # {} => code # Success

(* pool.go:163: the exit code is that of a complete report.                *)
ExitInv == TypeOK /\ GatesJudgeEveryMutant
=============================================================================
