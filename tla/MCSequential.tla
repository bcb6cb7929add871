---------------------------- MODULE MCSequential ----------------------------
(***************************************************************************)
(* What runs on one goroutine, for TLC: the classifier (Classify), the     *)
(* scan of --test-flags (TestFlags), the settings (Settings), stable ids   *)
(* and --run-mutant-id (Target), the filters (Filters) and the search for  *)
(* the packages of an integration run (Closure).  They share nothing that  *)
(* these modules tell of, so one of them runs in a behaviour, and the      *)
(* variables of the others are idle.                                       *)
(***************************************************************************)
EXTENDS Closure, SequencesExt

CONSTANTS MaxFields, Focus, Numbers, Baseline, Path, Names, Contents, Digits, Sources

VARIABLES part,
          stage, verdict,                       \* each used by several parts
          kind, end, circumstance,              \* Classify
          fields, i, afterArgs,                 \* TestFlags
          file, flags, cfg, policy,             \* Settings
          id, src, early, target, asked,        \* Target
          source, kept, suppressed, notCovered  \* Filters

Outcome == INSTANCE Classify
Scan    == INSTANCE TestFlags
Config  == INSTANCE Settings
Asked   == INSTANCE Target
Found   == INSTANCE Filters

ASSUME SequentialAssumption ==
    /\ Scan!MaxFieldsAssumption /\ Config!SettingsAssumption
    /\ Asked!TargetAssumption /\ Found!SourcesAssumption

outcome == <<kind, end, circumstance>>
scan    == <<fields, i, afterArgs>>
config  == <<file, flags, cfg, policy>>
ids     == <<id, src, early, target, asked>>
found   == <<source, kept, suppressed, notCovered>>
closure == <<pc, graph, seeded, visited, queue, cur, rest, patterns>>
all     == <<part, stage, verdict, outcome, scan, config, ids, found, closure>>

(* The variables of a part that does not run.  Properties of Target's and  *)
(* Closure's steps and states are read in every behaviour.                 *)
OutcomeIdle == kind = "idle" /\ end = "idle" /\ circumstance = "idle"
ScanIdle == fields = <<>> /\ i = 1 /\ afterArgs = FALSE
ConfigIdle == file = "idle" /\ flags = "idle" /\ cfg = "idle" /\ policy = "idle"
IdsIdle ==
    /\ id = <<>> /\ src = [f \in DOMAIN Path |-> <<>>] /\ asked = src
    /\ early = "idle" /\ target = "idle"
FoundIdle ==
    source = "idle" /\ kept = {} /\ suppressed = {} /\ notCovered = {}
ClosureIdle ==
    /\ pc = "idle" /\ graph = "idle" /\ seeded = 0 /\ visited = {}
    /\ queue = <<>> /\ cur = "none" /\ rest = {} /\ patterns = {}

PartInit ==
    \/ /\ part = "outcome" /\ Outcome!Init /\ stage = "idle"
       /\ ScanIdle /\ ConfigIdle /\ IdsIdle /\ FoundIdle /\ ClosureIdle
    \/ /\ part = "scan" /\ Scan!Init /\ stage = "idle"
       /\ OutcomeIdle /\ ConfigIdle /\ IdsIdle /\ FoundIdle /\ ClosureIdle
    \/ /\ part = "config" /\ Config!Init /\ verdict = "idle"
       /\ OutcomeIdle /\ ScanIdle /\ IdsIdle /\ FoundIdle /\ ClosureIdle
    \/ /\ part = "ids" /\ Asked!Init /\ verdict = "idle"
       /\ OutcomeIdle /\ ScanIdle /\ ConfigIdle /\ FoundIdle /\ ClosureIdle
    \/ /\ part = "found" /\ Found!Init /\ verdict = "idle"
       /\ OutcomeIdle /\ ScanIdle /\ ConfigIdle /\ IdsIdle /\ ClosureIdle
    \/ /\ part = "closure" /\ Init /\ stage = "idle" /\ verdict = "idle"
       /\ OutcomeIdle /\ ScanIdle /\ ConfigIdle /\ IdsIdle /\ FoundIdle

OutcomeStep(A) ==
    /\ part = "outcome" /\ A
    /\ UNCHANGED <<part, stage, scan, config, ids, found, closure>>
ScanStep(A) ==
    /\ part = "scan" /\ A
    /\ UNCHANGED <<part, stage, outcome, config, ids, found, closure>>
ConfigStep(A) ==
    /\ part = "config" /\ A
    /\ UNCHANGED <<part, verdict, outcome, scan, ids, found, closure>>
IdsStep(A) ==
    /\ part = "ids" /\ A
    /\ UNCHANGED <<part, verdict, outcome, scan, config, found, closure>>
FoundStep(A) ==
    /\ part = "found" /\ A
    /\ UNCHANGED <<part, verdict, outcome, scan, config, ids, closure>>
ClosureStep(A) ==
    /\ part = "closure" /\ A
    /\ UNCHANGED <<part, stage, verdict, outcome, scan, config, ids, found>>

PartNext ==
    \/ OutcomeStep(Outcome!Next) \/ ScanStep(Scan!Next) \/ ConfigStep(Config!Next)
    \/ IdsStep(Asked!Next) \/ FoundStep(Found!Next) \/ ClosureStep(Next)

PartSpec == PartInit /\ [][PartNext]_all

-----------------------------------------------------------------------------
(* The properties of the parts, each where its part runs.                  *)

(* worker.go:197: see VerdictFitsCause in Classify.                        *)
VerdictFitsCause == part = "outcome" => Outcome!VerdictFitsCause

(* main.go:430, testmap.go:725: see ScanInv in TestFlags.                  *)
ScanInv == part = "scan" => Scan!ScanInv

(* config.go, flags.go: see SettingsInv in Settings.                       *)
SettingsInv == part = "config" => Config!SettingsInv

(* stableid.go:128: see TargetInv in Target.                               *)
TargetInv == part = "ids" => Asked!TargetInv

(* pipeline.go:265: see MeasuresTheOneAsked in Target.                     *)
MeasuresTheOneAsked == part = "ids" => Asked!MeasuresTheOneAsked

(* README.md:881: see EditsElsewhereKeepIds in Target.                     *)
EditsElsewhereKeepIds == Asked!EditsElsewhereKeepIds

(* pipeline.go:503: see FiltersInv in Filters.                             *)
FiltersInv == part = "found" => Found!FiltersInv

(* filter.go:14: see NotCoveredNeverRan in Filters.                        *)
NotCoveredNeverRan == part = "found" => Found!NotCoveredNeverRan

-----------------------------------------------------------------------------
(* TestFlags: every list of up to MaxFields fields.                        *)
(* Settings: settings that meet in a check or in the policy are varied     *)
(* together, each of the others is like one of these.                      *)

MCFocus == {{"coefficient", "min", "adaptive"}, {"testFlags", "adaptive"},
            {"dryRun", "id"}, {"integration", "coverpkg"},
            {"quiet", "verbose"}, {"checkpoint", "cache"},
            {"workers", "testCPU"}, {"margin"}, {"detect", "callsDefaults"}}
MCNumbers == {-1, 0, 2, 3}

-----------------------------------------------------------------------------
(* Target.  Two files, the path of one beginning as the other's; up to two *)
(* declarations each, a function f, an init that may come twice, or a var; *)
(* up to two points in each, the second of which a directive drops.        *)

MCPath == << <<"a">>, <<"a", "b">> >>
MCNames == {"f", "init", "blank"}
MCDigits == << <<"1">>, <<"1", "0">>, <<"1", "1">>, <<"1", "0", "0">> >>  \* base 2

P(code, keep) == [type |-> "T", code |-> code, keep |-> keep]
MCBodies == {<<P(1, TRUE)>>, <<P(2, TRUE), P(1, FALSE)>>}
Decls == {[name |-> n, body |-> b] : n \in MCNames, b \in MCBodies}

\* No two functions f.
Whole ==
    {s \in SeqOf(Decls, 2) :
        Cardinality({d \in DOMAIN s : s[d].name = "f"}) < 2}
MCContents == <<Whole, {<<>>, <<[name |-> "f", body |-> <<P(1, TRUE)>>]>>}>>

-----------------------------------------------------------------------------
(* Filters: short files with one directive or two and nothing else, and a  *)
(* file of two functions with calls, changes and coverage.                 *)

D(form, names, bad) == [form |-> form, names |-> names, bad |-> bad]
NoDirective == D("none", {}, FALSE)
L(sort, hit, d) == [kind |-> sort, hit |-> hit, directive |-> d]

Bare == {L(k, FALSE, NoDirective) : k \in {"blank", "comment", "block", "code", "func", "close"}}
          \cup {L("code", TRUE, NoDirective)}
Forms == {"disable", "next-line", "func", "regexp"}
Lists == {{}, {"A"}, {"typo"}, {"A", "typo"}}
Ds == {D(f, names, FALSE) : f \in Forms, names \in Lists}
        \cup {D("disable", {}, TRUE)}
Few == {D("disable", {"A"}, FALSE), D("next-line", {"B"}, FALSE),
        D("func", {}, FALSE), D("regexp", {"A"}, FALSE)}

\* Brackets match.
WellFormed(ls) ==
    LET depth(n) == Cardinality({l \in 1..n : ls[l].kind = "func"})
                      - Cardinality({l \in 1..n : ls[l].kind = "close"})
    IN /\ \A n \in 0..Len(ls) : depth(n) \in 0..1
       /\ depth(Len(ls)) = 0

Bearing(ls, l, ds) ==
    IF ls[l].kind \in {"comment", "code", "func"}
    THEN {[ls EXCEPT ![l].directive = d] : d \in ds} ELSE {}

Plain(n) == {ls \in [1..n -> Bare] : WellFormed(ls)}
One(n, ds) == UNION {UNION {Bearing(ls, l, ds) : l \in 1..n} : ls \in Plain(n)}
Two(n) == UNION {UNION {Bearing(ls, l, Few) : l \in 2..n} :
                    ls \in UNION {Bearing(ls, 1, Few) : ls \in Plain(n)}}

Only(ls) == [lines |-> ls, since |-> FALSE, changed |-> {}, calls |-> {},
             profile |-> {}, otherExists |-> TRUE]

Marked(d) ==
    << L("func", FALSE, NoDirective), L("code", FALSE, d), L("close", FALSE, NoDirective),
       L("func", FALSE, NoDirective), L("code", TRUE, NoDirective), L("close", FALSE, NoDirective) >>
Call(from, to, excluded) == [start |-> from, end |-> to, excluded |-> excluded]
Block(from, to, count) == [start |-> from, end |-> to, count |-> count]

\* A call over both lines of a function, one inside it, one elsewhere.
Calls ==
    {{Call(<<1, 1>>, <<2, 9>>, a), Call(<<2, 2>>, <<2, 5>>, b), Call(<<5, 1>>, <<5, 4>>, TRUE)} :
        a \in BOOLEAN, b \in BOOLEAN}

\* Line 1's block ends where line 2's begins, as at an if's brace; copies
\* of them from another binary.
Profiles ==
    {{Block(<<1, 1>>, <<2, 2>>, n[1]), Block(<<2, 2>>, <<3, 1>>, n[2]),
      Block(<<1, 1>>, <<2, 2>>, n[3]), Block(<<4, 1>>, <<4, 9>>, n[4])} :
        n \in [1..4 -> 0..1]}

Busy ==
    {[lines |-> Marked(d), since |-> s, changed |-> {2, 4}, calls |-> c,
      profile |-> p, otherExists |-> TRUE] :
        d \in Few \cup {NoDirective}, s \in BOOLEAN, c \in Calls, p \in Profiles}

Generated(exists) ==
    [Only(<<L("code", FALSE, NoDirective), L("line", FALSE, NoDirective),
            L("code", FALSE, D("disable", {}, FALSE))>>)
        EXCEPT !.otherExists = exists]

MCSources ==
    {Only(ls) : ls \in One(3, Ds) \cup One(4, Few) \cup Two(3)} \cup Busy
      \cup {Generated(e) : e \in BOOLEAN}

-----------------------------------------------------------------------------
(* Closure.  Packages of the module are named in an order they can be      *)
(* built in, and x is outside it.  Tests make cycles.  The target is named *)
(* twice.                                                                  *)

CONSTANTS a, b, c, x

MCModule == {a, b, c}
MCPackages == {a, b, c, x}
MCTargets == <<b, b>>

Acyclic(imports) ==
    \A S \in (SUBSET MCPackages) \ {{}} : \E p \in S : imports[p] \cap S = {}
Imports ==
    {[p \in MCPackages |-> CASE p = a -> ia [] p = b -> ib [] p = c -> ic [] p = x -> ix] :
        ia \in SUBSET {x}, ib \in SUBSET {a, x}, ic \in SUBSET {a, b, x},
        ix \in SUBSET MCModule}
Tests ==
    {[p \in MCPackages |-> CASE p = a -> ta [] p = b -> tb [] p = c -> tc [] p = x -> {}] :
        ta \in {{}, {b}, {c}}, tb \in {{}, {c}}, tc \in {{}, {a}, {a, x}}}

MCGraphs == {[imports |-> f, tests |-> t] : f \in {g \in Imports : Acyclic(g)}, t \in Tests}
=============================================================================
