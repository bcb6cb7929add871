------------------------------ MODULE Filters ------------------------------
(***************************************************************************)
(* What becomes of the mutants discovery found in a file before any is     *)
(* tested (internal/discover): --changed-since, the `gomutants:disable`    *)
(* directives and --exclude-calls drop some, in this order, and coverage   *)
(* settles the status of others.                                           *)
(*                                                                         *)
(* A file is a sequence of lines.  A line of code may end in a directive,  *)
(* a `//` comment may be one; brackets are those of functions.  Every line *)
(* of code has a mutant of either type, the one inside the other.  A place *)
(* is <<line, column>>.  Behind a `//line` comment, Go gives places as in  *)
(* the file that names, here Other, counted from 1.                        *)
(***************************************************************************)
EXTENDS Naturals, Sequences, FiniteSetsExt

CONSTANT Sources  \* files, with what git, the excluder and coverage say of them

VARIABLES stage,       \* the filter that is next, "done" or "failed"
          source,
          kept,
          suppressed,  \* [mutant, by], by a "directive" or a "call"
          notCovered   \* the mutants kept that have this status

vars == <<stage, source, kept, suppressed, notCovered>>

Types == {"A", "B"}
Lines == DOMAIN source.lines
Kind(l) == source.lines[l].kind
None == [form |-> "none", names |-> {}, bad |-> FALSE]
Directive(l) == source.lines[l].directive

AtOrBefore(p, q) == p[1] < q[1] \/ (p[1] = q[1] /\ p[2] <= q[2])

Mutants == [line : {l \in Lines : Kind(l) \in {"code", "func"}}, type : Types]
Start(m) == <<m.line, 2>>
End(m) == <<m.line, IF m.type = "A" THEN 3 ELSE 5>>

Within(c, d) == AtOrBefore(d.start, c.start) /\ AtOrBefore(c.end, d.end)
Places == Nat \X Nat

(* Go parses the file: a function ends, and calls nest or lie apart.       *)
SourcesAssumption ==
    \A s \in Sources :
        /\ Len(s.lines) \in Nat /\ DOMAIN s.lines = 1..Len(s.lines)
        /\ \A l \in DOMAIN s.lines :
              /\ s.lines[l].kind \in {"blank", "comment", "block", "code", "func", "close", "line"}
              /\ s.lines[l].kind = "func" =>
                    \E k \in DOMAIN s.lines : k > l /\ s.lines[k].kind = "close"
        /\ IsFiniteSet(s.calls)
        /\ s.calls \subseteq [start : Places, end : Places, excluded : BOOLEAN]
        /\ \A c \in s.calls : AtOrBefore(c.start, c.end)
        /\ \A c, d \in s.calls :
              \/ Within(c, d) \/ Within(d, c)
              \/ AtOrBefore(c.end, d.start) \/ AtOrBefore(d.end, c.start)
        /\ s.profile \subseteq [start : Places, end : Places, count : Nat]

---------------------------------------------------------------------------
(* fset.Position, as discovery and the directives use it.                  *)

LineComments(l) == {k \in Lines : k < l /\ Kind(k) = "line"}
InOther(l) == LineComments(l) # {}
PosLine(l) == IF InOther(l) THEN l - Max(LineComments(l)) ELSE l

TypeOK ==
    /\ stage \in {"diff", "directives", "calls", "coverage", "done", "failed"}
    /\ kept \subseteq Mutants /\ notCovered \subseteq kept
    /\ suppressed \subseteq [mutant : Mutants \ kept, by : {"directive", "call"}]

Init ==
    /\ stage = "diff" /\ source \in Sources
    /\ kept = Mutants /\ suppressed = {} /\ notCovered = {}

\* Faulty: calls are excluded before the directives are read.
FaultyThen ==
    [diff |-> "calls", calls |-> "directives",
     directives |-> "coverage", coverage |-> "done"]

(* filterBySource, then discoverMutants.                                   *)
Then ==
    [diff |-> "directives", directives |-> "calls",
     calls |-> "coverage", coverage |-> "done"]

(* FilterByDiff: the path of Other is in no diff of this file.             *)
Changed(m) == ~InOther(m.line) /\ m.line \in source.changed

FilterByDiff ==
    /\ stage = "diff" /\ stage' = Then[stage]
    /\ kept' = IF source.since THEN {m \in kept : Changed(m)} ELSE kept
    /\ UNCHANGED <<source, suppressed, notCovered>>

---------------------------------------------------------------------------
(* Directives.                                                             *)

\* Faulty: a list of typing errors is an empty list.
FaultyDropped(d) == d.bad

(* parseDirective: malformed, or naming mutators none of which is known.   *)
Dropped(d) == d.bad \/ (d.names # {} /\ d.names \cap Types = {})

(* An empty list names them all.                                           *)
MatchesType(d, t) == d.names \cap Types = {} \/ t \in d.names

Least(ls) == IF ls = {} THEN {} ELSE {Min(ls)}

(* nextNonCommentLine, by what a line begins with.                         *)
NextNonCommentLine(n) ==
    Least({l \in Lines : l > n /\ Kind(l) \notin {"blank", "comment", "line"}})

(* The functions whose doc comment line l is part of, and their bodies.    *)
Documents(l) ==
    {f \in Lines : /\ Kind(f) = "func" /\ f > l
                   /\ \A k \in l..(f - 1) : Kind(k) \in {"comment", "block"}}
Close(f) == Min({l \in Lines : l > f /\ Kind(l) = "close"})

(* buildFileIndex: the lines the directive of line l applies to.           *)
Index(l) ==
    LET d == Directive(l) IN
    CASE d.form = "disable" -> {PosLine(l)}
      [] d.form = "next-line" -> NextNonCommentLine(PosLine(l))
      [] d.form = "func" -> UNION {PosLine(f)..PosLine(Close(f)) : f \in Documents(l)}
      [] d.form = "regexp" -> {n \in Lines : source.lines[n].hit}
      [] OTHER -> {}

(* indexFor, matchMutant: Other is not parsed, and has no directive.       *)
MatchMutant(m) ==
    /\ ~InOther(m.line)
    /\ \E l \in Lines :
          /\ ~Dropped(Directive(l)) /\ MatchesType(Directive(l), m.type)
          /\ m.line \in Index(l)

Suppress(which, by) ==
    /\ kept' = kept \ which
    /\ suppressed' = suppressed \cup {[mutant |-> m, by |-> by] : m \in which}

FilterByDirectives ==
    /\ stage = "directives"
    /\ IF (\E m \in kept : InOther(m.line)) /\ ~source.otherExists
       THEN stage' = "failed" /\ UNCHANGED <<kept, suppressed>>
       ELSE stage' = Then[stage] /\ Suppress({m \in kept : MatchMutant(m)}, "directive")
    /\ UNCHANGED <<source, notCovered>>

---------------------------------------------------------------------------
(* Excluded calls.                                                         *)

\* Faulty: no call is looked for inside another.
FaultySpans ==
    {c \in source.calls : c.excluded /\ ~\E d \in source.calls \ {c} : Within(c, d)}

(* buildCallIndex: what is inside a matching call is not looked at.        *)
Spans ==
    {c \in source.calls :
        /\ c.excluded
        /\ ~\E d \in source.calls \ {c} : d.excluded /\ Within(c, d)}

(* callIndex.match.                                                        *)
InCall(m) ==
    /\ ~InOther(m.line)
    /\ \E c \in Spans : AtOrBefore(c.start, Start(m)) /\ AtOrBefore(End(m), c.end)

\* Faulty: what a call drops is not reported.
FaultyFilterByCalls ==
    /\ stage = "calls" /\ stage' = Then[stage]
    /\ kept' = {m \in kept : ~InCall(m)}
    /\ UNCHANGED <<source, suppressed, notCovered>>

FilterByCalls ==
    /\ stage = "calls" /\ stage' = Then[stage]
    /\ Suppress({m \in kept : InCall(m)}, "call")
    /\ UNCHANGED <<source, notCovered>>

---------------------------------------------------------------------------
(* Coverage.                                                               *)

InBlock(b, p) ==
    ~(\/ p[1] < b.start[1] \/ p[1] > b.end[1]
      \/ p[1] = b.start[1] /\ p[2] < b.start[2]
      \/ p[1] = b.end[1] /\ p[2] > b.end[2])

\* Faulty: the first block that holds a place decides.
FaultyIsCovered(p) ==
    LET holding == {b \in source.profile : InBlock(b, p)} IN
    holding # {} /\ \A b \in holding : b.count > 0

IsCovered(p) == \E b \in source.profile : b.count > 0 /\ InBlock(b, p)
HasCoveredBlock == \E b \in source.profile : b.count > 0
IsInAnyBlock(p) == \E b \in source.profile : InBlock(b, p)

(* Of a file that tests run, a place outside every block counts as covered. *)
Covered(m) ==
    /\ ~InOther(m.line)
    /\ IsCovered(Start(m)) \/ (HasCoveredBlock /\ ~IsInAnyBlock(Start(m)))

\* Faulty: the status is given to what was dropped too.
FaultyFilterByCoverage ==
    /\ stage = "coverage" /\ stage' = Then[stage]
    /\ notCovered' = {m \in Mutants : ~Covered(m)}
    /\ UNCHANGED <<source, kept, suppressed>>

FilterByCoverage ==
    /\ stage = "coverage" /\ stage' = Then[stage]
    /\ notCovered' = {m \in kept : ~Covered(m)}
    /\ UNCHANGED <<source, kept, suppressed>>

Done == stage \in {"done", "failed"} /\ UNCHANGED vars

Next ==
    \/ FilterByDiff \/ FilterByDirectives \/ FilterByCalls \/ FilterByCoverage
    \/ Done

Spec == Init /\ [][Next]_vars

---------------------------------------------------------------------------
Finished == stage = "done"
By(by) == {s.mutant : s \in {t \in suppressed : t.by = by}}
Considered == IF source.since THEN {m \in Mutants : Changed(m)} ELSE Mutants
NoLineComment == \A l \in Lines : Kind(l) # "line"

(* README.md:448: the lines a directive is said to apply to.  `disable`    *)
(* its own, `disable-next-line` the first that is neither blank nor a      *)
(* comment, `disable-func` the function it documents, `disable-regexp`     *)
(* the lines whose text matches.                                           *)
AppliesTo(l) ==
    LET d == Directive(l) IN
    CASE d.form = "disable" -> {l}
      [] d.form = "next-line" ->
           {n \in Lines : /\ n > l /\ Kind(n) \in {"code", "func", "close"}
                          /\ \A k \in (l + 1)..(n - 1) :
                                Kind(k) \notin {"code", "func", "close"}}
      [] d.form = "func" ->
           {n \in Lines : \E f \in Documents(l) : f <= n /\ n <= Close(f)}
      [] d.form = "regexp" -> {n \in Lines : source.lines[n].hit}
      [] OTHER -> {}

(* A directive drops what it names where it applies; a list of names none  *)
(* of which is known drops nothing (README.md:473).                        *)
Disabled(m) ==
    \E l \in Lines :
        /\ ~Directive(l).bad /\ m.line \in AppliesTo(l)
        /\ Directive(l).names = {} \/ m.type \in Directive(l).names

(* README.md:440: the mutants dropped are those some directive names, for  *)
(* files without block comments or `//line`.                               *)
DirectivesHitTheirTargets ==
    (Finished /\ NoLineComment /\ \A l \in Lines : Kind(l) # "block") =>
        By("directive") = {m \in Considered : Disabled(m)}

(* README.md:895: what the filters drop is in the count of suppressed      *)
(* mutants, once, or is in the report; only --changed-since drops without  *)
(* a trace.                                                                *)
KeptOrSuppressed ==
    Finished =>
        /\ kept \cup By("directive") \cup By("call") = Considered
        /\ By("directive") \cap By("call") = {}

(* pipeline.go:503: where both could drop a mutant, the reason reported is *)
(* the one a human wrote at the site.                                      *)
HumanReasonWins ==
    Finished /\ NoLineComment => \A m \in By("call") : ~MatchMutant(m)

(* excludecalls.go:177: the spans of calls are disjoint, and leaving out   *)
(* the calls inside them leaves out no mutant: one is dropped if it lies   *)
(* in any excluded call, however deep.                                     *)
NestedCallsAreExcluded ==
    Finished /\ NoLineComment =>
        /\ \A c, d \in Spans : c # d =>
              AtOrBefore(c.end, d.start) \/ AtOrBefore(d.end, c.start)
        /\ \A m \in kept : ~\E c \in source.calls :
              c.excluded /\ AtOrBefore(c.start, Start(m)) /\ AtOrBefore(End(m), c.end)

(* The coverage tool's blocks are half open: the first place behind one is *)
(* the first of the next.                                                  *)
Inside(b, p) == AtOrBefore(b.start, p) /\ ~AtOrBefore(b.end, p)
Ran(p) == \E b \in source.profile : b.count > 0 /\ Inside(b, p)

(* filter.go:14: no mutant at a place that ran is put aside, though other  *)
(* test binaries' copies of its block did not run; of a file no test runs, *)
(* all are, whether a block holds them or not.                             *)
NotCoveredNeverRan ==
    Finished /\ NoLineComment =>
        /\ \A m \in notCovered : ~Ran(Start(m))
        /\ \A m \in kept : ~HasCoveredBlock => m \in notCovered

(* pipeline.go:503: the filters drop what they were told to and nothing    *)
(* else, and say so.                                                       *)
FiltersInv ==
    /\ TypeOK
    /\ DirectivesHitTheirTargets
    /\ KeptOrSuppressed
    /\ HumanReasonWins
    /\ NestedCallsAreExcluded
=============================================================================
