------------------------------- MODULE Target -------------------------------
(***************************************************************************)
(* Stable ids and --run-mutant-id: how discovery names the mutants of the  *)
(* source (internal/discover), and how a run finds the one it was asked    *)
(* for, twice: before coverage and the baseline, and again when the        *)
(* mutants are discovered, with an edit possible in between.               *)
(*                                                                         *)
(* A file is the sequence of its declarations, in source order: the name   *)
(* one renders to, Blank for anything but a function, and the mutation     *)
(* points in it.  A point is its mutation type, its code, and whether the  *)
(* filters that drop mutants keep it.  An id is a sequence of symbols, so  *)
(* that one can be a prefix of another, and so can the digits of ordinals. *)
(***************************************************************************)
EXTENDS Naturals, Sequences, SequencesExt, FiniteSets

CONSTANTS Path,      \* the path of each file, as symbols
          Names,     \* what a function declaration renders to
          Contents,  \* what each file may hold
          Digits     \* the symbols of each ordinal, as many as are needed

Files == DOMAIN Path
Blank == "blank"

VARIABLES
    stage,   \* "start", "checked", "found", "usage" (exit 2), "failed" (exit 1)
    id,      \* cfg.RunMutantID
    src,     \* what each file holds
    early,   \* mr.earlyTarget
    target,  \* mr.runTarget
    \* history
    asked    \* src when the id was checked

vars == <<stage, id, src, early, target, asked>>

NoMutant == [file |-> 0, at |-> 0, code |-> 0, keep |-> FALSE, id |-> <<>>]

Points(decls) ==
    UNION {{<<d, n>> : n \in DOMAIN decls[d].body} : d \in DOMAIN decls}

(* No path, name or type has a colon in it, and each ordinal has digits of *)
(* its own.                                                                *)
Symbols == STRING \ {":"}
Decls == [name : Names, body : Seq([type : Symbols, code : Nat, keep : BOOLEAN])]
TargetAssumption ==
    /\ \A f \in Files : Path[f] \in Seq(Symbols)
    /\ \A f, g \in Files : Path[f] = Path[g] => f = g
    /\ Names \subseteq Symbols
    /\ Digits \in Seq(Seq(Symbols))
    /\ \A m, n \in DOMAIN Digits : Digits[m] = Digits[n] => m = n
    /\ \A f \in Files : \A decls \in Contents[f] :
          /\ decls \in Seq(Decls) /\ Len(decls) <= Len(Digits)
          /\ Cardinality(Points(decls)) <= Len(Digits)

---------------------------------------------------------------------------
(* funcSpans: the occurrence of a declaration among those of its name.     *)
\* Faulty: declarations of one name share an anchor.
FaultyOccurrence(decls, d) == 1

Occurrence(decls, d) ==
    Cardinality({e \in 1..d : decls[e].name = decls[d].name})

(* anchorName, anchorFor: what is in no function has no anchor.            *)
Anchor(decls, d) ==
    IF decls[d].name = Blank THEN <<>>
    ELSE IF Occurrence(decls, d) = 1 THEN <<decls[d].name>>
    ELSE <<decls[d].name, "~">> \o Digits[Occurrence(decls, d)]

Point(decls, p) == decls[p[1]].body[p[2]]
Before(p, q) == p[1] < q[1] \/ (p[1] = q[1] /\ p[2] <= q[2])

\* Faulty: points are counted by declaration.
FaultyOrdinal(decls, p) ==
    Cardinality({q \in Points(decls) :
        /\ Before(q, p) /\ q[1] = p[1]
        /\ Point(decls, q).type = Point(decls, p).type})

(* DiscoverTo: the points of one anchor and type, counted in order.        *)
Ordinal(decls, p) ==
    Cardinality({q \in Points(decls) :
        /\ Before(q, p)
        /\ Anchor(decls, q[1]) = Anchor(decls, p[1])
        /\ Point(decls, q).type = Point(decls, p).type})

Segment(f) == Path[f] \o <<":">>

StableID(f, decls, p) ==
    Segment(f) \o Anchor(decls, p[1])
      \o <<":", Point(decls, p).type, "#">> \o Digits[Ordinal(decls, p)]

(* The line of a point: a declaration and each point has one of its own.   *)
Line(decls, p) ==
    Cardinality({q \in Points(decls) : Before(q, p)}) + p[1]

Discover(fs, source) ==
    UNION {{[file |-> f, at |-> Line(source[f], p), code |-> Point(source[f], p).code,
             keep |-> Point(source[f], p).keep, id |-> StableID(f, source[f], p)] :
                p \in Points(source[f])} : f \in fs}

---------------------------------------------------------------------------
\* Faulty: an id that stops inside a path names no file.
FaultyScope(i) == {f \in Files : IsPrefix(Segment(f), i)}

(* ScopeToStableID.                                                        *)
Scope(i) == {f \in Files : IsPrefix(Segment(f), i) \/ IsPrefix(i, Segment(f))}

\* Faulty: every id is a prefix.
FaultyMatches(mutants, i) == {m \in mutants : IsPrefix(i, m.id)}

Matches(mutants, i) ==
    LET exact == {m \in mutants : m.id = i} IN
    IF exact # {} THEN exact ELSE {m \in mutants : IsPrefix(i, m.id)}

(* FilterByStableID: the one match, or an error.                           *)
FilterByStableID(mutants, i) ==
    LET found == Matches(mutants, i) IN
    IF Cardinality(found) = 1 THEN CHOOSE m \in found : TRUE ELSE NoMutant

TypeOK ==
    /\ stage \in {"start", "checked", "found", "usage", "failed"}
    /\ \A f \in Files : src[f] \in Contents[f]
    /\ early # NoMutant <=> stage \in {"checked", "found", "failed"}
    /\ target # NoMutant <=> stage = "found"

Asks(source) ==
    UNION {{SubSeq(m.id, 1, n) : n \in 1..Len(m.id)} : m \in Discover(Files, source)}

(* The id is from a report, cut short or not, or of another revision.      *)
Init ==
    /\ stage = "start" /\ early = NoMutant /\ target = NoMutant
    /\ src \in {s \in [Files -> UNION {Contents[f] : f \in Files}] :
                  \A f \in Files : s[f] \in Contents[f]}
    /\ id \in Asks(src) \cup {<<"unknown">>}
    /\ asked = src

Resolved == FilterByStableID(Discover(Scope(id), src), id)

\* Faulty: the filters are left to the discovery.
FaultyAccepted(m) == m # NoMutant

(* resolveEarlyTarget: the id names one mutant, and no filter drops it.    *)
Accepted(m) == m # NoMutant /\ m.keep

\* Faulty: the target is not kept for the second check.
FaultyCheckRunMutantID ==
    /\ stage = "start"
    /\ IF Scope(id) # {} /\ Accepted(Resolved) THEN stage' = "checked" ELSE stage' = "usage"
    /\ UNCHANGED <<id, src, early, target, asked>>

CheckRunMutantID ==
    /\ stage = "start"
    /\ IF Scope(id) # {} /\ Accepted(Resolved)
       THEN stage' = "checked" /\ early' = Resolved
       ELSE stage' = "usage" /\ UNCHANGED early
    /\ UNCHANGED <<id, src, target, asked>>

(* One file is saved while coverage is collected.                          *)
Edit ==
    /\ stage = "checked" /\ src = asked
    /\ \E f \in Files : \E c \in Contents[f] : src' = [src EXCEPT ![f] = c]
    /\ UNCHANGED <<stage, id, early, target, asked>>

\* Faulty: the id alone tells.
FaultySameRunTarget(m) == m.id = early.id

(* checkSameRunTarget.                                                     *)
SameRunTarget(m) == m.id = early.id /\ m.at = early.at /\ m.code = early.code

DiscoverMutants ==
    /\ stage = "checked"
    /\ IF Resolved # NoMutant /\ SameRunTarget(Resolved) /\ Resolved.keep
       THEN stage' = "found" /\ target' = Resolved
       ELSE stage' = "failed" /\ UNCHANGED target
    /\ UNCHANGED <<id, src, early, asked>>

Done == stage \in {"found", "usage", "failed"} /\ UNCHANGED vars

Next == CheckRunMutantID \/ Edit \/ DiscoverMutants \/ Done

Spec == Init /\ [][Next]_vars

---------------------------------------------------------------------------
All(source) == Discover(Files, source)

(* README.md:881, stableid.go:128: ids are unique within a report, though  *)
(* functions may share a name and what is in none shares the empty one.    *)
IdsAreUnique ==
    \A m, n \in All(src) : m.id = n.id => m.at = n.at /\ m.file = n.file

(* stableid.go:177: parsing only the files the id could name gives the     *)
(* answer the whole module gives, be it a mutant or an error.              *)
ScopeKeepsTheAnswer == Resolved = FilterByStableID(All(src), id)

(* stableid.go:201: an id copied whole from a report always names its own  *)
(* mutant, whatever longer ids it is a prefix of.                          *)
WholeIdsResolve ==
    \A m \in All(src) : FilterByStableID(All(src), m.id) = m

(* stableid.go:128: an id names a mutant as a report's reader expects it.  *)
TargetInv == TypeOK /\ IdsAreUnique /\ ScopeKeepsTheAnswer /\ WholeIdsResolve

(* pipeline.go:265: the mutant a run measures is the one the id named in   *)
(* the source it was checked against, at its place, with its code, and the *)
(* one it names now; no filter drops it.  Once the id was accepted only an *)
(* edit can make it fail: exit 1 means run again, never that the command   *)
(* line was wrong (pipeline.go:429).                                       *)
MeasuresTheOneAsked ==
    /\ stage = "found" =>
          /\ FilterByStableID(All(src), id) = target
          /\ target = FilterByStableID(All(asked), id)
          /\ target.keep
    /\ stage = "failed" => src # asked

(* README.md:881: an edit leaves the ids alone of the points of every      *)
(* function it leaves alone, unless it adds or removes one of its name     *)
(* before it.                                                              *)
IdsIn(source, f, d) ==
    {StableID(f, source[f], p) : p \in {q \in Points(source[f]) : q[1] = d}}
Alike(decls, d, others, e) ==
    /\ decls[d].name = others[e].name /\ decls[d].body = others[e].body
    /\ Occurrence(decls, d) = Occurrence(others, e)
EditsElsewhereKeepIds ==
    [][\A f \in Files : \A d \in DOMAIN src[f] : \A e \in DOMAIN src'[f] :
         src[f][d].name # Blank /\ Alike(src[f], d, src'[f], e) =>
            IdsIn(src, f, d) = IdsIn(src', f, e)]_src
=============================================================================
