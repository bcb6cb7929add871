----------------------------- MODULE TestFlags -----------------------------
(***************************************************************************)
(* --test-flags: checkTestFlags (main.go) scans the user's fields for a    *)
(* flag gomutants sets itself, and coverage.BuildFlags picks out the build *)
(* flags that `go test -c` is given.  Both anticipate how two parsers that *)
(* are not in this repository read the same fields: the go command, and    *)
(* then the flag package inside the test binary, which gets what the go    *)
(* command leaves.  Which flags take a value is not known to the scan, so  *)
(* the parsers are modelled for every choice.                              *)
(*                                                                         *)
(* A field is a flag, a value, -args or `--`.  A flag's name stands for    *)
(* its class: one gomutants manages, a build flag with or without a value, *)
(* or any other, and each field may be a different flag of its class.      *)
(***************************************************************************)
EXTENDS Naturals, Sequences, SequencesExt

CONSTANT MaxFields  \* bound: how many fields

MaxFieldsAssumption == MaxFields \in Nat

VARIABLES fields,    \* cfg.TestFlagFields()
          i,         \* the field checkTestFlags looks at
          afterArgs,
          verdict    \* "scanning", "accepted" (nil) or "rejected" (an error)

vars == <<fields, i, afterArgs, verdict>>

(* -run and -test.run stand for the managed names, -race and -gcflags for  *)
(* the build flags, -x for the rest: test flags and the binary's own.      *)
Fields ==
    [kind : {"flag"}, name : {"managed"}, test : BOOLEAN, inline : BOOLEAN]
    \cup [kind : {"flag"}, name : {"x", "race"}, test : {FALSE}, inline : BOOLEAN]
    \cup [kind : {"flag"}, name : {"gcflags"}, test : {FALSE}, inline : {FALSE}]
    \cup [kind : {"value", "args", "terminator"}, name : {"none"},
           test : {FALSE}, inline : {FALSE}]

TypeOK ==
    /\ fields \in Seq(Fields) /\ Len(fields) <= MaxFields
    /\ i \in 1..(Len(fields) + 1)
    /\ afterArgs \in BOOLEAN
    /\ verdict \in {"scanning", "accepted", "rejected"}

---------------------------------------------------------------------------
(* checkTestFlags.                                                         *)

IsFlagBoundary(f) == f.kind \in {"args", "terminator"}

\* A field that begins with a dash and holds no "=".
Detached(f) == f.kind # "value" /\ ~f.inline

\* Faulty: a boundary is always read as one.
FaultyBoundaryConsumed(fs, n) == FALSE

BoundaryConsumed(fs, n) == n > 1 /\ Detached(fs[n - 1])

(* config.FlagName, looked up: the test. spelling names the same flag.     *)
Managed(f) == f.kind = "flag" /\ f.name = "managed"

Boundary(n) == IsFlagBoundary(fields[n]) /\ ~BoundaryConsumed(fields, n)

Init ==
    /\ fields \in SeqOf(Fields, MaxFields)
    /\ i = 1 /\ afterArgs = FALSE /\ verdict = "scanning"

Scanning == verdict = "scanning" /\ i <= Len(fields)

Terminator ==
    /\ Scanning /\ Boundary(i) /\ fields[i].kind = "terminator"
    /\ verdict' = "accepted"
    /\ UNCHANGED <<fields, i, afterArgs>>

\* Faulty: -args takes the next field as its value.
FaultyArgs ==
    /\ Scanning /\ Boundary(i) /\ fields[i].kind = "args"
    /\ afterArgs' = TRUE /\ i' = i + 2
    /\ UNCHANGED <<fields, verdict>>

Args ==
    /\ Scanning /\ Boundary(i) /\ fields[i].kind = "args"
    /\ afterArgs' = TRUE /\ i' = i + 1
    /\ UNCHANGED <<fields, verdict>>

\* Faulty: -args relaxes nothing.
FaultyRefused(n) == Managed(fields[n])

(* Past -args an unprefixed name is the test binary's own.                 *)
Refused(n) == Managed(fields[n]) /\ (afterArgs => fields[n].test)

Pass ==
    /\ Scanning /\ ~Boundary(i) /\ ~Refused(i)
    /\ i' = i + 1
    /\ UNCHANGED <<fields, afterArgs, verdict>>

Refuse ==
    /\ Scanning /\ ~Boundary(i) /\ Refused(i)
    /\ verdict' = "rejected"
    /\ UNCHANGED <<fields, i, afterArgs>>

Accept ==
    /\ verdict = "scanning" /\ i > Len(fields)
    /\ verdict' = "accepted"
    /\ UNCHANGED <<fields, i, afterArgs>>

Done == verdict # "scanning" /\ UNCHANGED vars

Next == Terminator \/ Args \/ Pass \/ Refuse \/ Accept \/ Done

Spec == Init /\ [][Next]_vars

---------------------------------------------------------------------------
(* What reads the fields in one pass is in some mode at each, and what it  *)
(* makes of the field there gives its mode at the next.                    *)
Modes(start, step) ==
    LET mode[n \in DOMAIN step] ==
            IF n = 1 THEN start ELSE step[n - 1][mode[n - 1]]
    IN mode

(* coverage.BuildFlags: the positions of the fields it returns.            *)
IsBuild(f) == f.kind = "flag" /\ f.name \in {"race", "gcflags"}

\* Faulty: a build flag's value is left behind.
FaultyTakesNext(f) == FALSE

TakesNext(f) == f.name = "gcflags" /\ ~f.inline

BuildMode(fs) ==
    Modes("flag", [n \in DOMAIN fs |-> [mode \in {"flag", "value", "stop"} |->
        IF mode = "stop" \/ (mode = "flag" /\ IsFlagBoundary(fs[n])) THEN "stop"
        ELSE IF mode = "flag" /\ TakesNext(fs[n]) THEN "value"
        ELSE "flag"]])

BuildFlags(fs) ==
    LET mode == BuildMode(fs) IN
    {n \in DOMAIN fs : mode[n] = "value" \/ (mode[n] = "flag" /\ IsBuild(fs[n]))}

---------------------------------------------------------------------------
(* The two parsers.  A choice of arities says which detached flags take    *)
(* the next field as their value, for the go command and for the test      *)
(* binary, and which flags the go command does not know.                   *)

Free(fs) == {n \in DOMAIN fs : fs[n].kind = "flag" /\ fs[n].name = "x"}
Arity(fs) ==
    [unknown : SUBSET Free(fs),
     go : SUBSET {n \in DOMAIN fs : fs[n].name \in {"x", "managed"}
                                    /\ Detached(fs[n])},
     binary : SUBSET {n \in DOMAIN fs : Detached(fs[n])
                                        /\ fs[n].kind # "terminator"},
     listing : BOOLEAN]  \* it is still reading package names

(* The go command hands on everything from `--`, everything behind -args,  *)
(* a flag it does not know together with a value that follows, and         *)
(* everything from a value that can belong to no flag, unless the value    *)
(* still reads as a package's name.                                        *)
Looking == {"listing", "after", "flags"}
GoMode(fs, a) ==
    Modes(IF a.listing THEN "listing" ELSE "flags",
          [n \in DOMAIN fs |-> [mode \in Looking \cup {"value", "rest"} |->
        IF mode = "value" THEN "flags"
        ELSE IF mode = "rest" \/ IsFlagBoundary(fs[n]) THEN "rest"
        ELSE IF fs[n].kind = "value"
        THEN CASE mode = "listing" -> "listing"
               [] mode = "after" -> "flags"
               [] mode = "flags" -> "rest"
        ELSE IF n \in a.unknown THEN IF fs[n].inline THEN "flags" ELSE "after"
        ELSE IF fs[n].name = "gcflags" \/ n \in a.go THEN "value"
        ELSE "flags"]])

(* `read` are the fields it takes as flags of its own, `values` those it   *)
(* takes as their values, `raw` what it hands to the test binary as it     *)
(* stands.  A test flag it reads is handed on too, with its value inline.  *)
GoCommand(fs, a) ==
    LET mode == GoMode(fs, a)
        seen == {n \in DOMAIN fs : mode[n] \in Looking}
        IsRaw(n) ==
            CASE fs[n].kind = "flag" -> n \in a.unknown
              [] fs[n].kind = "value" -> mode[n] # "listing"
              [] fs[n].kind = "terminator" -> TRUE
              [] fs[n].kind = "args" -> FALSE
    IN [read |-> {n \in seen : fs[n].kind = "flag" /\ n \notin a.unknown},
        values |-> {n \in DOMAIN fs : mode[n] = "value"},
        raw |-> {n \in DOMAIN fs : mode[n] = "rest"} \cup {n \in seen : IsRaw(n)}]

(* The test binary's flag.Parse over what it was handed: it stops at the   *)
(* first field that is no flag, and at `--`.                               *)
Handed(fs, go) == go.raw \cup {n \in go.read : ~IsBuild(fs[n])}
BinaryMode(fs, a, go) ==
    Modes("flag", [n \in DOMAIN fs |-> [mode \in {"flag", "value", "stop"} |->
        IF mode = "stop" \/ n \notin Handed(fs, go) THEN mode
        ELSE IF mode = "value" THEN "flag"
        ELSE IF fs[n].kind \in {"value", "terminator"} THEN "stop"
        ELSE IF n \in a.binary \cap go.raw THEN "value"
        ELSE "flag"]])

Binary(fs, a, go) ==
    LET mode == BinaryMode(fs, a, go) IN
    {n \in Handed(fs, go) :
        mode[n] = "flag" /\ fs[n].kind \notin {"value", "terminator"}}

(* A managed flag that takes effect: the go command knows it by either     *)
(* name, the test binary by its test. name.                                *)
Overrides(fs, a) ==
    LET go == GoCommand(fs, a) IN
    {n \in go.read : fs[n].name = "managed"}
    \cup {n \in Binary(fs, a, go) : fs[n].name = "managed" /\ fs[n].test}

---------------------------------------------------------------------------
(* main.go:430, main.go:520: a list that is accepted overrides no flag     *)
(* gomutants sets, whatever flags the go command and the test binary know  *)
(* and whichever of them take a value: no boundary the scan relaxes behind *)
(* can have been swallowed as some flag's value.  But for a flag only the  *)
(* test binary knows, without its value, in front of a build flag: the go  *)
(* command keeps the build flag, and the field after it becomes the        *)
(* binary's flag's neighbour.                                              *)
NoGap(fs, a) ==
    \A n \in a.unknown :
        (n < Len(fs) /\ Detached(fs[n])) => ~IsBuild(fs[n + 1])
WithoutGapOverridesNothing ==
    verdict = "accepted" =>
        \A a \in Arity(fields) : NoGap(fields, a) => Overrides(fields, a) = {}

(* main.go:525: "The imprecision only ever errs strict".  It errs only     *)
(* where it must: on a list where every value and every boundary follows   *)
(* something that may or must not take it, a refused field is one that     *)
(* would take effect for some choice of flags.  The exceptions are the     *)
(* comment's own -race, known to take nothing, and a second boundary.      *)
MayTake(f) == f.kind = "flag" /\ Detached(f) /\ f.name # "race"
Readable(fs) ==
    \A n \in DOMAIN fs :
        /\ fs[n].kind = "value" => n > 1 /\ MayTake(fs[n - 1])
        /\ (n > 1 /\ IsFlagBoundary(fs[n])) =>
              fs[n - 1].name # "race" /\ ~IsFlagBoundary(fs[n - 1])
        /\ fs[n].name = "gcflags" => n < Len(fs) /\ fs[n + 1].kind = "value"
RefusedCouldOverride ==
    verdict = "rejected" /\ Readable(fields) =>
        \E a \in Arity(fields) : i \in Overrides(fields, a)

(* The positions BuildFlags ought to return: the build flags the go        *)
(* command reads, with their values.                                       *)
BuildRead(fs, a) ==
    LET go == GoCommand(fs, a)
        build == {n \in go.read : IsBuild(fs[n])}
    IN build \cup {n \in go.values : n - 1 \in build}

(* testmap.go:725: a mutant's test binary, and the one coverage is         *)
(* measured with, are built as the go command would have built them from   *)
(* the whole list, where only build flags have values in a field of their  *)
(* own.                                                                    *)
InlineFlagsBuildAlike ==
    verdict = "accepted" => \A a \in Arity(fields) :
        (/\ a.go = {}
         /\ \A n \in DOMAIN fields :
                fields[n].kind = "value" => n \in GoCommand(fields, a).values) =>
            BuildFlags(fields) = BuildRead(fields, a)

(* main.go:430, testmap.go:725: what the two scans of the fields make of   *)
(* them agrees with what the parsers downstream will.                      *)
ScanInv ==
    TypeOK /\ WithoutGapOverridesNothing /\ RefusedCouldOverride /\ InlineFlagsBuildAlike
=============================================================================
