-------------------------------- MODULE Tce --------------------------------
(***************************************************************************)
(* internal/tce/tce.go: the equivalence pass over the survivors.           *)
(* Detector.Run hands their indices to its workers; each one writes the    *)
(* patched source and the overlay to its own two files, waits for the      *)
(* package's reference, compiles the package under the overlay, and flips  *)
(* the survivor when both gave the same assembly.  The first worker to ask *)
(* for a package's reference compiles it, from the files on disk, and its  *)
(* result, error or not, is kept.                                          *)
(*                                                                         *)
(* A source file's text is a number, 0 for the text that was frozen after  *)
(* discovery; Asm stands for the compiler.  Files may be edited while the  *)
(* pass runs.  The work channel holds every index from the start: it has   *)
(* room for all of them, so Run never waits to send.                       *)
(***************************************************************************)
EXTENDS Naturals, Sequences, FiniteSets, Statuses

CONSTANTS
    Workers,    \* the worker slots
    NPkgs,      \* the packages: 1 .. NPkgs
    NFiles,     \* their source files: 1 .. NFiles
    Texts,      \* what a file may contain
    Asm,        \* Asm[p][src]: package p's normalized assembly, of the texts src
    Mutation,   \* the mutants slice: [pkg, file, text (of the patched file), ok]
    Place,      \* each mutant's place in the order of (Pkg, File, StartOffset)
    Given,      \* the statuses a mutant may come with
    Editable    \* the files somebody may edit

Pkgs     == 1..NPkgs
Files    == 1..NFiles
Mutants  == 1..Len(Mutation)
Sources  == [Files -> Texts]
Original == [f \in Files |-> 0]
NoAsm    == 0    \* the empty hash

ASSUME ShapeAssumption ==
    /\ NPkgs \in Nat /\ NFiles \in Nat
    /\ Texts \subseteq Nat /\ 0 \in Texts
    /\ Editable \subseteq Files
    /\ Given \subseteq Statuses
ASSUME AsmAssumption == Asm \in [Pkgs -> [Sources -> Nat \ {NoAsm}]]
\* ok: the file is in the source cache and the patch applies.
ASSUME MutationAssumption ==
    Mutation \in Seq([pkg : Pkgs, file : Files, text : Texts, ok : BOOLEAN])
ASSUME PlaceAssumption ==
    /\ Place \in [Mutants -> Nat]
    /\ \A i, j \in Mutants : Place[i] = Place[j] => i = j
\* max(1, workers)
ASSUME WorkersAssumption == Workers # {}

VARIABLES
    pc,        \* where Detector.Run is
    status,    \* the status of each element of the mutants slice
    work,      \* the work channel
    at,        \* where each worker is
    holds,     \* the index each worker received last
    tmpSrc,    \* the text of each worker's tce-%d.go
    overlay,   \* each worker's tce-overlay-%d.json: the file, and the worker
               \*   whose tce-%d.go replaces it
    equal,     \* what Check returned to each worker, FALSE with an error
    refs,      \* d.refs: each package's reference
    disk,      \* the text of each source file
    ctxDone,   \* ctx.Err() # nil
    \* history
    given,     \* the statuses Run was called with
    reported,  \* how many times onResult was called for each mutant
    compiled,  \* how many times each package's reference was compiled
    failed     \* the mutants whose Check returned an error

scratch == <<tmpSrc, overlay>>
history == <<given, reported, compiled, failed>>
vars    == <<pc, status, work, at, holds, scratch, equal, refs, disk, ctxDone,
             history>>

NoMutant == 0
References == [state : {"none", "compiling", "failed", "done"}, asm : Nat]

TypeOK ==
    /\ pc \in {"wait", "returned"}
    /\ status \in [Mutants -> Statuses]
    /\ work \in Seq(Mutants)
    /\ at \in [Workers -> {"receive", "source", "overlay", "reference", "first",
                           "build", "lock", "report", "exited"}]
    /\ holds \in [Workers -> Mutants \cup {NoMutant}]
    /\ \A w \in Workers : at[w] \notin {"receive", "exited"} => holds[w] \in Mutants
    /\ tmpSrc \in [Workers -> Texts]
    /\ overlay \in [Workers -> [file : Files \cup {0}, tmp : Workers]]
    /\ equal \in [Workers -> BOOLEAN]
    /\ refs \in [Pkgs -> References]
    /\ disk \in Sources
    /\ ctxDone \in BOOLEAN
    /\ given \in [Mutants -> Statuses]
    /\ reported \in [Mutants -> Nat]
    /\ compiled \in [Pkgs -> Nat]
    /\ failed \subseteq Mutants

-----------------------------------------------------------------------------
Pkg(w)  == Mutation[holds[w]].pkg
File(w) == Mutation[holds[w]].file

(* collectLived, and mutantLess's order of what it collects.               *)
LivedIn(st) == {i \in Mutants : st[i] = Lived}
Orders(S, o) ==
    /\ \A i \in S : \E k \in DOMAIN o : o[k] = i
    /\ \A k, l \in DOMAIN o : k < l => Place[o[k]] < Place[o[l]]

(* The worker whose tce-%d.go worker w writes.  (Faulty: all share one.)   *)
FaultyTmp(w) == CHOOSE v \in Workers : TRUE
Tmp(w) == w

(* What go build reads under worker w's overlay.  (Faulty: the flag is     *)
(* left out.)                                                              *)
FaultyOverlaid(w) == disk
Overlaid(w) ==
    [f \in Files |-> IF f = overlay[w].file THEN tmpSrc[overlay[w].tmp] ELSE disk[f]]

Init ==
    /\ pc = "wait"
    /\ status \in [Mutants -> Given]
    /\ LET S == LivedIn(status)
       IN  \E o \in [1..Cardinality(S) -> S] : Orders(S, o) /\ work = o
    /\ at = [w \in Workers |-> "receive"]
    /\ holds = [w \in Workers |-> NoMutant]
    /\ tmpSrc = [w \in Workers |-> 0]
    /\ overlay = [w \in Workers |-> [file |-> 0, tmp |-> w]]
    /\ equal = [w \in Workers |-> FALSE]
    /\ refs = [p \in Pkgs |-> [state |-> "none", asm |-> NoAsm]]
    /\ disk = Original
    /\ ctxDone \in BOOLEAN
    /\ given = status
    /\ reported = [i \in Mutants |-> 0]
    /\ compiled = [p \in Pkgs |-> 0]
    /\ failed = {}

Go(w, from, to) == at[w] = from /\ at' = [at EXCEPT ![w] = to]

-----------------------------------------------------------------------------
(* Detector.worker.                                                        *)

Receive(w) ==
    /\ Go(w, "receive", "source")
    /\ work # << >> /\ ~ctxDone
    /\ holds' = [holds EXCEPT ![w] = Head(work)]
    /\ work' = Tail(work)
    /\ UNCHANGED <<pc, status, scratch, equal, refs, disk, ctxDone, history>>

(* Faulty: the zero value of a drained channel is taken for an index.      *)
FaultyExit(w) ==
    /\ Go(w, "receive", "source")
    /\ work = << >>
    /\ holds' = [holds EXCEPT ![w] = NoMutant]
    /\ UNCHANGED <<pc, status, work, scratch, equal, refs, disk, ctxDone, history>>

(* The channel is drained and closed, or an index came after the cancel.   *)
Exit(w) ==
    /\ Go(w, "receive", "exited")
    /\ work = << >> \/ ctxDone
    /\ work' = IF work = << >> THEN work ELSE Tail(work)
    /\ UNCHANGED <<pc, status, holds, scratch, equal, refs, disk, ctxDone, history>>

-----------------------------------------------------------------------------
(* Detector.Check.                                                         *)

Fail(w, from) ==
    /\ Go(w, from, "lock")
    /\ equal' = [equal EXCEPT ![w] = FALSE]
    /\ failed' = failed \cup {holds[w]}
    /\ UNCHANGED <<pc, status, work, holds, disk, ctxDone, given, reported>>

(* The mutant cannot be patched, or its file cannot be written.            *)
PrepareFails(w) ==
    /\ at[w] \in {"source", "overlay"}
    /\ Fail(w, at[w])
    /\ UNCHANGED <<scratch, refs, compiled>>

WriteSource(w) ==
    /\ Go(w, "source", "overlay")
    /\ Mutation[holds[w]].ok
    /\ tmpSrc' = [tmpSrc EXCEPT ![Tmp(w)] = Mutation[holds[w]].text]
    /\ UNCHANGED <<pc, status, work, holds, overlay, equal, refs, disk, ctxDone,
                   history>>

WriteOverlay(w) ==
    /\ Go(w, "overlay", "reference")
    /\ overlay' = [overlay EXCEPT ![w] = [file |-> File(w), tmp |-> Tmp(w)]]
    /\ UNCHANGED <<pc, status, work, holds, tmpSrc, equal, refs, disk, ctxDone,
                   history>>

(* Does a worker that asks for p's reference compile it?  (Faulty: as long *)
(* as there is none.)                                                      *)
FaultyIsFirst(p) == refs[p].state \in {"none", "compiling"}
IsFirst(p) == refs[p].state = "none"

(* referenceHash: the first to ask compiles.  A build under a context that *)
(* is done does not start, which is an error like any other.               *)
AskFirst(w) ==
    /\ at[w] = "reference"
    /\ IsFirst(Pkg(w))
    /\ IF ctxDone
       THEN /\ refs' = [refs EXCEPT ![Pkg(w)].state = "failed"]
            /\ UNCHANGED <<at, compiled>>
       ELSE /\ Go(w, "reference", "first")
            /\ refs' = [refs EXCEPT ![Pkg(w)].state = "compiling"]
            /\ compiled' = [compiled EXCEPT ![Pkg(w)] = @ + 1]
    /\ UNCHANGED <<pc, status, work, holds, scratch, equal, disk, ctxDone, given,
                   reported, failed>>

CompileReference(w) ==
    /\ Go(w, "first", "reference")
    /\ refs' = [refs EXCEPT ![Pkg(w)] = [state |-> "done", asm |-> Asm[Pkg(w)][disk]]]
    /\ UNCHANGED <<pc, status, work, holds, scratch, equal, disk, ctxDone, history>>

(* Faulty: the worker whose compile failed leaves the others waiting.      *)
FaultyReferenceFails(w) ==
    /\ Fail(w, "first")
    /\ UNCHANGED <<scratch, refs, compiled>>

ReferenceFails(w) ==
    /\ Go(w, "first", "reference")
    /\ refs' = [refs EXCEPT ![Pkg(w)].state = "failed"]
    /\ UNCHANGED <<pc, status, work, holds, scratch, equal, disk, ctxDone, history>>

(* once.Do has returned: the reference is there, or its error.  (Faulty:   *)
(* an entry of d.refs is taken for a reference.)                           *)
FaultyKnown(p) == refs[p].state \in {"compiling", "done"}
Known(p) == refs[p].state = "done"

StartBuild(w) ==
    /\ Go(w, "reference", "build")
    /\ Known(Pkg(w)) /\ ~ctxDone
    /\ UNCHANGED <<pc, status, work, holds, scratch, equal, refs, disk, ctxDone,
                   history>>

NoBuild(w) ==
    /\ at[w] = "reference"
    /\ refs[Pkg(w)].state = "failed" \/ (Known(Pkg(w)) /\ ctxDone)
    /\ Fail(w, "reference")
    /\ UNCHANGED <<scratch, refs, compiled>>

Build(w) ==
    /\ Go(w, "build", "lock")
    /\ equal' = [equal EXCEPT ![w] = Asm[Pkg(w)][Overlaid(w)] = refs[Pkg(w)].asm]
    /\ UNCHANGED <<pc, status, work, holds, scratch, refs, disk, ctxDone, history>>

BuildFails(w) ==
    /\ Fail(w, "build")
    /\ UNCHANGED <<scratch, refs, compiled>>

-----------------------------------------------------------------------------
(* Detector.checkAndReport, after Check.                                   *)

(* Faulty: the status is written before outMu is taken.                    *)
FaultyFlip(w) ==
    /\ Go(w, "lock", "report")
    /\ status' = IF equal[w] THEN [status EXCEPT ![holds[w]] = Equivalent] ELSE status
    /\ UNCHANGED <<pc, work, holds, scratch, equal, refs, disk, ctxDone, history>>

(* outMu is taken and the status written.                                  *)
Flip(w) ==
    /\ \A v \in Workers : at[v] # "report"
    /\ Go(w, "lock", "report")
    /\ status' = IF equal[w] THEN [status EXCEPT ![holds[w]] = Equivalent] ELSE status
    /\ UNCHANGED <<pc, work, holds, scratch, equal, refs, disk, ctxDone, history>>

(* Faulty: a mutant whose check failed is not reported.                    *)
FaultyReport(w) ==
    /\ Go(w, "report", "receive")
    /\ reported' = [reported EXCEPT
                      ![holds[w]] = IF holds[w] \in failed THEN @ ELSE @ + 1]
    /\ UNCHANGED <<pc, status, work, holds, scratch, equal, refs, disk, ctxDone,
                   given, compiled, failed>>

(* onResult returns: the checkpoint has read the slice.                    *)
Report(w) ==
    /\ Go(w, "report", "receive")
    /\ reported' = [reported EXCEPT ![holds[w]] = @ + 1]
    /\ UNCHANGED <<pc, status, work, holds, scratch, equal, refs, disk, ctxDone,
                   given, compiled, failed>>

WorkerStep(w) ==
    \/ Receive(w) \/ Exit(w)
    \/ PrepareFails(w) \/ WriteSource(w) \/ WriteOverlay(w)
    \/ AskFirst(w) \/ CompileReference(w) \/ ReferenceFails(w)
    \/ StartBuild(w) \/ NoBuild(w) \/ Build(w) \/ BuildFails(w)
    \/ Flip(w) \/ Report(w)

-----------------------------------------------------------------------------
(* wg.Wait() is over: Run counts the flips and returns.                    *)
Return ==
    /\ pc = "wait"
    /\ \A w \in Workers : at[w] = "exited"
    /\ pc' = "returned"
    /\ UNCHANGED <<status, work, at, holds, scratch, equal, refs, disk, ctxDone,
                   history>>

(* The interrupt.                                                          *)
Cancel ==
    /\ ~ctxDone
    /\ ctxDone' = TRUE
    /\ UNCHANGED <<pc, status, work, at, holds, scratch, equal, refs, disk, history>>

(* Somebody edits a source file.                                           *)
Edit(f) ==
    /\ pc = "wait"
    /\ \E t \in Texts \ {disk[f]} : disk' = [disk EXCEPT ![f] = t]
    /\ UNCHANGED <<pc, status, work, at, holds, scratch, equal, refs, ctxDone, history>>

Done == pc = "returned" /\ UNCHANGED vars

Next ==
    \/ Return \/ Cancel \/ Done
    \/ \E w \in Workers : WorkerStep(w)
    \/ \E f \in Editable : Edit(f)

(* A worker goroutine is scheduled and go build ends.                      *)
Fairness ==
    /\ WF_vars(Return)
    /\ \A w \in Workers : WF_vars(WorkerStep(w))

Spec == Init /\ [][Next]_vars /\ Fairness

-----------------------------------------------------------------------------
(* Properties.                                                             *)

(* The mutant's package compiles to the code of the original.              *)
SameCode(i) ==
    LET p == Mutation[i].pkg
        mutated == [Original EXCEPT ![Mutation[i].file] = Mutation[i].text]
    IN  Asm[p][mutated] = Asm[p][Original]

(* The packages whose code depends on a file that may be edited.           *)
Unsettled ==
    {p \in Pkgs : \E s, t \in Sources :
                    /\ \A f \in Files \ Editable : s[f] = t[f]
                    /\ Asm[p][s] # Asm[p][t]}
Settled == {i \in Mutants : Mutation[i].pkg \notin Unsettled}

(* A survivor whose code differs from the original's is never declared     *)
(* equivalent, whatever the other workers compile and write at the same    *)
(* time, when nobody edits what its package is compiled from (tce.go:15).  *)
KillableStaysLived ==
    \A i \in Settled : status[i] = Equivalent /\ given[i] = Lived => SameCode(i)

(* A survivor that has the original's code is found out, unless its check  *)
(* failed or the pass was cut short: no worker compares with a reference   *)
(* that is not there yet.                                                  *)
FindsEveryEquivalent ==
    pc = "returned" /\ ~ctxDone =>
        \A i \in Settled \ failed :
            given[i] = Lived /\ SameCode(i) => status[i] = Equivalent

(* A package's reference is compiled once, however many workers ask for it *)
(* at the same time, and however they find it (tce.go:66).                 *)
ReferenceCompiledOnce == \A p \in Pkgs : compiled[p] <= 1

(* onResult is called once for each survivor and for no other mutant, with *)
(* or without an error, unless the pass was cut short (tce.go:222).        *)
EachSurvivorReported ==
    /\ \A i \in Mutants : reported[i] <= IF given[i] = Lived THEN 1 ELSE 0
    /\ pc = "returned" /\ ~ctxDone =>
         \A i \in Mutants : given[i] = Lived => reported[i] = 1

(* tce.go:15, :66, :222: the pass finds what it can and says nothing else, *)
(* once.                                                                   *)
TceInv ==
    /\ TypeOK
    /\ KillableStaysLived
    /\ FindsEveryEquivalent
    /\ ReferenceCompiledOnce
    /\ EachSurvivorReported

(* While one worker's checkpoint reads the whole slice, no other worker    *)
(* writes to it (tce.go:291).                                              *)
NoWriteDuringReport ==
    [][\A w \in Workers : at[w] = "report" => UNCHANGED status]_vars

(* Tce implements SurvivorPass, for any edits: a mutant of a package that  *)
(* is being edited may be declared equivalent, no other one wrongly.  And  *)
(* the pass ends, cancelled or not, whichever builds fail: no worker waits *)
(* for a reference for ever.                                               *)
Abstract == INSTANCE SurvivorPass
              WITH running <- pc = "wait",
                   Provable <- {i \in Mutants : i \in Settled => SameCode(i)}
ImplementsSurvivorPass == Abstract!Spec
=============================================================================
