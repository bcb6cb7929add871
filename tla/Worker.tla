------------------------------- MODULE Worker -------------------------------
(***************************************************************************)
(* internal/runner/worker.go: Worker.Test, for the mutants one worker is   *)
(* given one after another.  Each is staged (patched source and overlay in *)
(* the worker's own two files), its covering tests are run, and if they    *)
(* all pass, every suite that can kill it is run in full.  A package's     *)
(* test binary is built once per mutant, under a numbered file name that   *)
(* the next mutants use again.                                             *)
(*                                                                         *)
(* A mutant is its position in Jobs.  Packages are numbered in the order   *)
(* of their import paths.  Time is counted in the test runs alone: what a  *)
(* build takes is charged to no deadline.                                  *)
(***************************************************************************)
EXTENDS Naturals, Sequences, FiniteSets, Outcomes

CONSTANTS
    NPkgs,        \* the packages: 1 .. NPkgs
    HasTests,     \* those with test files
    Links,        \* Links[q]: the packages whose test binary links package q
    HasMap,       \* the coverage map was built (w.testMap # nil)
    Jobs,         \* the mutants: [own, covered (packages with covering tests), sum]
    Adaptive, Floor, Global, \* the TimeoutPolicy (Floor is its Min), in ticks, Margin 1
    TestEndings,  \* the observations a run of a test binary may end with
    BuildEndings  \* the observations a build may end with

Pkgs    == 1..NPkgs
Unknown == 0    \* a sum of durations that is not complete
Mutants == 1..Len(Jobs)

ASSUME PkgsAssumption ==
    /\ NPkgs \in Nat \ {0}
    /\ HasTests \subseteq Pkgs
    /\ Links \in [Pkgs -> SUBSET Pkgs]
    /\ HasMap \in BOOLEAN
ASSUME JobsAssumption ==
    /\ Jobs \in Seq([own : Pkgs, covered : SUBSET Pkgs, sum : Nat])
    \* The map names tests of its suites only, and times covering tests only.
    /\ \A n \in Mutants :
         /\ Jobs[n].covered \subseteq HasTests \cap (Links[Jobs[n].own] \cup {Jobs[n].own})
         /\ ~HasMap => Jobs[n].covered = {}
         /\ Jobs[n].covered = {} => Jobs[n].sum = Unknown
\* timeoutPolicyFor (main.go) raises Global to Min.
ASSUME PolicyAssumption == Floor \in Nat \ {0} /\ Global \in Nat /\ Floor <= Global
                           /\ Adaptive \in BOOLEAN
ASSUME EndingsAssumption ==
    /\ TestEndings \subseteq Observations
    /\ BuildEndings \subseteq Observations

-----------------------------------------------------------------------------
(* What is run for a mutant.                                               *)

(* A part of a mutant's run: one package, its covering tests or all.       *)
Runs == [pkg : Pkgs, part : {"covering", "all"}]

(* TestMap.SuitePkgs: the suites that decide whether a mutant in q lives.  *)
SuitePkgs(q) == IF HasMap THEN HasTests \cap (Links[q] \cup {q}) ELSE {}

(* routeGroups.                                                            *)
Routed(n) ==
    IF Jobs[n].covered # {} THEN [pkg : Jobs[n].covered, part : {"covering"}]
                            ELSE [pkg : {Jobs[n].own}, part : {"all"}]

(* recheckGroups.  (Faulty: the suites alone that were not touched.)       *)
FaultyRecheck(n, routed) ==
    [pkg : SuitePkgs(Jobs[n].own) \ {r.pkg : r \in routed}, part : {"all"}]

Recheck(n, routed) ==
    LET partly  == {r.pkg : r \in {s \in routed : s.part = "covering"}}
        inFull  == {r.pkg : r \in routed} \ partly
    IN  [pkg : partly \cup (SuitePkgs(Jobs[n].own) \ inFull), part : {"all"}]

(* orderRoutePackages: the mutant's own package first, the rest sorted.    *)
Before(own, r, s) == s.pkg # own /\ (r.pkg = own \/ r.pkg < s.pkg)

OwnFirst(own, runs) ==
    {o \in [1..Cardinality(runs) -> runs] :
       /\ \A r \in runs : \E k \in DOMAIN o : o[k] = r
       /\ \A k, l \in DOMAIN o : k < l => Before(own, o[k], o[l])}

(* TimeoutPolicy.For, with Margin 1.                                       *)
TimeoutFor(n) ==
    IF ~Adaptive \/ Jobs[n].sum = Unknown THEN Global
    ELSE LET floored == IF Jobs[n].sum < Floor THEN Floor ELSE Jobs[n].sum
         IN  IF floored < Global THEN floored ELSE Global

-----------------------------------------------------------------------------
VARIABLES
    pc,        \* where Test is
    cur,       \* the mutant being tested
    tmpSrc,    \* the mutant whose patched source is in the worker's .go file
    overlay,   \* the mutant whose file the overlay names
    files,     \* the mutant each numbered binary file was built from
    bins,      \* w.bins: the file number of each package's binary
    todo,      \* the runs still to do: runGroups' invocations
    left,      \* runGroups' left: what remains of the deadline
    rechecked, \* the re-check was started
    status,    \* runGroups' outcome so far
    argsRead,  \* binArgsCache.read, which the pool's workers share
    ctxDone,   \* the run was cancelled
    \* history
    results,   \* what Test returned for each mutant
    passed,    \* the runs whose tests passed for the current mutant
    spent,     \* what the test runs of the current runGroups call have taken
    expired,   \* the current mutant's tests ran out of their deadline
    cut,       \* a process of the current mutant ended after the cancel
    builds     \* how often each package was built for the current mutant

staging  == <<tmpSrc, overlay>>
binaries == <<files, bins, builds>>
progress == <<todo, left, rechecked, status>>
history  == <<results, passed, spent, expired, cut>>
vars     == <<pc, cur, staging, binaries, progress, argsRead, ctxDone, history>>

None    == 0                     \* no mutant, an empty file
NoFile  == Len(Jobs) + 1         \* no such file
NoBin   == NPkgs                 \* bins: "", the package has no tests
Unbuilt == NPkgs + 1             \* bins: no entry

NoResult == [status |-> Pending, rechecked |-> FALSE]

TypeOK ==
    /\ pc \in {"idle", "stage", "overlay", "build", "args", "run", "settle"}
    /\ cur \in 0..Len(Jobs)
    /\ tmpSrc \in Mutants \cup {None} /\ overlay \in Mutants \cup {None}
    /\ files \in [0..(NPkgs - 1) -> Mutants \cup {None, NoFile}]
    /\ bins \in [Pkgs -> 0..(NPkgs + 1)]
    /\ todo \in Seq(Runs)
    /\ left \in 0..Global
    /\ rechecked \in BOOLEAN
    /\ status \in Statuses
    /\ argsRead \in BOOLEAN /\ ctxDone \in BOOLEAN
    /\ results \in [Mutants -> [status : Statuses, rechecked : BOOLEAN]]
    /\ passed \subseteq Runs
    /\ spent \in 0..Global
    /\ expired \in BOOLEAN /\ cut \in BOOLEAN
    /\ builds \in [Pkgs -> Nat]

Init ==
    /\ pc = "idle" /\ cur = 0
    /\ tmpSrc = None /\ overlay = None               \* NewWorker's empty files
    /\ files = [f \in 0..(NPkgs - 1) |-> NoFile]
    /\ bins = [p \in Pkgs |-> Unbuilt]
    /\ todo = << >> /\ left = 0 /\ rechecked = FALSE /\ status = Pending
    /\ argsRead = FALSE /\ ctxDone = FALSE
    /\ results = [n \in Mutants |-> NoResult]
    /\ passed = {} /\ spent = 0 /\ expired = FALSE /\ cut = FALSE
    /\ builds = [p \in Pkgs |-> 0]

-----------------------------------------------------------------------------
(* Staging.  A return from here looks at no context and has built nothing. *)

ReturnEarly(s) ==
    /\ pc' = "idle"
    /\ results' = [results EXCEPT ![cur] = [status |-> s, rechecked |-> FALSE]]
    /\ UNCHANGED <<cur, binaries, progress, argsRead, ctxDone, passed, spent,
                   expired, cut>>

(* The next mutant; the pool gives a worker none after the cancel.         *)
Begin ==
    /\ pc = "idle" /\ cur < Len(Jobs) /\ ~ctxDone
    /\ cur' = cur + 1
    /\ pc' = "stage"
    /\ passed' = {} /\ expired' = FALSE /\ cut' = FALSE
    /\ builds' = [p \in Pkgs |-> 0]
    /\ rechecked' = FALSE /\ status' = Pending
    /\ UNCHANGED <<staging, files, bins, todo, left, argsRead, ctxDone, results,
                   spent>>

(* The file is not in the source cache, or the patch does not apply.       *)
Unpatchable ==
    /\ pc = "stage"
    /\ ReturnEarly(NotViable)
    /\ UNCHANGED staging

WriteSource ==
    /\ pc = "stage"
    /\ \/ /\ tmpSrc' = cur
          /\ pc' = "overlay"
          /\ UNCHANGED <<cur, binaries, progress, argsRead, ctxDone, history>>
       \/ /\ tmpSrc' = None
          /\ \E recognised \in BOOLEAN : ReturnEarly(SetupErrorStatus(recognised))
    /\ UNCHANGED overlay

WriteOverlay ==
    /\ pc = "overlay"
    /\ \/ /\ overlay' = cur
          /\ pc' = "build"
          /\ todo' \in OwnFirst(Jobs[cur].own, Routed(cur))
          /\ left' = TimeoutFor(cur)
          /\ spent' = 0
          /\ UNCHANGED <<cur, binaries, rechecked, status, argsRead, ctxDone,
                         results, passed, expired, cut>>
       \/ /\ overlay' = None
          /\ \E recognised \in BOOLEAN : ReturnEarly(SetupErrorStatus(recognised))
    /\ UNCHANGED tmpSrc

-----------------------------------------------------------------------------
(* runGroups and recheck.                                                  *)

Package == Head(todo).pkg

(* The run ends with this outcome.                                         *)
End(s) ==
    /\ status' = s
    /\ pc' = "settle"
    /\ cut' = (cut \/ ctxDone)
    /\ UNCHANGED <<todo, left, rechecked, spent, passed>>

(* A re-check gives each package the global ceiling; the packages of the   *)
(* routed run share its deadline.  (Faulty: so do the re-check's.)         *)
FaultyDeadlineOfNext(l) == l
DeadlineOfNext(l) == IF rechecked THEN Global ELSE l

(* What a run took is taken off the deadline.  (Faulty: and its start is,  *)
(* too.)                                                                   *)
FaultyCharge(l, ran) == l - (ran + 1)
Charge(l, ran) == l - ran

(* The package is done, its tests passed or it has none, after `ran` of    *)
(* the deadline: on to the next, to the re-check, or to the end.           *)
PassOn(ran) ==
    LET rest  == Tail(todo)
        again == Recheck(cur, Routed(cur))
    IN  \/ /\ rest # << >>
           /\ todo' = rest /\ pc' = "build"
           /\ left' = DeadlineOfNext(Charge(left, ran))
           /\ spent' = IF rechecked THEN 0 ELSE spent + ran
           /\ UNCHANGED <<rechecked, status>>
        \/ /\ rest = << >> /\ ~rechecked /\ again # {}
           /\ todo' \in OwnFirst(Jobs[cur].own, again) /\ pc' = "build"
           /\ rechecked' = TRUE
           /\ left' = Global /\ spent' = 0
           /\ UNCHANGED status
        \/ /\ rest = << >> /\ (rechecked \/ again = {})
           /\ todo' = << >> /\ pc' = "settle"
           /\ status' = Lived
           /\ left' = Charge(left, ran) /\ spent' = spent + ran
           /\ UNCHANGED rechecked

(* buildBin: the binary is there, or is known not to be.                   *)
Reuse ==
    /\ pc = "build" /\ bins[Package] # Unbuilt
    /\ \/ bins[Package] = NoBin /\ PassOn(0) /\ UNCHANGED <<passed, expired, cut>>
       \/ /\ bins[Package] # NoBin
          /\ pc' = "args"
          /\ UNCHANGED <<progress, passed, spent, expired, cut>>
    /\ UNCHANGED <<cur, staging, binaries, argsRead, ctxDone, results>>

(* The first file number free.                                             *)
NextFile == Cardinality({p \in Pkgs : bins[p] # Unbuilt})

(* What the overlay has the build compile.                                 *)
Staged == IF tmpSrc = overlay THEN tmpSrc ELSE None

(* os.Remove(bin), before the build: what the file number still names.     *)
FaultyCleared == files
Cleared == [files EXCEPT ![NextFile] = NoFile]

StartFails == \E recognised \in BOOLEAN : End(SetupErrorStatus(recognised))

(* A process that the cancel killed, or that ended by itself before.       *)
CutShort(o) == o.err /\ ~o.mem /\ ~o.deadline
Ends(endings) == IF ctxDone THEN endings \cup {o \in Observations : CutShort(o)} ELSE endings

(* buildBin: the build.  One that fails may leave its file.                *)
BuildFails ==
    /\ pc = "build" /\ bins[Package] = Unbuilt
    /\ \/ StartFails /\ files' = Cleared
       \/ /\ \E o \in Ends(BuildEndings) : o.err /\ End(BuildOutcome(o))
          /\ \E written \in {NoFile, Staged} : files' = [Cleared EXCEPT ![NextFile] = written]
    /\ builds' = [builds EXCEPT ![Package] = @ + 1]
    /\ UNCHANGED <<cur, staging, bins, argsRead, ctxDone, results, expired>>

Build ==
    /\ pc = "build" /\ bins[Package] = Unbuilt
    /\ files' = IF Package \in HasTests THEN [Cleared EXCEPT ![NextFile] = Staged]
                                        ELSE Cleared
    /\ bins' = [bins EXCEPT ![Package] =
                  IF files'[NextFile] = NoFile THEN NoBin ELSE NextFile]
    /\ builds' = [builds EXCEPT ![Package] = @ + 1]
    /\ UNCHANGED <<pc, cur, staging, progress, argsRead, ctxDone, history>>

(* runBin, up to its start: the directory, and the binary's arguments.     *)
ReadArgs ==
    /\ pc = "args"
    /\ \/ End(InfraError) /\ ~argsRead /\ UNCHANGED <<argsRead, expired>>
       \/ /\ argsRead' = TRUE
          /\ pc' = "run"
          /\ UNCHANGED <<progress, passed, spent, expired, cut>>
    /\ UNCHANGED <<cur, staging, binaries, ctxDone, results>>

(* Another worker of the pool reads the arguments.                         *)
OtherReadsArgs ==
    /\ ~argsRead
    /\ argsRead' = TRUE
    /\ UNCHANGED <<pc, cur, staging, binaries, progress, ctxDone, history>>

(* runBin fails to start the binary: the host's doing, or the deadline's   *)
(* when earlier packages took all of it.                                   *)
RunFails ==
    /\ pc = "run"
    /\ IF left = 0 /\ ~ctxDone THEN End(TimedOut) /\ expired' = TRUE
                               ELSE StartFails /\ UNCHANGED expired
    /\ UNCHANGED <<cur, staging, binaries, argsRead, ctxDone, results>>

(* The binary ran and did not pass.                                        *)
RunEnds ==
    /\ pc = "run" /\ left > 0
    /\ \E o \in Ends(TestEndings) :
         /\ TestOutcome(o) # Lived
         /\ status' = TestOutcome(o)
         /\ expired' = (o.deadline /\ ~o.mem)
         /\ \E ran \in 0..left :
              /\ o.deadline => ran = left
              /\ spent' = spent + ran
    /\ pc' = "settle"
    /\ cut' = (cut \/ ctxDone)
    /\ UNCHANGED <<cur, staging, binaries, todo, left, rechecked, argsRead,
                   ctxDone, results, passed>>

RunPasses ==
    /\ pc = "run" /\ left > 0
    /\ \E o \in TestEndings : TestOutcome(o) = Lived
    /\ \E ran \in 0..left : PassOn(ran)
    /\ passed' = passed \cup {Head(todo)}
    /\ UNCHANGED <<cur, staging, binaries, argsRead, ctxDone, results, expired, cut>>

-----------------------------------------------------------------------------
(* Test returns: removeBins, and the mutant as it came when cancelled.     *)

FaultyReturned == [status |-> status, rechecked |-> rechecked]
Returned == IF ctxDone THEN NoResult ELSE [status |-> status, rechecked |-> rechecked]

NoBins == [p \in Pkgs |-> Unbuilt]

Settle ==
    /\ pc = "settle"
    /\ results' = [results EXCEPT ![cur] = Returned]
    /\ files' = [f \in DOMAIN files |->
                   IF \E p \in Pkgs : bins[p] = f THEN NoFile ELSE files[f]]
    /\ bins' = NoBins
    /\ pc' = "idle"
    /\ UNCHANGED <<cur, staging, progress, argsRead, ctxDone, passed, spent,
                   expired, cut, builds>>

Cancel ==
    /\ ~ctxDone
    /\ ctxDone' = TRUE
    /\ UNCHANGED <<pc, cur, staging, binaries, progress, argsRead, history>>

Done == pc = "idle" /\ (cur = Len(Jobs) \/ ctxDone) /\ UNCHANGED vars

Test == \/ Begin \/ Unpatchable \/ WriteSource \/ WriteOverlay
        \/ Reuse \/ BuildFails \/ Build \/ ReadArgs
        \/ RunFails \/ RunEnds \/ RunPasses \/ Settle

Next == Test \/ OtherReadsArgs \/ Cancel \/ Done

(* Every subprocess ends: its deadline, or the build's ten minutes, kills  *)
(* its process group.                                                      *)
Spec == Init /\ [][Next]_vars /\ WF_vars(Test)

-----------------------------------------------------------------------------
(* Properties.  What a mutant's test left behind is still in the history   *)
(* while the worker is idle.                                               *)

Tested == pc = "idle" /\ cur # 0
Result == results[cur]

(* A mutant lives only if every suite that can kill it has passed in full  *)
(* with it in place: the covering tests are only its likeliest killers     *)
(* (worker.go:523, testmap.go:108).                                        *)
LivedPassedEverySuite ==
    Tested /\ Result.status = Lived =>
        \A p \in HasTests \cap (SuitePkgs(Jobs[cur].own) \cup {Jobs[cur].own}) :
            [pkg |-> p, part |-> "all"] \in passed

(* A binary that is run was built with the current mutant in place, never  *)
(* one an earlier mutant or a failed build left behind (worker.go:630).    *)
RunsOwnBinary ==
    pc \in {"args", "run"} => files[bins[Package]] = cur

(* A verdict never rests on a process that the cancel may have killed:     *)
(* such a mutant is given back untested (worker.go:546).                   *)
CancelGivesNoVerdict == Tested /\ cut => Result = NoResult

(* A mutant that runs out of time had its tests run for all of the         *)
(* deadline: builds take nothing from it, nor do the other packages of a   *)
(* re-check (worker.go:562, :599).                                         *)
TimedOutUsedItsDeadline ==
    expired => spent = IF rechecked THEN Global ELSE TimeoutFor(cur)

(* worker.go:546, :630: what the worker goes by is the current mutant's    *)
(* own.                                                                    *)
WorkerInv == TypeOK /\ RunsOwnBinary /\ CancelGivesNoVerdict
=============================================================================
