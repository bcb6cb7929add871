---------------------------- MODULE WorkerProofs ----------------------------
(***************************************************************************)
(* Proofs about Worker: its safety invariants, for any packages and import *)
(* graph, any mutants given one after another, any policy and any endings  *)
(* of the processes.                                                       *)
(***************************************************************************)
EXTENDS Worker, FiniteSetTheorems, SequenceTheorems, TLAPS

-----------------------------------------------------------------------------
(* The inductive invariant, part by part.                                  *)

AtWork == pc \in {"build", "args", "run"}

(* The runs runGroups was called for, now and before.                      *)
Again(n) == Recheck(n, Routed(n))
Asked    == IF rechecked THEN Again(cur) ELSE Routed(cur)
Deadline == IF rechecked THEN Global ELSE TimeoutFor(cur)

(* What is staged while the mutant is compiled and tested is the mutant.   *)
StagedIsCurrent ==
    /\ pc # "idle" => cur \in Mutants
    /\ pc \in {"overlay", "build", "args", "run"} => tmpSrc = cur
    /\ AtWork => overlay = cur

(* The numbered files in use are the first ones, hold the current mutant's *)
(* binaries, and belong to one package each; a package without a binary    *)
(* has no tests.                                                           *)
Built == {p \in Pkgs : bins[p] # Unbuilt}
Binaries ==
    /\ pc \in {"idle", "stage", "overlay"} => \A p \in Pkgs : bins[p] = Unbuilt
    /\ \A p \in Pkgs : bins[p] < NPkgs => bins[p] < NextFile /\ files[bins[p]] = cur
    /\ \A p \in Pkgs : bins[p] = NoBin => p \notin HasTests
    /\ pc \in {"args", "run"} => bins[Package] < NPkgs

(* What was asked for is still to do, has passed, or has no tests.         *)
Over(r) == r \in passed \/ r.pkg \notin HasTests
Progress ==
    /\ AtWork => /\ todo # << >>
                 /\ \A r \in Asked : Over(r) \/ \E k \in 1..Len(todo) : todo[k] = r
    /\ pc # "idle" /\ rechecked => \A r \in Routed(cur) : Over(r)
    /\ pc = "settle" /\ status = Lived =>
         \A r \in Routed(cur) \cup Again(cur) : Over(r)
    /\ pc \notin {"idle", "settle"} => status = Pending
    /\ pc \in {"stage", "overlay"} => ~rechecked

(* What the tests have taken and what is left make the deadline.           *)
Clock ==
    /\ AtWork => spent + left = Deadline
    /\ pc \notin {"idle", "settle"} => ~expired

(* A process is cut short by a cancel only.                                *)
Cuts ==
    /\ cut => ctxDone
    /\ pc \in {"stage", "overlay"} => ~cut

IInv ==
    /\ TypeOK /\ StagedIsCurrent /\ Binaries /\ Progress /\ Clock /\ Cuts
    /\ CancelGivesNoVerdict /\ LivedPassedEverySuite /\ TimedOutUsedItsDeadline

-----------------------------------------------------------------------------
(* What is run for a mutant, and in which order.                           *)

(* A mutant's record.                                                      *)
LEMMA JobTypes ==
    \A n \in Mutants : /\ Jobs[n].own \in Pkgs /\ Jobs[n].covered \subseteq Pkgs
                       /\ Jobs[n].sum \in Nat
  <1> DEFINE Job == [own : Pkgs, covered : SUBSET Pkgs, sum : Nat]
  <1>1. \A n \in Mutants : Jobs[n] \in Job
    <2> HIDE DEF Job
    <2> QED BY JobsAssumption, ElementOfSeq DEF Mutants, Job
  <1> QED BY <1>1

(* Each routed run is of its own package, and there is one.                *)
LEMMA RoutedShape ==
    ASSUME NEW n \in Mutants
    PROVE  \E S \in SUBSET Pkgs, x \in {"covering", "all"} :
             S # {} /\ Routed(n) = [pkg : S, part : {x}]
  <1>1. Jobs[n].own \in Pkgs /\ Jobs[n].covered \subseteq Pkgs
    BY JobTypes
  <1>2. CASE Jobs[n].covered # {}
    BY <1>1, <1>2 DEF Routed
  <1>3. CASE Jobs[n].covered = {}
    <2>1. Routed(n) = [pkg : {Jobs[n].own}, part : {"all"}]
      BY <1>3 DEF Routed
    <2> QED BY <1>1, <2>1
  <1> QED BY <1>2, <1>3

(* Each run of the re-check is of its own package, in full.                *)
LEMMA AgainShape ==
    ASSUME NEW n \in Mutants
    PROVE  \E S \in SUBSET Pkgs : Again(n) = [pkg : S, part : {"all"}]
  <1> DEFINE partly == {r.pkg : r \in {s \in Routed(n) : s.part = "covering"}}
             inFull == {r.pkg : r \in Routed(n)} \ partly
             S == partly \cup (SuitePkgs(Jobs[n].own) \ inFull)
  <1>1. \A r \in Routed(n) : r.pkg \in Pkgs
    <2>1. PICK R \in SUBSET Pkgs, x \in {"covering", "all"} : Routed(n) = [pkg : R, part : {x}]
      BY RoutedShape
    <2> QED BY <2>1
  <1>2. SuitePkgs(Jobs[n].own) \subseteq Pkgs
    BY PkgsAssumption DEF SuitePkgs
  <1>3. S \in SUBSET Pkgs
    BY <1>1, <1>2
  <1>4. Again(n) = [pkg : S, part : {"all"}]
    BY DEF Again, Recheck
  <1> HIDE DEF S
  <1> QED BY <1>3, <1>4

(* There are finitely many of them.                                        *)
LEMMA RunsFinite ==
    ASSUME NEW S \in SUBSET Pkgs, NEW x
    PROVE  IsFiniteSet([pkg : S, part : {x}])
  <1> DEFINE T == [pkg : S, part : {x}]
             f == [p \in S |-> [pkg |-> p, part |-> x]]
  <1>1. IsFiniteSet(S)
    <2>1. IsFiniteSet(Pkgs)
      BY FS_Interval, PkgsAssumption DEF Pkgs
    <2> QED BY <2>1, FS_Subset
  <1>2. f \in Surjection(S, T)
    BY DEF Surjection
  <1> HIDE DEF f, T
  <1> QED BY <1>1, <1>2, FS_Surjection DEF T

(* Ordering them loses none.                                               *)
LEMMA OwnFirstOrder ==
    ASSUME NEW own, NEW runs, IsFiniteSet(runs), runs \subseteq Runs,
           NEW o \in OwnFirst(own, runs)
    PROVE  /\ o \in Seq(Runs)
           /\ runs # {} => o # << >>
           /\ \A r \in runs : \E k \in 1..Len(o) : o[k] = r
  <1>1. Cardinality(runs) \in Nat
    BY FS_CardinalityType
  <1>2. o \in [1..Cardinality(runs) -> runs] /\ \A r \in runs : \E k \in DOMAIN o : o[k] = r
    BY DEF OwnFirst
  <1>3. o \in Seq(runs) /\ Len(o) = Cardinality(runs) /\ DOMAIN o = 1..Len(o)
    BY <1>1, <1>2
  <1>4. o \in Seq(Runs)
    BY <1>3
  <1>5. runs # {} => o # << >>
    BY <1>2, <1>3
  <1> QED BY <1>2, <1>3, <1>4, <1>5

(* What is left of a sequence.                                             *)
LEMMA HeadAndTail ==
    ASSUME NEW S, NEW s \in Seq(S), s # << >>
    PROVE  /\ Head(s) \in S /\ Tail(s) \in Seq(S)
           /\ \A k \in 1..Len(s) :
                s[k] = Head(s) \/ \E l \in 1..Len(Tail(s)) : Tail(s)[l] = s[k]
  <1>1. Len(s) \in Nat /\ Len(s) # 0
    BY EmptySeq
  <1>2. /\ Head(s) = s[1] /\ Tail(s) \in Seq(S) /\ Len(Tail(s)) = Len(s) - 1
        /\ \A k \in 1..Len(Tail(s)) : Tail(s)[k] = s[k + 1]
    BY <1>1
  <1>3. s[1] \in S
    BY <1>1, ElementOfSeq
  <1>4. ASSUME NEW k \in 1..Len(s), k # 1
        PROVE  k - 1 \in 1..Len(Tail(s)) /\ Tail(s)[k - 1] = s[k]
    BY <1>1, <1>2, <1>4
  <1> QED BY <1>2, <1>3, <1>4

(* A mutant's deadline is within the global ceiling.                       *)
LEMMA DeadlineType ==
    ASSUME NEW n \in Mutants
    PROVE  TimeoutFor(n) \in 0..Global
  BY JobTypes, PolicyAssumption DEF TimeoutFor

(* What passing everything that was asked for amounts to.                  *)
LEMMA EverySuite ==
    ASSUME NEW n \in Mutants, NEW p \in HasTests \cap (SuitePkgs(Jobs[n].own) \cup {Jobs[n].own})
    PROVE  [pkg |-> p, part |-> "all"] \in Routed(n) \cup Again(n)
  <1> DEFINE own == Jobs[n].own
             partly == {r.pkg : r \in {s \in Routed(n) : s.part = "covering"}}
             inFull == {r.pkg : r \in Routed(n)} \ partly
  <1>1. p \in Pkgs /\ own \in Pkgs
    BY JobTypes, PkgsAssumption
  <1>2. Again(n) = [pkg : partly \cup (SuitePkgs(own) \ inFull), part : {"all"}]
    BY DEF Again, Recheck
  <1>3. CASE Jobs[n].covered = {}
    <2>1. Routed(n) = [pkg : {own}, part : {"all"}]
      BY <1>3 DEF Routed
    <2>2. inFull \subseteq {own}
      BY <2>1
    <2>3. p = own \/ p \in SuitePkgs(own) \ inFull
      BY <2>2
    <2> HIDE DEF partly, inFull
    <2> QED BY <1>2, <2>1, <2>3
  <1>4. CASE Jobs[n].covered # {}
    <2>1. Routed(n) = [pkg : Jobs[n].covered, part : {"covering"}]
      BY <1>4 DEF Routed
    <2>2. inFull = {}
      BY <2>1
    <2>3. HasMap
      BY <1>4, JobsAssumption
    <2>4. p \in SuitePkgs(own)
      BY <2>3 DEF SuitePkgs
    <2> HIDE DEF partly, inFull
    <2> QED BY <1>2, <2>2, <2>4
  <1> QED BY <1>3, <1>4

(* The two ways runGroups is called, with the runs in order.               *)
LEMMA TodoOrder ==
    ASSUME NEW n \in Mutants, NEW o,
           \/ o \in OwnFirst(Jobs[n].own, Routed(n))
           \/ o \in OwnFirst(Jobs[n].own, Again(n)) /\ Again(n) # {}
    PROVE  /\ o \in Seq(Runs) /\ o # << >>
           /\ o \in OwnFirst(Jobs[n].own, Routed(n)) =>
                \A r \in Routed(n) : \E k \in 1..Len(o) : o[k] = r
           /\ o \in OwnFirst(Jobs[n].own, Again(n)) =>
                \A r \in Again(n) : \E k \in 1..Len(o) : o[k] = r
  <1>1. PICK R \in SUBSET Pkgs, x \in {"covering", "all"} :
          R # {} /\ Routed(n) = [pkg : R, part : {x}]
    BY RoutedShape
  <1>2. PICK S \in SUBSET Pkgs : Again(n) = [pkg : S, part : {"all"}]
    BY AgainShape
  <1>3. IsFiniteSet(Routed(n)) /\ Routed(n) \subseteq Runs /\ Routed(n) # {}
    <2>1. IsFiniteSet(Routed(n))
      BY <1>1, RunsFinite
    <2>2. Routed(n) \subseteq Runs
      BY <1>1 DEF Runs
    <2>3. PICK p \in R : TRUE
      BY <1>1
    <2>4. [pkg |-> p, part |-> x] \in Routed(n)
      BY <1>1, <2>3
    <2> QED BY <2>1, <2>2, <2>4
  <1>4. IsFiniteSet(Again(n)) /\ Again(n) \subseteq Runs
    <2>1. IsFiniteSet(Again(n))
      BY <1>2, RunsFinite
    <2> QED BY <1>2, <2>1 DEF Runs
  <1>5. o \in OwnFirst(Jobs[n].own, Routed(n)) =>
          o \in Seq(Runs) /\ o # << >> /\ \A r \in Routed(n) : \E k \in 1..Len(o) : o[k] = r
    BY <1>3, OwnFirstOrder
  <1>6. o \in OwnFirst(Jobs[n].own, Again(n)) =>
          /\ o \in Seq(Runs) /\ (Again(n) # {} => o # << >>)
          /\ \A r \in Again(n) : \E k \in 1..Len(o) : o[k] = r
    BY <1>4, OwnFirstOrder
  <1> QED BY <1>5, <1>6

-----------------------------------------------------------------------------
(* Outcomes.                                                               *)

(* A build that failed never reads as a success, and every reading of a    *)
(* process is a status.                                                    *)
LEMMA OutcomeTypes ==
    /\ \A o \in Observations : TestOutcome(o) \in Statuses
    /\ \A o \in Observations : o.err => BuildOutcome(o) \in Statuses \ {Lived}
    /\ \A b \in BOOLEAN : SetupErrorStatus(b) \in {InfraError, NotViable}
    /\ {InfraError, NotViable, TimedOut, Pending} \subseteq Statuses \ {Lived}
  <1>1. {InfraError, NotViable, TimedOut, Pending, Killed} \subseteq Statuses \ {Lived}
        /\ Lived \in Statuses
    BY DEF Statuses, Pending, Killed, Lived, NotCovered, NotViable, TimedOut, Equivalent, InfraError
  <1>2. ASSUME NEW o \in Observations
        PROVE  TestOutcome(o) \in Statuses /\ (o.err => BuildOutcome(o) \in Statuses \ {Lived})
    <2>1. /\ o.err \in BOOLEAN /\ o.mem \in BOOLEAN /\ o.deadline \in BOOLEAN
          /\ o.compile \in BOOLEAN
      BY DEF Observations
    <2>2. TestOutcome(o) \in {TimedOut, Lived, InfraError, Killed}
      BY <2>1 DEF TestOutcome
    <2>3. o.err => BuildOutcome(o) \in {InfraError, TimedOut, NotViable, Killed}
      BY <2>1 DEF BuildOutcome
    <2> QED BY <1>1, <2>2, <2>3
  <1>3. \A b \in BOOLEAN : SetupErrorStatus(b) \in {InfraError, NotViable}
    BY DEF SetupErrorStatus
  <1> QED BY <1>1, <1>2, <1>3

(* What a process may end with is an observation.                          *)
LEMMA EndsAreObservations ==
    Ends(TestEndings) \subseteq Observations /\ Ends(BuildEndings) \subseteq Observations
  BY EndingsAssumption DEF Ends

-----------------------------------------------------------------------------
(* The initial state.                                                      *)

LEMMA InitInv == Init => IInv
  <1> SUFFICES ASSUME Init PROVE IInv
    OBVIOUS
  <1>1. Pending \in Statuses /\ Pending # Lived
    BY OutcomeTypes
  <1>2. NPkgs \in Nat \ {0} /\ Len(Jobs) \in Nat /\ Global \in Nat
    BY PkgsAssumption, JobsAssumption, PolicyAssumption
  <1>3. TypeOK
    <2>1. bins \in [Pkgs -> 0..(NPkgs + 1)]
      BY <1>2 DEF Init, Unbuilt
    <2>2. files \in [0..(NPkgs - 1) -> Mutants \cup {None, NoFile}]
      BY DEF Init
    <2>3. results \in [Mutants -> [status : Statuses, rechecked : BOOLEAN]]
      BY <1>1 DEF Init, NoResult
    <2>4. cur \in 0..Len(Jobs) /\ left \in 0..Global /\ spent \in 0..Global
      BY <1>2 DEF Init
    <2>5. builds \in [Pkgs -> Nat]
      BY DEF Init
    <2>6. todo \in Seq(Runs) /\ passed \subseteq Runs
      BY DEF Init
    <2>7. pc = "idle" /\ tmpSrc = None /\ overlay = None /\ status = Pending
          /\ rechecked = FALSE /\ argsRead = FALSE /\ ctxDone = FALSE
          /\ expired = FALSE /\ cut = FALSE
      BY DEF Init
    <2> QED BY <1>1, <2>1, <2>2, <2>3, <2>4, <2>5, <2>6, <2>7 DEF TypeOK
  <1>4. StagedIsCurrent /\ Progress /\ Clock /\ Cuts
    BY DEF Init, StagedIsCurrent, Progress, Clock, Cuts, AtWork
  <1>5. Binaries
    BY <1>2 DEF Init, Binaries, Unbuilt, NoBin
  <1>6. CancelGivesNoVerdict /\ LivedPassedEverySuite /\ TimedOutUsedItsDeadline
    BY DEF Init, Tested, CancelGivesNoVerdict, LivedPassedEverySuite, TimedOutUsedItsDeadline
  <1> QED BY <1>3, <1>4, <1>5, <1>6 DEF IInv

-----------------------------------------------------------------------------
(* Staging.                                                                *)

(* The next mutant.                                                        *)
LEMMA BeginStep ==
    ASSUME IInv, Begin
    PROVE  IInv'
  <1>1. /\ pc = "idle" /\ cur < Len(Jobs) /\ cur' = cur + 1 /\ pc' = "stage"
        /\ passed' = {} /\ expired' = FALSE /\ cut' = FALSE
        /\ builds' = [p \in Pkgs |-> 0] /\ rechecked' = FALSE /\ status' = Pending
        /\ UNCHANGED <<staging, files, bins, todo, left, argsRead, ctxDone, results, spent>>
    BY DEF Begin
  <1>2. TypeOK /\ Binaries
    BY DEF IInv
  <1>3. cur' \in Mutants
    BY <1>1, <1>2, JobsAssumption DEF TypeOK, Mutants
  <1>4. TypeOK'
    <2>1. cur' \in 0..Len(Jobs) /\ status' \in Statuses
      BY <1>1, <1>3, OutcomeTypes, JobsAssumption DEF Mutants
    <2>2. builds' \in [Pkgs -> Nat]
      BY <1>1
    <2> QED BY <1>1, <1>2, <2>1, <2>2 DEF TypeOK, staging
  <1>5. StagedIsCurrent' /\ Progress' /\ Clock' /\ Cuts'
    BY <1>1, <1>3 DEF StagedIsCurrent, Progress, Clock, Cuts, AtWork
  <1>6. Binaries'
    <2>1. \A p \in Pkgs : bins[p] = Unbuilt
      BY <1>1, <1>2 DEF Binaries
    <2> QED BY <1>1, <2>1, PkgsAssumption DEF Binaries, Unbuilt, NoBin
  <1>7. CancelGivesNoVerdict' /\ LivedPassedEverySuite' /\ TimedOutUsedItsDeadline'
    BY <1>1 DEF Tested, CancelGivesNoVerdict, LivedPassedEverySuite, TimedOutUsedItsDeadline
  <1> QED BY <1>4, <1>5, <1>6, <1>7 DEF IInv

(* Test returns before it has built anything.                              *)
LEMMA EarlyStep ==
    ASSUME IInv, pc \in {"stage", "overlay"},
           NEW s \in {NotViable, InfraError}, ReturnEarly(s),
           tmpSrc' \in Mutants \cup {None}, overlay' \in Mutants \cup {None}
    PROVE  IInv'
  <1>1. /\ pc' = "idle"
        /\ results' = [results EXCEPT ![cur] = [status |-> s, rechecked |-> FALSE]]
        /\ UNCHANGED <<cur, binaries, progress, argsRead, ctxDone, passed, spent, expired, cut>>
    BY DEF ReturnEarly
  <1>2. TypeOK /\ Binaries /\ Cuts /\ Clock /\ cur \in Mutants
    BY DEF IInv, StagedIsCurrent
  <1>3. s \in Statuses \ {Lived}
    BY OutcomeTypes
  <1>4. results'[cur].status # Lived
    BY <1>1, <1>2, <1>3 DEF TypeOK
  <1>5. TypeOK'
    BY <1>1, <1>2, <1>3 DEF TypeOK, binaries, progress
  <1>6. StagedIsCurrent' /\ Progress' /\ Clock' /\ Cuts'
    <2>1. ~rechecked /\ status = Pending
      BY DEF IInv, Progress
    <2> QED BY <1>1, <1>2, <2>1
            DEF StagedIsCurrent, Progress, Clock, Cuts, AtWork, progress
  <1>7. Binaries'
    <2>1. \A p \in Pkgs : bins[p] = Unbuilt
      BY <1>2 DEF Binaries
    <2> QED BY <1>1, <2>1, PkgsAssumption DEF Binaries, Unbuilt, NoBin, binaries
  <1>8. ~cut /\ ~expired
    BY <1>2 DEF Cuts, Clock
  <1>9. CancelGivesNoVerdict' /\ LivedPassedEverySuite' /\ TimedOutUsedItsDeadline'
    BY <1>1, <1>4, <1>8
    DEF Tested, Result, CancelGivesNoVerdict, LivedPassedEverySuite, TimedOutUsedItsDeadline
  <1> QED BY <1>5, <1>6, <1>7, <1>9 DEF IInv

(* The file is unknown, or the patch does not apply.                       *)
LEMMA UnpatchableStep ==
    ASSUME IInv, Unpatchable
    PROVE  IInv'
  <1>1. pc = "stage" /\ ReturnEarly(NotViable) /\ UNCHANGED <<tmpSrc, overlay>>
    BY DEF Unpatchable, staging
  <1>2. tmpSrc \in Mutants \cup {None} /\ overlay \in Mutants \cup {None}
    BY DEF IInv, TypeOK
  <1> QED BY <1>1, <1>2, EarlyStep

(* The patched source is written, or not.                                  *)
LEMMA WriteSourceStep ==
    ASSUME IInv, WriteSource
    PROVE  IInv'
  <1>1. pc = "stage" /\ overlay' = overlay
    BY DEF WriteSource
  <1>2. TypeOK /\ Binaries /\ cur \in Mutants
    BY <1>1 DEF IInv, StagedIsCurrent
  <1>3. CASE tmpSrc' = None /\ \E b \in BOOLEAN : ReturnEarly(SetupErrorStatus(b))
    <2>1. PICK b \in BOOLEAN : ReturnEarly(SetupErrorStatus(b))
      BY <1>3
    <2>2. SetupErrorStatus(b) \in {NotViable, InfraError}
      BY OutcomeTypes
    <2>3. tmpSrc' \in Mutants \cup {None} /\ overlay' \in Mutants \cup {None}
      BY <1>1, <1>2, <1>3 DEF TypeOK
    <2> QED BY <1>1, <2>1, <2>2, <2>3, EarlyStep
  <1>4. CASE /\ tmpSrc' = cur /\ pc' = "overlay"
             /\ UNCHANGED <<cur, binaries, progress, argsRead, ctxDone, history>>
    <2>1. TypeOK'
      BY <1>1, <1>2, <1>4 DEF TypeOK, binaries, progress, history
    <2>2. StagedIsCurrent' /\ Progress' /\ Clock' /\ Cuts'
      BY <1>1, <1>2, <1>4
      DEF IInv, StagedIsCurrent, Progress, Clock, Cuts, AtWork, progress, history
    <2>3. Binaries'
      <3>1. \A p \in Pkgs : bins[p] = Unbuilt
        BY <1>1, <1>2 DEF Binaries
      <3> QED BY <1>4, <3>1, PkgsAssumption DEF Binaries, Unbuilt, NoBin, binaries
    <2>4. CancelGivesNoVerdict' /\ LivedPassedEverySuite' /\ TimedOutUsedItsDeadline'
      BY <1>1, <1>4
      DEF IInv, Clock, Tested, CancelGivesNoVerdict, LivedPassedEverySuite,
          TimedOutUsedItsDeadline, history
    <2> QED BY <2>1, <2>2, <2>3, <2>4 DEF IInv
  <1> QED BY <1>3, <1>4 DEF WriteSource

(* The overlay is written and the routed runs begin, or not.               *)
LEMMA WriteOverlayStep ==
    ASSUME IInv, WriteOverlay
    PROVE  IInv'
  <1>1. pc = "overlay" /\ tmpSrc' = tmpSrc
    BY DEF WriteOverlay
  <1>2. TypeOK /\ Binaries /\ cur \in Mutants /\ tmpSrc = cur
    BY <1>1 DEF IInv, StagedIsCurrent
  <1>3. CASE overlay' = None /\ \E b \in BOOLEAN : ReturnEarly(SetupErrorStatus(b))
    <2>1. PICK b \in BOOLEAN : ReturnEarly(SetupErrorStatus(b))
      BY <1>3
    <2>2. SetupErrorStatus(b) \in {NotViable, InfraError}
      BY OutcomeTypes
    <2>3. tmpSrc' \in Mutants \cup {None} /\ overlay' \in Mutants \cup {None}
      BY <1>1, <1>2, <1>3 DEF TypeOK
    <2> QED BY <1>1, <2>1, <2>2, <2>3, EarlyStep
  <1>4. CASE /\ overlay' = cur /\ pc' = "build"
             /\ todo' \in OwnFirst(Jobs[cur].own, Routed(cur))
             /\ left' = TimeoutFor(cur) /\ spent' = 0
             /\ UNCHANGED <<cur, binaries, rechecked, status, argsRead, ctxDone, results,
                            passed, expired, cut>>
    <2>1. todo' \in Seq(Runs) /\ todo' # << >>
          /\ \A r \in Routed(cur) : \E k \in 1..Len(todo') : todo'[k] = r
      BY <1>2, <1>4, TodoOrder
    <2>2. TimeoutFor(cur) \in 0..Global /\ Global \in Nat
      BY <1>2, DeadlineType, PolicyAssumption
    <2>3. ~rechecked /\ status = Pending /\ ~expired /\ ~cut
      BY <1>1 DEF IInv, Progress, Clock, Cuts
    <2>4. TypeOK'
      BY <1>1, <1>2, <1>4, <2>1, <2>2 DEF TypeOK, binaries
    <2>5. StagedIsCurrent' /\ Clock' /\ Cuts'
      <3>1. Deadline' = TimeoutFor(cur)
        BY <1>4, <2>3 DEF Deadline
      <3> QED BY <1>1, <1>2, <1>4, <2>2, <2>3, <3>1 DEF StagedIsCurrent, Clock, Cuts, AtWork
    <2>6. Progress'
      BY <1>4, <2>1, <2>3 DEF Progress, AtWork, Asked
    <2>7. Binaries'
      <3>1. \A p \in Pkgs : bins[p] = Unbuilt
        BY <1>1, <1>2 DEF Binaries
      <3> QED BY <1>4, <3>1, PkgsAssumption DEF Binaries, Unbuilt, NoBin, binaries
    <2>8. CancelGivesNoVerdict' /\ LivedPassedEverySuite' /\ TimedOutUsedItsDeadline'
      BY <1>1, <1>4, <2>3
      DEF Tested, CancelGivesNoVerdict, LivedPassedEverySuite, TimedOutUsedItsDeadline
    <2> QED BY <2>4, <2>5, <2>6, <2>7, <2>8 DEF IInv
  <1> QED BY <1>3, <1>4 DEF WriteOverlay

-----------------------------------------------------------------------------
(* The runs.                                                               *)

(* There is a package to go on with.                                       *)
LEMMA WorkPackage ==
    ASSUME IInv, AtWork
    PROVE  /\ pc # "idle" /\ cur \in Mutants
           /\ todo \in Seq(Runs) /\ todo # << >> /\ Head(todo) \in Runs /\ Package \in Pkgs
           /\ ~rechecked => Deadline = TimeoutFor(cur)
           /\ rechecked => Deadline = Global
           /\ left \in 0..Deadline /\ spent \in 0..Deadline /\ spent + left = Deadline
           /\ Deadline \in 0..Global /\ Global \in Nat
  <1>1. pc # "idle" /\ cur \in Mutants /\ todo \in Seq(Runs) /\ todo # << >>
    BY DEF AtWork, IInv, StagedIsCurrent, TypeOK, Progress
  <1>2. Head(todo) \in Runs
    BY <1>1, HeadAndTail
  <1>3. Package \in Pkgs
    BY <1>2 DEF Package, Runs
  <1>4. /\ ~rechecked => Deadline = TimeoutFor(cur)
        /\ rechecked => Deadline = Global
    BY DEF Deadline
  <1>5. Deadline \in 0..Global /\ Global \in Nat
    BY <1>1, <1>4, DeadlineType, PolicyAssumption
  <1>6. left \in 0..Global /\ spent \in 0..Global /\ spent + left = Deadline
    BY DEF IInv, TypeOK, Clock
  <1> QED BY <1>1, <1>2, <1>3, <1>4, <1>5, <1>6

(* A file number that is free is one of the numbers.                       *)
LEMMA NextFileType ==
    ASSUME TypeOK, NEW p \in Pkgs, bins[p] = Unbuilt
    PROVE  NextFile \in 0..(NPkgs - 1) /\ IsFiniteSet(Built) /\ NextFile = Cardinality(Built)
  <1>1. NPkgs \in Nat /\ NPkgs \in Int /\ 1 \in Int
    BY PkgsAssumption
  <1>2. IsFiniteSet(Pkgs) /\ Cardinality(Pkgs) = NPkgs
    BY <1>1, FS_Interval, PkgsAssumption DEF Pkgs
  <1>3. IsFiniteSet(Pkgs \ {p}) /\ Cardinality(Pkgs \ {p}) = NPkgs - 1
    BY <1>2, FS_RemoveElement
  <1>4. Built \in SUBSET (Pkgs \ {p})
    BY DEF Built
  <1>5. IsFiniteSet(Built) /\ Cardinality(Built) <= NPkgs - 1
    BY <1>3, <1>4, FS_Subset
  <1>6. Cardinality(Built) \in Nat
    BY <1>5, FS_CardinalityType
  <1> QED BY <1>1, <1>5, <1>6 DEF NextFile, Built

(* The mutant's run ends with another outcome than Lived.                  *)
LEMMA EndStep ==
    ASSUME IInv, AtWork, pc' = "settle", status' \in Statuses \ {Lived},
           cut' = (cut \/ ctxDone),
           UNCHANGED <<cur, staging, bins, todo, left, rechecked, ctxDone, results, passed>>,
           files' \in [0..(NPkgs - 1) -> Mutants \cup {None, NoFile}],
           \A p \in Pkgs : bins[p] < NPkgs => files'[bins[p]] = files[bins[p]],
           builds' \in [Pkgs -> Nat], argsRead' \in BOOLEAN, expired' \in BOOLEAN,
           spent' \in 0..Global, expired' => spent' = Deadline
    PROVE  IInv'
  <1>1. TypeOK /\ cur \in Mutants /\ pc # "idle"
    BY WorkPackage DEF IInv
  <1>2. TypeOK'
    BY <1>1 DEF TypeOK, staging
  <1>3. StagedIsCurrent' /\ Clock' /\ Cuts'
    BY <1>1 DEF IInv, Cuts, StagedIsCurrent, Clock, AtWork
  <1>4. Progress'
    BY <1>1 DEF IInv, Progress, AtWork, Over, Again, Routed
  <1>5. Binaries'
    <2>1. NextFile' = NextFile
      BY DEF NextFile
    <2> QED BY <2>1 DEF IInv, Binaries
  <1>6. CancelGivesNoVerdict' /\ LivedPassedEverySuite'
    BY DEF Tested, CancelGivesNoVerdict, LivedPassedEverySuite
  <1>7. TimedOutUsedItsDeadline'
    BY DEF TimedOutUsedItsDeadline, Deadline
  <1> QED BY <1>2, <1>3, <1>4, <1>5, <1>6, <1>7 DEF IInv

(* A package is done, its tests passed or it has none.                     *)
LEMMA PassOnStep ==
    ASSUME IInv, AtWork, NEW ran \in 0..left, PassOn(ran),
           passed \subseteq passed', passed' \subseteq Runs,
           Head(todo) \in passed' \/ Package \notin HasTests,
           UNCHANGED <<cur, staging, binaries, argsRead, ctxDone, results, expired, cut>>
    PROVE  IInv'
  <1> DEFINE rest == Tail(todo)
             again == Again(cur)
  <1>1. TypeOK /\ cur \in Mutants /\ pc # "idle" /\ Global \in Nat
    BY WorkPackage DEF IInv
  <1>2. /\ todo \in Seq(Runs) /\ todo # << >> /\ Head(todo) \in Runs /\ rest \in Seq(Runs)
        /\ \A k \in 1..Len(todo) : todo[k] = Head(todo) \/ \E l \in 1..Len(rest) : rest[l] = todo[k]
    BY <1>1, WorkPackage, HeadAndTail
  <1>3. /\ \A r : Over(r) => Over(r)'
        /\ \A r : r = Head(todo) => Over(r)'
    BY <1>2 DEF Over, Package
  <1>4. /\ status = Pending /\ ~expired
        /\ \A r \in Asked : Over(r) \/ \E k \in 1..Len(todo) : todo[k] = r
        /\ rechecked => \A r \in Routed(cur) : Over(r)
    BY <1>1 DEF IInv, Progress, AtWork, Clock
  <1>5. \A r \in Asked : Over(r)' \/ \E l \in 1..Len(rest) : rest[l] = r
    BY <1>2, <1>3, <1>4
  <1>6. /\ left \in 0..Deadline /\ spent \in 0..Deadline /\ spent + left = Deadline
        /\ Deadline \in 0..Global /\ (rechecked => Deadline = Global)
        /\ left - ran \in 0..Deadline /\ spent + ran \in 0..Deadline
        /\ (spent + ran) + (left - ran) = Deadline
    <2>1. /\ left \in 0..Deadline /\ spent \in 0..Deadline /\ spent + left = Deadline
          /\ Deadline \in 0..Global /\ (rechecked => Deadline = Global)
      BY WorkPackage
    <2>2. Deadline \in Nat /\ left \in Nat /\ spent \in Nat /\ ran \in Nat /\ ran <= left
      BY <1>1, <2>1
    <2> HIDE DEF Deadline
    <2> QED BY <2>1, <2>2
  <1>7. Routed(cur)' = Routed(cur) /\ Again(cur)' = Again(cur) /\ TimeoutFor(cur)' = TimeoutFor(cur)
    BY DEF Routed, Again, Recheck, TimeoutFor
  <1>8. Binaries'
    <2>1. NextFile' = NextFile /\ UNCHANGED <<files, bins, cur>>
      BY DEF NextFile, binaries
    <2>2. pc' \notin {"idle", "stage", "overlay", "args", "run"}
      BY DEF PassOn
    <2> QED BY <2>1, <2>2 DEF IInv, Binaries
  <1>9. CancelGivesNoVerdict' /\ LivedPassedEverySuite' /\ TimedOutUsedItsDeadline'
    <2>1. pc' # "idle" /\ ~expired'
      BY <1>4 DEF PassOn
    <2> QED BY <2>1 DEF Tested, CancelGivesNoVerdict, LivedPassedEverySuite, TimedOutUsedItsDeadline
  <1>10. StagedIsCurrent' /\ Cuts'
    <2>1. pc' \in {"build", "settle"}
      BY DEF PassOn
    <2> QED BY <1>1, <2>1 DEF IInv, StagedIsCurrent, Cuts, AtWork, staging
  <1>11. CASE /\ rest # << >>
              /\ todo' = rest /\ pc' = "build"
              /\ left' = DeadlineOfNext(Charge(left, ran))
              /\ spent' = IF rechecked THEN 0 ELSE spent + ran
              /\ UNCHANGED <<rechecked, status>>
    <2>1. Deadline' = Deadline /\ Asked' = Asked
      BY <1>7, <1>11 DEF Deadline, Asked
    <2>2. left' \in 0..Global /\ spent' \in 0..Global /\ spent' + left' = Deadline
      <3> HIDE DEF Deadline
      <3>1. CASE rechecked
        BY <1>1, <1>6, <1>11, <3>1 DEF DeadlineOfNext, Charge
      <3>2. CASE ~rechecked
        BY <1>1, <1>6, <1>11, <3>2 DEF DeadlineOfNext, Charge
      <3> QED BY <3>1, <3>2
    <2>3. TypeOK'
      BY <1>1, <1>2, <1>11, <2>2 DEF TypeOK, staging, binaries
    <2>4. Progress'
      BY <1>3, <1>4, <1>5, <1>7, <1>11, <2>1 DEF Progress, AtWork
    <2>5. Clock'
      BY <1>4, <1>11, <2>1, <2>2 DEF Clock
    <2> QED BY <1>8, <1>9, <1>10, <2>3, <2>4, <2>5 DEF IInv
  <1>12. CASE /\ rest = << >> /\ ~rechecked /\ again # {}
              /\ todo' \in OwnFirst(Jobs[cur].own, again) /\ pc' = "build"
              /\ rechecked' = TRUE /\ left' = Global /\ spent' = 0
              /\ UNCHANGED status
    <2>1. Deadline' = Global /\ Asked' = again
      BY <1>7, <1>12 DEF Deadline, Asked
    <2>2. todo' \in Seq(Runs) /\ todo' # << >> /\ \A r \in again : \E k \in 1..Len(todo') : todo'[k] = r
      BY <1>1, <1>12, TodoOrder
    <2>3. TypeOK'
      BY <1>1, <1>12, <2>2 DEF TypeOK, staging, binaries
    <2>4. \A r \in Routed(cur) : Over(r)'
      <3>1. Asked = Routed(cur)
        BY <1>12 DEF Asked
      <3>2. \A l \in 1..Len(rest) : FALSE
        <4>1. rest = << >>
          BY <1>12
        <4> HIDE DEF rest
        <4> QED BY <4>1
      <3> QED BY <1>5, <3>1, <3>2
    <2>5. Progress'
      BY <1>4, <1>7, <1>12, <2>1, <2>2, <2>4 DEF Progress, AtWork
    <2>6. Clock'
      BY <1>1, <1>4, <1>12, <2>1 DEF Clock
    <2> QED BY <1>8, <1>9, <1>10, <2>3, <2>5, <2>6 DEF IInv
  <1>13. CASE /\ rest = << >> /\ (rechecked \/ again = {})
              /\ todo' = << >> /\ pc' = "settle" /\ status' = Lived
              /\ left' = Charge(left, ran) /\ spent' = spent + ran
              /\ UNCHANGED rechecked
    <2>1. left' \in 0..Global /\ spent' \in 0..Global
      <3> HIDE DEF Deadline
      <3> QED BY <1>1, <1>6, <1>13 DEF Charge
    <2>2. TypeOK'
      BY <1>1, <1>13, <2>1, OutcomeTypes DEF TypeOK, staging, binaries, Statuses
    <2>3. \A r \in Routed(cur) \cup again : Over(r)'
      <3>1. \A l \in 1..Len(rest) : FALSE
        <4>1. rest = << >>
          BY <1>13
        <4> HIDE DEF rest
        <4> QED BY <4>1
      <3>2. \A r \in Asked : Over(r)'
        BY <1>5, <3>1
      <3>3. CASE rechecked
        BY <1>3, <1>4, <3>2, <3>3 DEF Asked
      <3>4. CASE ~rechecked
        BY <1>13, <3>2, <3>4 DEF Asked
      <3> QED BY <3>3, <3>4
    <2>4. Progress'
      BY <1>7, <1>13, <2>3 DEF Progress, AtWork
    <2>5. Clock'
      BY <1>13 DEF Clock, AtWork
    <2> QED BY <1>8, <1>9, <1>10, <2>2, <2>4, <2>5 DEF IInv
  <1> QED BY <1>11, <1>12, <1>13 DEF PassOn, Again

(* A step inside a package's run that charges nothing and ends nothing.    *)
LEMMA InsideRun ==
    ASSUME IInv, AtWork, pc' \in {"build", "args", "run"},
           UNCHANGED <<cur, staging, progress, ctxDone, history>>,
           argsRead' \in BOOLEAN,
           files' \in [0..(NPkgs - 1) -> Mutants \cup {None, NoFile}],
           bins' \in [Pkgs -> 0..(NPkgs + 1)], builds' \in [Pkgs -> Nat],
           Binaries'
    PROVE  IInv'
  <1>1. TypeOK'
    BY DEF IInv, TypeOK, staging, progress, history
  <1>2. StagedIsCurrent' /\ Clock' /\ Cuts'
    <2>1. Deadline' = Deadline
      BY DEF Deadline, progress, TimeoutFor
    <2> HIDE DEF Deadline
    <2> QED BY <2>1
            DEF IInv, StagedIsCurrent, Clock, Cuts, AtWork, staging, progress, history
  <1>3. Progress'
    BY DEF IInv, Progress, AtWork, Asked, Over, Again, Recheck, Routed, progress, history
  <1>4. CancelGivesNoVerdict' /\ LivedPassedEverySuite' /\ TimedOutUsedItsDeadline'
    <2>1. ~expired /\ UNCHANGED expired
      BY DEF IInv, Clock, AtWork, history
    <2> QED BY <2>1
            DEF Tested, CancelGivesNoVerdict, LivedPassedEverySuite, TimedOutUsedItsDeadline
  <1> QED BY <1>1, <1>2, <1>3, <1>4 DEF IInv

(* The binary is there, or is known not to be.                             *)
LEMMA ReuseStep ==
    ASSUME IInv, Reuse
    PROVE  IInv'
  <1>1. AtWork /\ pc = "build" /\ bins[Package] # Unbuilt /\ Package \in Pkgs
    BY WorkPackage DEF Reuse, AtWork
  <1>2. CASE bins[Package] = NoBin /\ PassOn(0) /\ UNCHANGED <<passed, expired, cut>>
    <2>1. Package \notin HasTests
      BY <1>1, <1>2 DEF IInv, Binaries
    <2>2. 0 \in 0..left
      BY <1>1, WorkPackage DEF IInv, TypeOK
    <2>3. passed \subseteq passed' /\ passed' \subseteq Runs
      BY <1>2 DEF IInv, TypeOK
    <2> QED BY <1>1, <1>2, <2>1, <2>2, <2>3, PassOnStep DEF Reuse
  <1>3. CASE /\ bins[Package] # NoBin
             /\ pc' = "args"
             /\ UNCHANGED <<progress, passed, spent, expired, cut>>
    <2>1. UNCHANGED <<cur, staging, binaries, argsRead, ctxDone, results>>
      BY DEF Reuse
    <2>2. bins[Package] < NPkgs
      <3>1. bins[Package] \in 0..(NPkgs + 1)
        BY <1>1 DEF IInv, TypeOK
      <3> QED BY <1>1, <1>3, <3>1, PkgsAssumption DEF NoBin, Unbuilt
    <2>3. Package' = Package /\ NextFile' = NextFile /\ UNCHANGED <<files, bins>>
      BY <1>3, <2>1 DEF Package, NextFile, binaries, progress
    <2>4. Binaries'
      BY <1>1, <1>3, <2>1, <2>2, <2>3 DEF IInv, Binaries
    <2>5. files \in [0..(NPkgs - 1) -> Mutants \cup {None, NoFile}]
          /\ bins \in [Pkgs -> 0..(NPkgs + 1)] /\ builds \in [Pkgs -> Nat] /\ argsRead \in BOOLEAN
      BY DEF IInv, TypeOK
    <2>6. files' \in [0..(NPkgs - 1) -> Mutants \cup {None, NoFile}]
          /\ bins' \in [Pkgs -> 0..(NPkgs + 1)] /\ builds' \in [Pkgs -> Nat] /\ argsRead' \in BOOLEAN
      BY <2>1, <2>5 DEF binaries
    <2>7. UNCHANGED <<cur, staging, progress, ctxDone, history>>
      BY <1>3, <2>1 DEF history
    <2>8. pc' \in {"build", "args", "run"}
      BY <1>3
    <2> QED BY <1>1, <2>4, <2>6, <2>7, <2>8, InsideRun
  <1> QED BY <1>2, <1>3 DEF Reuse

(* The build does not start, or fails, and may leave its file.             *)
LEMMA BuildFailsStep ==
    ASSUME IInv, BuildFails
    PROVE  IInv'
  <1>1. AtWork /\ pc = "build" /\ bins[Package] = Unbuilt /\ Package \in Pkgs /\ TypeOK
    BY WorkPackage DEF BuildFails, AtWork, IInv
  <1>2. NextFile \in 0..(NPkgs - 1)
    BY <1>1, NextFileType
  <1>3. \E written \in {NoFile, Staged} : files' = [files EXCEPT ![NextFile] = written]
    <2>1. CASE files' = Cleared
      BY <2>1 DEF Cleared
    <2>2. CASE \E written \in {NoFile, Staged} : files' = [Cleared EXCEPT ![NextFile] = written]
      <3>1. files \in [0..(NPkgs - 1) -> Mutants \cup {None, NoFile}]
        BY <1>1 DEF TypeOK
      <3> QED BY <1>2, <2>2, <3>1 DEF Cleared
    <2> QED BY <2>1, <2>2 DEF BuildFails
  <1>4. Staged \in Mutants \cup {None}
    BY <1>1 DEF Staged, TypeOK
  <1>5. files' \in [0..(NPkgs - 1) -> Mutants \cup {None, NoFile}]
        /\ \A f \in 0..(NPkgs - 1) : f # NextFile => files'[f] = files[f]
    BY <1>1, <1>2, <1>3, <1>4 DEF TypeOK
  <1>6. \A p \in Pkgs : bins[p] < NPkgs => files'[bins[p]] = files[bins[p]]
    <2>1. \A p \in Pkgs : bins[p] < NPkgs => bins[p] < NextFile /\ bins[p] \in 0..(NPkgs - 1)
      BY <1>1, PkgsAssumption DEF IInv, Binaries, TypeOK
    <2> QED BY <1>2, <1>5, <2>1
  <1>7. \E s \in Statuses \ {Lived} : End(s)
    <2>1. CASE StartFails
      BY <2>1, OutcomeTypes DEF StartFails
    <2>2. CASE \E o \in Ends(BuildEndings) : o.err /\ End(BuildOutcome(o))
      BY <2>2, OutcomeTypes, EndsAreObservations
    <2> QED BY <2>1, <2>2 DEF BuildFails
  <1>8. builds' \in [Pkgs -> Nat]
    BY <1>1 DEF BuildFails, TypeOK
  <1>9. /\ UNCHANGED <<cur, staging, bins, argsRead, ctxDone, results, expired>>
        /\ ~expired /\ argsRead \in BOOLEAN /\ spent \in 0..Global
    BY <1>1 DEF BuildFails, IInv, Clock, TypeOK
  <1>10. /\ pc' = "settle" /\ status' \in Statuses \ {Lived} /\ cut' = (cut \/ ctxDone)
         /\ UNCHANGED <<todo, left, rechecked, spent, passed>>
    BY <1>7 DEF End
  <1>11. /\ UNCHANGED <<cur, staging, bins, todo, left, rechecked, ctxDone, results, passed>>
         /\ argsRead' \in BOOLEAN /\ expired' \in BOOLEAN /\ ~expired' /\ spent' \in 0..Global
    BY <1>1, <1>9, <1>10 DEF TypeOK
  <1> QED BY <1>1, <1>5, <1>6, <1>8, <1>10, <1>11, EndStep

(* The build succeeds.                                                     *)
LEMMA BuildStep ==
    ASSUME IInv, Build
    PROVE  IInv'
  <1> DEFINE q == Package
             new == IF files'[NextFile] = NoFile THEN NoBin ELSE NextFile
  <1>1. AtWork /\ pc = "build" /\ bins[q] = Unbuilt /\ q \in Pkgs /\ TypeOK /\ cur \in Mutants
    BY WorkPackage DEF Build, AtWork, IInv
  <1>2. NextFile \in 0..(NPkgs - 1) /\ IsFiniteSet(Built) /\ NextFile = Cardinality(Built)
    BY <1>1, NextFileType
  <1>3. /\ files' = IF q \in HasTests THEN [Cleared EXCEPT ![NextFile] = Staged] ELSE Cleared
        /\ bins' = [bins EXCEPT ![q] = new]
        /\ UNCHANGED <<pc, cur, staging, progress, argsRead, ctxDone, history>>
    BY DEF Build
  <1>4. Staged = cur /\ cur # NoFile
    <2>1. Staged = cur
      BY <1>1 DEF Staged, IInv, StagedIsCurrent, AtWork
    <2> QED BY <1>1, <2>1, JobsAssumption DEF NoFile, Mutants
  <1>5. /\ files' \in [0..(NPkgs - 1) -> Mutants \cup {None, NoFile}]
        /\ files'[NextFile] = IF q \in HasTests THEN cur ELSE NoFile
        /\ \A f \in 0..(NPkgs - 1) : f # NextFile => files'[f] = files[f]
    <2>1. files \in [0..(NPkgs - 1) -> Mutants \cup {None, NoFile}]
      BY <1>1 DEF TypeOK
    <2>2. /\ Cleared \in [0..(NPkgs - 1) -> Mutants \cup {None, NoFile}]
          /\ Cleared[NextFile] = NoFile
          /\ \A f \in 0..(NPkgs - 1) : f # NextFile => Cleared[f] = files[f]
      BY <1>2, <2>1 DEF Cleared
    <2> HIDE DEF q
    <2>3. CASE q \in HasTests
      BY <1>1, <1>2, <1>3, <1>4, <2>2, <2>3
    <2>4. CASE q \notin HasTests
      BY <1>2, <1>3, <2>2, <2>4
    <2> QED BY <2>3, <2>4
  <1>6. new = IF q \in HasTests THEN NextFile ELSE NoBin
    BY <1>4, <1>5
  <1> HIDE DEF new, q
  <1>7. /\ bins' \in [Pkgs -> 0..(NPkgs + 1)] /\ bins'[q] = new
        /\ \A p \in Pkgs : p # q => bins'[p] = bins[p]
    <2>1. new \in 0..(NPkgs + 1)
      BY <1>2, <1>6, PkgsAssumption DEF NoBin
    <2> QED BY <1>1, <1>3, <2>1 DEF TypeOK
  <1>8. NextFile' = NextFile + 1
    <2>1. new # Unbuilt
      BY <1>2, <1>6, PkgsAssumption DEF NoBin, Unbuilt
    <2>2. Built' = Built \cup {q} /\ q \notin Built
      BY <1>1, <1>7, <2>1 DEF Built, Unbuilt
    <2>3. Cardinality(Built') = Cardinality(Built) + 1
      BY <1>2, <2>2, FS_AddElement
    <2> QED BY <1>2, <2>3 DEF NextFile, Built
  <1>9. Binaries'
    <2>1. pc' = "build"
      BY <1>1, <1>3
    <2>2. ASSUME NEW p \in Pkgs, bins'[p] < NPkgs
          PROVE  bins'[p] < NextFile' /\ files'[bins'[p]] = cur
      <3>1. CASE p = q
        BY <1>2, <1>5, <1>6, <1>7, <1>8, <2>2, <3>1, PkgsAssumption DEF NoBin
      <3>2. CASE p # q
        <4>1. bins[p] < NextFile /\ files[bins[p]] = cur /\ bins[p] \in 0..(NPkgs + 1)
          BY <1>1, <1>7, <2>2, <3>2 DEF IInv, Binaries, TypeOK
        <4>2. bins[p] \in 0..(NPkgs - 1) /\ bins[p] # NextFile /\ bins[p] < NextFile + 1
          BY <1>2, <4>1, PkgsAssumption
        <4> QED BY <1>5, <1>7, <1>8, <3>2, <4>1, <4>2
      <3> QED BY <3>1, <3>2
    <2>3. ASSUME NEW p \in Pkgs, bins'[p] = NoBin
          PROVE  p \notin HasTests
      <3>1. CASE p = q
        BY <1>2, <1>6, <1>7, <2>3, <3>1, PkgsAssumption DEF NoBin
      <3>2. CASE p # q
        BY <1>7, <2>3, <3>2 DEF IInv, Binaries
      <3> QED BY <3>1, <3>2
    <2> QED BY <1>3, <2>1, <2>2, <2>3 DEF Binaries, NoBin
  <1>10. builds' \in [Pkgs -> Nat]
    BY <1>1 DEF Build, TypeOK, q
  <1>11. argsRead' \in BOOLEAN
    BY <1>1, <1>3 DEF TypeOK
  <1> QED BY <1>1, <1>3, <1>5, <1>7, <1>9, <1>10, <1>11, InsideRun DEF AtWork

(* The directory and the arguments are read, or cannot be.                 *)
LEMMA ReadArgsStep ==
    ASSUME IInv, ReadArgs
    PROVE  IInv'
  <1>1. AtWork /\ pc = "args" /\ TypeOK /\ Package \in Pkgs
    BY WorkPackage DEF ReadArgs, AtWork, IInv
  <1>2. UNCHANGED <<cur, staging, binaries, ctxDone, results>>
    BY DEF ReadArgs
  <1>3. /\ files' \in [0..(NPkgs - 1) -> Mutants \cup {None, NoFile}]
        /\ bins' \in [Pkgs -> 0..(NPkgs + 1)] /\ builds' \in [Pkgs -> Nat]
        /\ UNCHANGED <<files, bins, builds>>
    BY <1>1, <1>2 DEF TypeOK, binaries
  <1>4. CASE End(InfraError) /\ ~argsRead /\ UNCHANGED <<argsRead, expired>>
    <2>1. InfraError \in Statuses \ {Lived}
      BY OutcomeTypes
    <2>2. /\ expired' \in BOOLEAN /\ ~expired' /\ spent \in 0..Global
          /\ argsRead' \in BOOLEAN
      BY <1>1, <1>4 DEF IInv, Clock, TypeOK
    <2> QED BY <1>1, <1>2, <1>3, <1>4, <2>1, <2>2, EndStep DEF End
  <1>5. CASE /\ argsRead' = TRUE /\ pc' = "run"
             /\ UNCHANGED <<progress, passed, spent, expired, cut>>
    <2>1. NextFile' = NextFile /\ Package' = Package
      BY <1>3, <1>5 DEF NextFile, Package, progress
    <2>2. Binaries'
      BY <1>1, <1>2, <1>3, <1>5, <2>1 DEF IInv, Binaries
    <2>3. UNCHANGED <<cur, staging, progress, ctxDone, history>>
      BY <1>2, <1>5 DEF history
    <2> QED BY <1>1, <1>3, <1>5, <2>2, <2>3, InsideRun
  <1> QED BY <1>4, <1>5 DEF ReadArgs

(* The binary does not start.                                              *)
LEMMA RunFailsStep ==
    ASSUME IInv, RunFails
    PROVE  IInv'
  <1>1. AtWork /\ pc = "run" /\ TypeOK
    BY DEF RunFails, AtWork, IInv
  <1>2. /\ left \in 0..Deadline /\ spent \in 0..Deadline /\ spent + left = Deadline
        /\ Deadline \in 0..Global
    BY <1>1, WorkPackage
  <1>3. UNCHANGED <<cur, staging, binaries, argsRead, ctxDone, results>>
    BY DEF RunFails
  <1>4. \E s \in Statuses \ {Lived} : End(s)
    BY OutcomeTypes DEF RunFails, StartFails
  <1>5. expired' \in BOOLEAN /\ (expired' => spent' = Deadline)
    <2>1. CASE left = 0 /\ ~ctxDone
      <3>1. expired' = TRUE /\ spent' = spent
        BY <2>1 DEF RunFails, End
      <3> HIDE DEF Deadline
      <3> QED BY <1>2, <2>1, <3>1
    <2>2. CASE ~(left = 0 /\ ~ctxDone)
      BY <1>1, <2>2 DEF RunFails, IInv, Clock, TypeOK
    <2> QED BY <2>1, <2>2
  <1>6. /\ files' \in [0..(NPkgs - 1) -> Mutants \cup {None, NoFile}]
        /\ builds' \in [Pkgs -> Nat] /\ argsRead' \in BOOLEAN /\ spent \in 0..Global
        /\ UNCHANGED <<files, bins>>
    BY <1>1, <1>3 DEF TypeOK, binaries
  <1> HIDE DEF Deadline
  <1> QED BY <1>1, <1>3, <1>4, <1>5, <1>6, EndStep DEF End

(* The binary runs and does not pass.                                      *)
LEMMA RunEndsStep ==
    ASSUME IInv, RunEnds
    PROVE  IInv'
  <1>1. AtWork /\ pc = "run" /\ TypeOK
    BY DEF RunEnds, AtWork, IInv
  <1>2. /\ left \in 0..Deadline /\ spent \in 0..Deadline /\ spent + left = Deadline
        /\ Deadline \in 0..Global /\ Global \in Nat
    BY <1>1, WorkPackage
  <1>3. PICK o \in Ends(TestEndings), ran \in 0..left :
          /\ TestOutcome(o) # Lived /\ status' = TestOutcome(o)
          /\ expired' = (o.deadline /\ ~o.mem)
          /\ o.deadline => ran = left
          /\ spent' = spent + ran
    BY DEF RunEnds
  <1>4. o \in Observations
    BY EndsAreObservations
  <1>5. status' \in Statuses \ {Lived}
    BY <1>3, <1>4, OutcomeTypes
  <1>6. expired' \in BOOLEAN /\ spent' \in 0..Global /\ (expired' => spent' = Deadline)
    <2>1. ran \in Nat /\ left \in Nat /\ spent \in Nat /\ Deadline \in Nat /\ ran <= left
          /\ Deadline <= Global
      BY <1>2
    <2> HIDE DEF Deadline
    <2>2. spent + ran \in 0..Global
      BY <1>2, <2>1
    <2>3. expired' \in BOOLEAN /\ (expired' => ran = left)
      BY <1>3
    <2> QED BY <1>2, <1>3, <2>2, <2>3
  <1>7. /\ pc' = "settle" /\ cut' = (cut \/ ctxDone)
        /\ UNCHANGED <<cur, staging, binaries, todo, left, rechecked, argsRead, ctxDone,
                       results, passed>>
    BY DEF RunEnds
  <1>8. /\ files' \in [0..(NPkgs - 1) -> Mutants \cup {None, NoFile}]
        /\ builds' \in [Pkgs -> Nat] /\ argsRead' \in BOOLEAN /\ UNCHANGED <<files, bins>>
    BY <1>1, <1>7 DEF TypeOK, binaries
  <1> HIDE DEF Deadline
  <1> QED BY <1>1, <1>5, <1>6, <1>7, <1>8, EndStep

(* The binary's tests pass.                                                *)
LEMMA RunPassesStep ==
    ASSUME IInv, RunPasses
    PROVE  IInv'
  <1>1. AtWork /\ TypeOK
    BY DEF RunPasses, AtWork, IInv
  <1>2. PICK ran \in 0..left : PassOn(ran)
    BY DEF RunPasses
  <1>3. /\ passed \subseteq passed' /\ passed' \subseteq Runs /\ Head(todo) \in passed'
    BY <1>1, WorkPackage DEF RunPasses, TypeOK
  <1>4. UNCHANGED <<cur, staging, binaries, argsRead, ctxDone, results, expired, cut>>
    BY DEF RunPasses
  <1> QED BY <1>1, <1>2, <1>3, <1>4, PassOnStep

-----------------------------------------------------------------------------
(* The end.                                                                *)

(* Test returns: a mutant that lived had everything pass that was asked    *)
(* for, which is every suite.                                              *)
LEMMA SettleStep ==
    ASSUME IInv, Settle
    PROVE  IInv'
  <1>1. TypeOK /\ pc = "settle" /\ cur \in Mutants
    BY DEF Settle, IInv, StagedIsCurrent
  <1>2. /\ results' = [results EXCEPT ![cur] = Returned] /\ bins' = NoBins /\ pc' = "idle"
        /\ files' = [f \in DOMAIN files |->
                       IF \E p \in Pkgs : bins[p] = f THEN NoFile ELSE files[f]]
        /\ UNCHANGED <<cur, staging, progress, argsRead, ctxDone, passed, spent,
                       expired, cut, builds>>
    BY DEF Settle
  <1>3. Returned \in [status : Statuses, rechecked : BOOLEAN]
    <2>1. Pending \in Statuses
      BY OutcomeTypes
    <2> QED BY <1>1, <2>1 DEF Returned, NoResult, TypeOK
  <1>4. results' \in [Mutants -> [status : Statuses, rechecked : BOOLEAN]] /\ results'[cur] = Returned
    BY <1>1, <1>2, <1>3 DEF TypeOK
  <1>5. /\ files' \in [0..(NPkgs - 1) -> Mutants \cup {None, NoFile}]
        /\ bins' \in [Pkgs -> 0..(NPkgs + 1)] /\ \A p \in Pkgs : bins'[p] = Unbuilt
    BY <1>1, <1>2, PkgsAssumption DEF TypeOK, NoBins, Unbuilt
  <1>6. TypeOK'
    BY <1>1, <1>2, <1>4, <1>5 DEF TypeOK, staging, progress
  <1>7. StagedIsCurrent' /\ Progress' /\ Clock' /\ Cuts'
    BY <1>1, <1>2 DEF IInv, StagedIsCurrent, Progress, Clock, Cuts, AtWork
  <1>8. Binaries'
    BY <1>2, <1>5, PkgsAssumption DEF Binaries, Unbuilt, NoBin
  <1>9. CancelGivesNoVerdict'
    <2>1. cut' => ctxDone
      BY <1>2 DEF IInv, Cuts
    <2> QED BY <1>2, <1>4, <2>1 DEF CancelGivesNoVerdict, Result, Returned
  <1>10. LivedPassedEverySuite'
    <2>1. SUFFICES ASSUME Returned.status = Lived,
                          NEW p \in HasTests \cap (SuitePkgs(Jobs[cur].own) \cup {Jobs[cur].own})
                   PROVE  [pkg |-> p, part |-> "all"] \in passed
      BY <1>2, <1>4 DEF LivedPassedEverySuite, Result, SuitePkgs
    <2>2. status = Lived
      <3>1. Pending # Lived
        BY OutcomeTypes
      <3> QED BY <2>1, <3>1 DEF Returned, NoResult
    <2>3. [pkg |-> p, part |-> "all"] \in Routed(cur) \cup Again(cur)
      BY <1>1, EverySuite
    <2>4. Over([pkg |-> p, part |-> "all"])
      BY <1>1, <2>2, <2>3 DEF IInv, Progress
    <2> QED BY <2>4 DEF Over
  <1>11. TimedOutUsedItsDeadline'
    BY <1>2 DEF IInv, TimedOutUsedItsDeadline, TimeoutFor, progress
  <1> QED BY <1>6, <1>7, <1>8, <1>9, <1>10, <1>11 DEF IInv

(* The cancel, and what the other workers do.                              *)
LEMMA OtherSteps ==
    ASSUME IInv, OtherReadsArgs \/ Cancel \/ UNCHANGED vars
    PROVE  IInv'
  <1>1. /\ UNCHANGED <<pc, cur, staging, binaries, progress, history>>
        /\ argsRead' \in BOOLEAN /\ ctxDone' \in BOOLEAN /\ (ctxDone => ctxDone')
    BY DEF OtherReadsArgs, Cancel, vars, IInv, TypeOK
  <1>2. TypeOK'
    BY <1>1 DEF IInv, TypeOK, staging, binaries, progress, history
  <1>3. StagedIsCurrent' /\ Clock' /\ Cuts'
    BY <1>1 DEF IInv, StagedIsCurrent, Clock, Cuts, AtWork, Deadline, TimeoutFor,
                staging, progress, history
  <1>4. Progress'
    BY <1>1 DEF IInv, Progress, AtWork, Asked, Over, Again, Recheck, Routed, progress, history
  <1>5. Binaries'
    BY <1>1 DEF IInv, Binaries, NextFile, Package, binaries, progress
  <1>6. CancelGivesNoVerdict' /\ LivedPassedEverySuite' /\ TimedOutUsedItsDeadline'
    BY <1>1 DEF IInv, Tested, Result, CancelGivesNoVerdict, LivedPassedEverySuite,
                TimedOutUsedItsDeadline, TimeoutFor, progress, history, SuitePkgs
  <1> QED BY <1>2, <1>3, <1>4, <1>5, <1>6 DEF IInv

-----------------------------------------------------------------------------
(* The theorems.                                                           *)

LEMMA NextInv == IInv /\ [Next]_vars => IInv'
  <1> SUFFICES ASSUME IInv, [Next]_vars PROVE IInv'
    OBVIOUS
  <1>1. CASE OtherReadsArgs \/ Cancel \/ Done \/ UNCHANGED vars
    BY <1>1, OtherSteps DEF Done
  <1>2. CASE Begin \/ Unpatchable \/ WriteSource \/ WriteOverlay
    BY <1>2, BeginStep, UnpatchableStep, WriteSourceStep, WriteOverlayStep
  <1>3. CASE Reuse \/ BuildFails \/ Build \/ ReadArgs
    BY <1>3, ReuseStep, BuildFailsStep, BuildStep, ReadArgsStep
  <1>4. CASE RunFails \/ RunEnds \/ RunPasses \/ Settle
    BY <1>4, RunFailsStep, RunEndsStep, RunPassesStep, SettleStep
  <1> QED BY <1>1, <1>2, <1>3, <1>4 DEF Next, Test

LEMMA Invariance == Spec => []IInv
  BY InitInv, NextInv, PTL DEF Spec

(* What the worker goes by is the current mutant's own: the binary it      *)
(* runs, and an outcome no cancel had a part in (worker.go:546, :630).     *)
THEOREM WorkerInvHolds == Spec => []WorkerInv
  <1>1. IInv => WorkerInv
    <2>1. SUFFICES ASSUME IInv PROVE RunsOwnBinary
      BY DEF IInv, WorkerInv
    <2>2. ASSUME pc \in {"args", "run"}
          PROVE  files[bins[Package]] = cur
      <3>1. Package \in Pkgs
        BY <2>1, <2>2, WorkPackage DEF AtWork
      <3> QED BY <2>1, <2>2, <3>1 DEF IInv, Binaries
    <2> QED BY <2>2 DEF RunsOwnBinary
  <1> QED BY <1>1, Invariance, PTL

(* No mutant lives that a suite able to kill it has not run against in     *)
(* full: neither the order of the packages, nor a package without tests,   *)
(* nor the route by coverage leaves one out (worker.go:523).               *)
THEOREM LivedPassedEverySuiteHolds == Spec => []LivedPassedEverySuite
  <1>1. IInv => LivedPassedEverySuite
    BY DEF IInv
  <1> QED BY <1>1, Invariance, PTL

(* A deadline runs out only when the tests it was set for took all of it   *)
(* (worker.go:562, :599).                                                  *)
THEOREM TimedOutUsedItsDeadlineHolds == Spec => []TimedOutUsedItsDeadline
  <1>1. IInv => TimedOutUsedItsDeadline
    BY DEF IInv
  <1> QED BY <1>1, Invariance, PTL
=============================================================================
